--------------------------------- MODULE Tickets ---------------------------------
(***************************************************************************)
(* One support ticket: its status, its replies and who may move it.        *)
(*                                                                         *)
(* A reply is stored first and the status set afterwards, from the status  *)
(* that was read before the reply.  The two routes that only set a status  *)
(* read the ticket first as well.                                          *)
(***************************************************************************)
EXTENDS Slots

VARIABLES
  ticket,      \* the status of the ticket, or None
  unheard      \* a user has replied since it was last closed or resolved, and
               \* it has been neither reopened nor set since (history)

vars == <<ticket, unheard, slotVars>>

Statuses == {"open", "in_progress", "resolved", "closed"}
Ended == {"resolved", "closed"}

Init == ticket = None /\ unheard = FALSE /\ AllIdle

Create ==
  /\ Open
  /\ ticket = None
  /\ ticket' = "open"
  /\ UNCHANGED <<unheard, slotVars>>

(* side: who replies; read: the status that was read *)
Reply(side, read) == [side |-> side, read |-> read]

AddReply(r, side) ==
  /\ Admit(r)
  /\ IF ticket = None THEN Leave(r) ELSE Go(r, "replying", Reply(side, ticket))
  /\ UNCHANGED <<ticket, unheard>>

(* Mutant: only a closed ticket is reopened. *)
ReopensClosed(j) ==
  \/ j.side = "admin" /\ j.read = "open"
  \/ j.side = "user" /\ j.read = "closed"

(* An answer starts an open ticket, a user's reply reopens an ended one. *)
Reopens(j) ==
  \/ j.side = "admin" /\ j.read = "open"
  \/ j.side = "user" /\ j.read \in Ended

(* The reply refers to the ticket: it is refused when the ticket is gone. *)
StoreReply(r) ==
  /\ At(r, "replying")
  /\ IF ticket = None THEN Leave(r) /\ UNCHANGED unheard
     ELSE /\ unheard' = (unheard \/ (job[r].side = "user" /\ ticket \in Ended))
          /\ IF Reopens(job[r]) THEN Go(r, "setting", "in_progress") ELSE Leave(r)
  /\ UNCHANGED ticket

(* closeTicket, by the owner *)
CloseTicket(r) ==
  /\ Admit(r)
  /\ IF ticket = None THEN Leave(r) ELSE Go(r, "setting", "closed")
  /\ UNCHANGED <<ticket, unheard>>

(* updateStatus, by an administrator: any status from any other *)
UpdateStatus(r, s) ==
  /\ Admit(r)
  /\ IF ticket = None THEN Leave(r) ELSE Go(r, "setting", s)
  /\ UNCHANGED <<ticket, unheard>>

(* The last statement of all three. *)
SetStatus(r) ==
  /\ At(r, "setting")
  /\ IF ticket = None THEN UNCHANGED <<ticket, unheard>>
     ELSE ticket' = job[r] /\ unheard' = FALSE
  /\ Leave(r)

(* The user is deleted, and the tickets and replies with the user. *)
Cascade ==
  /\ Open
  /\ ticket' = None /\ unheard' = FALSE
  /\ UNCHANGED slotVars

Fail(r) == Stop(r) /\ UNCHANGED <<ticket, unheard>>

Next ==
  \/ \E r \in Requests :
       \/ \E side \in {"admin", "user"} : AddReply(r, side)
       \/ \E s \in Statuses : UpdateStatus(r, s)
       \/ StoreReply(r) \/ CloseTicket(r) \/ SetStatus(r) \/ Fail(r)
  \/ Create \/ Cascade

Spec == Init /\ [][Next]_vars

-----------------------------------------------------------------------------
(* Properties *)

TypeOK ==
  /\ ticket \in Statuses \cup {None}
  /\ unheard \in BOOLEAN
  /\ pc \in [Requests -> {"idle", "replying", "setting"}]

(* Without overlap or failures, no reply of a user is left on a ticket that
   has ended: the reply reopens it before the next request. *)
RepliesAreHeard == Quiet => ~unheard
=============================================================================
