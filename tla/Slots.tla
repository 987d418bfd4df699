---------------------------------- MODULE Slots ----------------------------------
(***************************************************************************)
(* The slots in which request handlers run.                                *)
(*                                                                         *)
(* A slot runs one handler at a time.  pc[r] names the next awaited        *)
(* statement of the handler in slot r, and job[r] holds what it was asked  *)
(* and what it has read; both start over when the handler is done.  The    *)
(* service modules extend this one: each of their actions is one awaited   *)
(* statement with the synchronous code up to the next.                     *)
(***************************************************************************)
EXTENDS Naturals

CONSTANTS
  Requests,    \* slots for requests in flight
  Overlap,     \* may a request start while another one is in flight?
  MayFail,     \* may a handler stop between two statements?
  None

VARIABLES pc, job

slotVars == <<pc, job>>

AllIdle ==
  /\ pc = [r \in Requests |-> "idle"]
  /\ job = [r \in Requests |-> None]

Active(r) == pc[r] # "idle"
Quiet == \A r \in Requests : ~Active(r)
Open == Overlap \/ Quiet
Admit(r) == ~Active(r) /\ Open

At(r, place) == pc[r] = place

Go(r, place, what) ==
  /\ pc' = [pc EXCEPT ![r] = place]
  /\ job' = [job EXCEPT ![r] = what]

Step(r, place) == Go(r, place, job[r])
Leave(r) == Go(r, "idle", None)

(* The process dies, or a statement is rejected: what was written stays. *)
Stop(r) == MayFail /\ Active(r) /\ Leave(r)
=============================================================================
