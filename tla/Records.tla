--------------------------------- MODULE Records ---------------------------------
(***************************************************************************)
(* The rows that are created, edited by id and removed, and no more: flash *)
(* sales, change logs, questions, services, reviews, contact requests,     *)
(* coupons and referrals.                                                  *)
(*                                                                         *)
(* One behaviour is about one such table, its kind.  Most handlers read    *)
(* the row, to answer 404 when there is none, and write by id in a second  *)
(* statement that names only the fields of the request.  A handler of the  *)
(* admin service then writes a line of the audit log.                      *)
(***************************************************************************)
EXTENDS Slots

CONSTANTS Ids, Values

VARIABLES
  kind,        \* the table
  row,         \* row[i]: the fields of row i, or None
  born         \* ids that were ever used

vars == <<kind, row, born, slotVars>>

Kinds == {"sale", "changelog", "faq", "service", "review", "contact",
          "coupon", "referral"}
OfProduct == {"sale", "changelog", "faq", "review"}

Fields == {"body", "flag"}   \* flag: active, approved or the status
Rows == [Fields -> Values]
Partial == UNION {[fs -> Values] : fs \in SUBSET Fields}
FlagOnly == [{"flag"} -> Values]

Init ==
  /\ kind \in Kinds
  /\ row = [i \in Ids |-> None]
  /\ born = {}
  /\ AllIdle

(* edit: the fields to write, None for a removal; found: the row that was
   read; by: who asked *)
Job(i, edit, found, by) == [id |-> i, edit |-> edit, found |-> found, by |-> by]

-----------------------------------------------------------------------------
(* Creation is one statement, with a second one for the log. *)

Insert(r, i, fields, by) ==
  /\ Admit(r)
  /\ i \notin born
  /\ born' = born \cup {i}
  /\ row' = [row EXCEPT ![i] = fields]
  /\ IF by = "admin" THEN Go(r, "logging", Job(i, fields, None, by))
     ELSE UNCHANGED slotVars
  /\ UNCHANGED <<kind>>

CreateSale(r, i, fields) == kind = "sale" /\ Insert(r, i, fields, "service")
CreateFlashSale(r, i, fields) == kind = "sale" /\ Insert(r, i, fields, "admin")
CreateChangelog(r, i, fields) == kind = "changelog" /\ Insert(r, i, fields, "service")
CreateFaq(r, i, fields) == kind = "faq" /\ Insert(r, i, fields, "service")
CreateService(r, i, fields) == kind = "service" /\ Insert(r, i, fields, "service")
CreateReview(r, i, fields) == kind = "review" /\ Insert(r, i, fields, "service")

(* A failure of the e-mail that follows is caught. *)
Submit(r, i, fields) == kind = "contact" /\ Insert(r, i, fields, "service")

CreateCoupon(r, i, fields) == kind = "coupon" /\ Insert(r, i, fields, "service")

(* How a referral comes about is in Referrals. *)
Refer(r, i, fields) == kind = "referral" /\ Insert(r, i, fields, "service")

Creations(r, i, fields) ==
  \/ CreateSale(r, i, fields) \/ CreateFlashSale(r, i, fields)
  \/ CreateChangelog(r, i, fields) \/ CreateFaq(r, i, fields)
  \/ CreateService(r, i, fields) \/ CreateReview(r, i, fields)
  \/ Submit(r, i, fields) \/ CreateCoupon(r, i, fields) \/ Refer(r, i, fields)

-----------------------------------------------------------------------------
(* Edits and removals *)

Find(r, i, edit, by) ==
  /\ Admit(r)
  /\ IF row[i] = None THEN Leave(r)
     ELSE Go(r, "writing", Job(i, edit, row[i], by))
  /\ UNCHANGED <<kind, row, born>>

(* Without the look: the write throws when the row is gone. *)
Blind(r, i, edit) ==
  /\ Admit(r)
  /\ Go(r, "writing", Job(i, edit, row[i], "service"))
  /\ UNCHANGED <<kind, row, born>>

UpdateSale(r, i, edit) == kind = "sale" /\ Find(r, i, edit, "service")
UpdateFlashSale(r, i, edit) == kind = "sale" /\ Find(r, i, edit, "admin")
UpdateChangelog(r, i, edit) ==
  kind = "changelog" /\ edit \in Rows /\ Find(r, i, edit, "service")
UpdateFaq(r, i, edit) == kind = "faq" /\ Find(r, i, edit, "service")
UpdateService(r, i, edit) == kind = "service" /\ Find(r, i, edit, "service")
Approve(r, i, edit) ==
  kind = "review" /\ edit \in FlagOnly /\ Find(r, i, edit, "service")
UpdateStatus(r, i, edit) ==
  kind = "contact" /\ edit \in FlagOnly /\ Find(r, i, edit, "service")
UpdateContactStatus(r, i, edit) ==
  kind = "contact" /\ edit \in FlagOnly /\ Find(r, i, edit, "admin")
Deactivate(r, i, edit) == kind = "coupon" /\ edit \in FlagOnly /\ Blind(r, i, edit)
AdminUpdateReferral(r, i, edit) == kind = "referral" /\ Find(r, i, edit, "service")

Edits(r, i, edit) ==
  \/ UpdateSale(r, i, edit) \/ UpdateFlashSale(r, i, edit)
  \/ UpdateChangelog(r, i, edit) \/ UpdateFaq(r, i, edit)
  \/ UpdateService(r, i, edit) \/ Approve(r, i, edit)
  \/ UpdateStatus(r, i, edit) \/ UpdateContactStatus(r, i, edit)
  \/ Deactivate(r, i, edit) \/ AdminUpdateReferral(r, i, edit)

RemoveSale(r, i) == kind = "sale" /\ Find(r, i, None, "service")
DeleteFlashSale(r, i) == kind = "sale" /\ Find(r, i, None, "admin")
RemoveFaq(r, i) == kind = "faq" /\ Find(r, i, None, "service")
RemoveService(r, i) == kind = "service" /\ Find(r, i, None, "service")
DeleteReview(r, i) == kind = "review" /\ Find(r, i, None, "service")
DeleteChangelog(r, i) == kind = "changelog" /\ Blind(r, i, None)

Removals(r, i) ==
  \/ RemoveSale(r, i) \/ DeleteFlashSale(r, i) \/ RemoveFaq(r, i)
  \/ RemoveService(r, i) \/ DeleteReview(r, i) \/ DeleteChangelog(r, i)

Lay(old, edit) == [f \in Fields |-> IF f \in DOMAIN edit THEN edit[f] ELSE old[f]]

(* Mutant: the row that was read is written back with the edit. *)
MergeFound(old, found, edit) == Lay(IF found = None THEN old ELSE found, edit)

Merge(old, found, edit) == Lay(old, edit)

Gone(i) == row[i] = None

(* update or delete by id throws when the row is gone. *)
Write(r) ==
  /\ At(r, "writing")
  /\ LET i == job[r].id
         edit == job[r].edit
         new == IF edit = None THEN None ELSE Merge(row[i], job[r].found, edit)
     IN  IF Gone(i) THEN Leave(r) /\ UNCHANGED row
         ELSE /\ row' = [row EXCEPT ![i] = new]
              /\ IF job[r].by = "admin" THEN Step(r, "logging") ELSE Leave(r)
  /\ UNCHANGED <<kind, born>>

(* auditService.log; the statistics that are pushed after it are not kept. *)
Log(r) ==
  /\ At(r, "logging")
  /\ Leave(r)
  /\ UNCHANGED <<kind, row, born>>

(* The product is deleted, and its rows with it. *)
Cascade ==
  /\ Open
  /\ kind \in OfProduct
  /\ row' = [i \in Ids |-> None]
  /\ UNCHANGED <<kind, born, slotVars>>

Fail(r) == Stop(r) /\ UNCHANGED <<kind, row, born>>

Entries(r, i) ==
  \/ \E fields \in Rows : Creations(r, i, fields)
  \/ \E edit \in Partial : Edits(r, i, edit)
  \/ Removals(r, i)

Next ==
  \/ \E r \in Requests : \/ \E i \in Ids : Entries(r, i)
                         \/ Write(r) \/ Log(r) \/ Fail(r)
  \/ Cascade

Spec == Init /\ [][Next]_vars

-----------------------------------------------------------------------------
(* Properties *)

TypeOK ==
  /\ kind \in Kinds
  /\ row \in [Ids -> Rows \cup {None}] /\ born \in SUBSET Ids
  /\ pc \in [Requests -> {"idle", "writing", "logging"}]

Writes(r, i, f) ==
  At(r, "writing") /\ job[r].id = i /\ job[r].edit # None /\ f \in DOMAIN job[r].edit

(* Two edits of one row that overlap do not undo each other, nor a removal: a
   field changes only by an edit in flight that names it, however old the row
   is that was read, and a row that was removed stays so. *)
EditsKeepToTheirFields ==
  [][/\ \A i \in born : row[i] = None => row'[i] = None
     /\ \A i \in Ids : row[i] # None /\ row'[i] # None =>
          \A f \in Fields : row'[i][f] # row[i][f] =>
            \E r \in Requests : Writes(r, i, f)]_vars
=============================================================================
