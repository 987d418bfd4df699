-------------------------------- MODULE Downloads --------------------------------
(***************************************************************************)
(* Product files, the store that keeps them, and one-time downloads by     *)
(* order token.                                                            *)
(*                                                                         *)
(* A product file is a row of the database and an object of the store,     *)
(* written one after the other with no transaction.  A request is a slot   *)
(* that runs one handler at a time; one action is one awaited statement    *)
(* together with the synchronous code up to the next await.  The orders    *)
(* are an environment that moves as OrderLifecycle proves (PaymentGate).   *)
(***************************************************************************)
EXTENDS Naturals, FiniteSets

CONSTANTS
  Tokens,      \* download tokens; each belongs to one order
  Products,
  Keys,        \* names of stored objects: product id and upload time
  Requests,    \* slots for requests in flight
  Backend,     \* "s3", "local" or "cdn" (S3 behind signed URLs)
  Overlap,     \* may a request start while another one is in flight?
  MayFail,     \* may a request stop between two statements?
  MayRefuse,   \* may the store refuse an upload or a deletion?
  None

ASSUME BackendAssumption == Backend \in {"s3", "local", "cdn"}
ASSUME FlagsAssumption == {Overlap, MayFail, MayRefuse} \subseteq BOOLEAN
ASSUME NoneAssumption == None \notin Keys \cup Tokens \cup Products

VARIABLES
  status,      \* status[t]: the status of the order that owns t
  expired,     \* expired[t]: tokenExpiresAt has passed
  row,         \* row[p]: filePath of the product_files row of p, or None
  objects,     \* keys of the objects in the store
  logs,        \* logs[t, p]: download_logs rows with token t and product p
  copies,      \* copies[t, p]: files handed over to the holder of t
  pc,          \* pc[r]: where the handler in slot r is
  job          \* job[r]: what it was asked and what it has read

orderVars == <<status, expired>>
fileVars == <<row, objects>>
logVars == <<logs, copies>>
vars == <<orderVars, fileVars, logVars, pc, job>>

PaidOn == {"paid", "delivered", "completed", "refunded"}
Statuses == PaidOn \cup {"new", "pending", "deleted"}

Resting == {"idle", "done", "refused", "failed"}
Working == {"locating", "consulting", "logging", "handing",
            "dropping", "unlinking", "storing", "publishing"}

Job(t, p, k, replace) == [token |-> t, product |-> p, key |-> k, replace |-> replace]
NoJob == Job(None, None, None, FALSE)

Active(r) == pc[r] \in Working
Quiet == \A r \in Requests : ~Active(r)
Admit(r) == ~Active(r) /\ (Overlap \/ Quiet)

Enter(r, place, j) ==
  /\ pc' = [pc EXCEPT ![r] = place]
  /\ job' = [job EXCEPT ![r] = j]

Leave(r, outcome) == Enter(r, outcome, NoJob)

Step(r, place) == pc' = [pc EXCEPT ![r] = place] /\ UNCHANGED job

Init ==
  /\ status = [t \in Tokens |-> "new"]
  /\ expired = [t \in Tokens |-> FALSE]
  /\ row = [p \in Products |-> None]
  /\ objects = {}
  /\ logs = [x \in Tokens \X Products |-> 0]
  /\ copies = [x \in Tokens \X Products |-> 0]
  /\ pc = [r \in Requests |-> "idle"]
  /\ job = [r \in Requests |-> NoJob]

-----------------------------------------------------------------------------
(* GET /download/file/:token/:productId *)

(* Mutant: any order whose token is still valid may download. *)
AdmissibleUnpaid(t) == status[t] \notin {"new", "deleted"} /\ ~expired[t]

(* The order exists, is exactly "paid", and its token is still valid. *)
Admissible(t) == status[t] = "paid" /\ ~expired[t]

ReadOrder(r, t, p) ==
  /\ Admit(r)
  /\ IF Admissible(t) THEN Enter(r, "locating", Job(t, p, None, FALSE))
                      ELSE Leave(r, "refused")
  /\ UNCHANGED <<orderVars, fileVars, logVars>>

(* Any product that has a file passes, whether the order holds it or not. *)
ReadFile(r, p) ==
  /\ pc[r] = "locating"
  /\ p = job[r].product
  /\ IF row[p] = None THEN Leave(r, "refused")
     ELSE Enter(r, "consulting", Job(job[r].token, p, row[p], FALSE))
  /\ UNCHANGED <<orderVars, fileVars, logVars>>

(* Mutant: the log is consulted for the token, not for the product as well. *)
SpentElsewhere(t, p) == \E q \in Products : q # p /\ logs[<<t, q>>] > 0

Spent(t, p) == logs[<<t, p>>] > 0

(* Then comes the lookup of the client's country, which never fails. *)
ReadLog(r, t, p) ==
  /\ pc[r] = "consulting"
  /\ t = job[r].token /\ p = job[r].product
  /\ IF Spent(t, p) THEN Leave(r, "refused") ELSE Step(r, "logging")
  /\ UNCHANGED <<orderVars, fileVars, logVars>>

(* Mutant: the file is handed over first and the log written afterwards. *)
WriteLogLate(r, t, p) ==
  /\ pc[r] = "logging"
  /\ t = job[r].token /\ p = job[r].product
  /\ Step(r, "handing")
  /\ UNCHANGED <<orderVars, fileVars, logVars>>

(* The log says "downloaded" before the file has been fetched. *)
WriteLog(r, t, p) ==
  /\ pc[r] = "logging"
  /\ t = job[r].token /\ p = job[r].product
  /\ logs' = [logs EXCEPT ![<<t, p>>] = @ + 1]
  /\ Step(r, "handing")
  /\ UNCHANGED <<orderVars, fileVars, copies>>

(* Signing a URL never looks at the store.  S3 throws when the object is gone;
   a local stream is opened later, its error has no listener, and the process
   dies with every handler in flight. *)
HandOver(r, t, p) ==
  /\ pc[r] = "handing"
  /\ t = job[r].token /\ p = job[r].product
  /\ IF Backend = "cdn" \/ job[r].key \in objects
     THEN copies' = [copies EXCEPT ![<<t, p>>] = @ + 1] /\ Leave(r, "done")
     ELSE /\ UNCHANGED copies
          /\ IF Backend = "s3" THEN Leave(r, "failed")
             ELSE /\ pc' = [q \in Requests |-> IF Active(q) THEN "failed" ELSE pc[q]]
                  /\ job' = [q \in Requests |-> IF Active(q) THEN NoJob ELSE job[q]]
  /\ UNCHANGED <<orderVars, fileVars, logs>>

-----------------------------------------------------------------------------
(* POST and DELETE /admin/products/:productId/file *)

(* saveProductFile: the size, the name and the ZIP header, then the row. *)
Save(r, p, valid) ==
  /\ Admit(r)
  /\ \/ ~valid /\ Leave(r, "refused")
     \/ valid /\ row[p] = None /\ Enter(r, "storing", Job(None, p, None, TRUE))
     \/ valid /\ row[p] # None /\ Enter(r, "dropping", Job(None, p, row[p], TRUE))
  /\ UNCHANGED <<orderVars, fileVars, logVars>>

(* deleteProductFile *)
Delete(r, p) ==
  /\ Admit(r)
  /\ IF row[p] = None THEN Leave(r, "refused")
     ELSE Enter(r, "dropping", Job(None, p, row[p], FALSE))
  /\ UNCHANGED <<orderVars, fileVars, logVars>>

(* Mutant: the row that names the object is forgotten. *)
DropOnly(r) ==
  /\ pc[r] = "dropping"
  /\ objects' = objects \ {job[r].key}
  /\ Leave(r, "done")
  /\ UNCHANGED <<orderVars, row, logVars>>

(* Mutant: the object of a replaced file is left in the store. *)
DropNothing(r) ==
  /\ pc[r] = "dropping"
  /\ Step(r, "unlinking")
  /\ UNCHANGED <<orderVars, fileVars, logVars>>

(* storage.delete; a refusal of the store is logged and swallowed. *)
Drop(r) ==
  /\ pc[r] = "dropping"
  /\ \/ objects' = objects \ {job[r].key}
     \/ MayRefuse /\ UNCHANGED objects
  /\ Step(r, "unlinking")
  /\ UNCHANGED <<orderVars, row, logVars>>

(* The row is deleted by its own id: it throws when that row is gone, and it
   never touches a newer row of the product. *)
Unlink(r, p) ==
  /\ pc[r] = "unlinking"
  /\ p = job[r].product
  /\ IF row[p] # job[r].key THEN Leave(r, "failed") /\ UNCHANGED row
     ELSE /\ row' = [row EXCEPT ![p] = None]
          /\ IF job[r].replace THEN Enter(r, "storing", Job(None, p, None, TRUE))
                               ELSE Leave(r, "done")
  /\ UNCHANGED <<orderVars, objects, logVars>>

(* No two uploads of a product fall in one millisecond: a name is new. *)
Unused(k) ==
  /\ k \notin objects
  /\ \A p \in Products : row[p] # k
  /\ \A q \in Requests : job[q].key # k

(* storage.upload throws: a file being replaced is already gone by then. *)
StoreRefused(r) ==
  /\ MayRefuse
  /\ pc[r] = "storing"
  /\ Leave(r, "failed")
  /\ UNCHANGED <<orderVars, fileVars, logVars>>

Store(r, k) ==
  /\ pc[r] = "storing"
  /\ Unused(k)
  /\ objects' = objects \cup {k}
  /\ Enter(r, "publishing", Job(None, job[r].product, k, TRUE))
  /\ UNCHANGED <<orderVars, row, logVars>>

(* Mutant: the row is given the name of the product, not that of the object. *)
PublishName(r, p) ==
  /\ pc[r] = "publishing"
  /\ p = job[r].product
  /\ row' = [row EXCEPT ![p] = p]
  /\ Leave(r, "done")
  /\ UNCHANGED <<orderVars, objects, logVars>>

(* Mutant: the new row replaces the one another upload has just created. *)
PublishOver(r, p) ==
  /\ pc[r] = "publishing"
  /\ p = job[r].product
  /\ row' = [row EXCEPT ![p] = job[r].key]
  /\ Leave(r, "done")
  /\ UNCHANGED <<orderVars, objects, logVars>>

(* productId is unique: a second row is refused, and its object stays behind. *)
Publish(r, p) ==
  /\ pc[r] = "publishing"
  /\ p = job[r].product
  /\ IF row[p] = None
     THEN row' = [row EXCEPT ![p] = job[r].key] /\ Leave(r, "done")
     ELSE UNCHANGED row /\ Leave(r, "failed")
  /\ UNCHANGED <<orderVars, objects, logVars>>

(* The process dies, or a statement is rejected: what was written stays. *)
Fail(r) ==
  /\ MayFail
  /\ Active(r)
  /\ Leave(r, "failed")
  /\ UNCHANGED <<orderVars, fileVars, logVars>>

-----------------------------------------------------------------------------
(* The orders, seen from here *)

(* What an order may become in one step of OrderLifecycle (its PaymentGate);
   a bulk deletion moves several at once. *)
After(s) == CASE s = "new"     -> {"new", "pending"}
              [] s = "pending" -> {"pending", "paid", "deleted"}
              [] s = "deleted" -> {"deleted"}
              [] OTHER         -> PaidOn \cup {"deleted"}

OrdersMove ==
  /\ Overlap \/ Quiet
  /\ status' \in [Tokens -> Statuses]
  /\ \A t \in Tokens : status'[t] \in After(status[t])
  /\ UNCHANGED <<expired, fileVars, logVars, pc, job>>

Expire(t) ==
  /\ Overlap \/ Quiet
  /\ expired' = [expired EXCEPT ![t] = TRUE]
  /\ UNCHANGED <<status, fileVars, logVars, pc, job>>

Download(r, t, p) ==
  ReadOrder(r, t, p) \/ ReadLog(r, t, p) \/ WriteLog(r, t, p) \/ HandOver(r, t, p)

Keep(r) ==
  \/ Drop(r) \/ StoreRefused(r)
  \/ \E p \in Products : \/ ReadFile(r, p) \/ Delete(r, p) \/ Unlink(r, p)
                         \/ Publish(r, p)
                         \/ \E valid \in BOOLEAN : Save(r, p, valid)
  \/ \E k \in Keys : Store(r, k)

Handlers ==
  \E r \in Requests :
    Keep(r) \/ Fail(r) \/ \E t \in Tokens, p \in Products : Download(r, t, p)

Environment == OrdersMove \/ \E t \in Tokens : Expire(t)

Next == Handlers \/ Environment

Spec == Init /\ [][Next]_vars

-----------------------------------------------------------------------------
(* Properties *)

TypeOK ==
  /\ status \in [Tokens -> Statuses]
  /\ expired \in [Tokens -> BOOLEAN]
  /\ row \in [Products -> Keys \cup {None}]
  /\ objects \in SUBSET Keys
  /\ logs \in [Tokens \X Products -> Nat]
  /\ copies \in [Tokens \X Products -> Nat]
  /\ pc \in [Requests -> Resting \cup Working]
  /\ job \in [Requests -> [token : Tokens \cup {None}, product : Products \cup {None},
                           key : Keys \cup {None}, replace : BOOLEAN]]

(* TONG_QUAN 7.3: a product of an order can be downloaded only once.  It holds
   while requests do not overlap, failures included. *)
OneDownload == \A t \in Tokens, p \in Products : copies[<<t, p>>] <= 1 /\ logs[<<t, p>>] <= 1

(* However downloads overlap, no file is handed over that the log does not
   count, so the statistics and the next check never miss one. *)
CopiesAreLogged == \A t \in Tokens, p \in Products : copies[<<t, p>>] <= logs[<<t, p>>]

(* However downloads overlap, a token yields at most as many downloads of a
   product as there were requests in flight together: a later one is refused. *)
OverlapBounds ==
  \A t \in Tokens, p \in Products : logs[<<t, p>>] <= Cardinality(Requests)

(* No order yields a file or a license key before it is paid, however long its
   handler waits between its check and its log. *)
NoFileUnpaid ==
  \A t \in Tokens, p \in Products : logs[<<t, p>>] > 0 => status[t] \notin {"new", "pending"}

Shelf == INSTANCE FileShelf
  WITH shelf <- [p \in Products |-> IF row[p] \in objects THEN row[p] ELSE None]

(* Rows and objects together behave as FileShelf, however uploads, deletions,
   refusals of the store and failures interleave: a published file is never
   replaced in place and never serves a second product. *)
OneShelf == Shelf!Spec

Backed == {p \in Products : row[p] = None \/ row[p] \in objects}

(* A row is published with its object, and loses it only to a handler that is
   then about to delete the row: overlapping uploads and deletions, refused
   or failing, never leave a file that cannot be fetched, except that a
   deletion which stops there does. *)
RowsAreBacked ==
  [][\A p \in Backed \ Backed' :
       \E r \in Requests :
         pc'[r] = "unlinking" /\ job'[r].product = p /\ job'[r].key = row'[p]]_vars

(* Without overlap, failures or refusals: between requests the store holds the
   objects of the rows and no other, and whoever spent the one download has
   the file. *)
TablesAgree ==
  Quiet =>
    /\ objects = {row[p] : p \in Products} \ {None}
    /\ \A t \in Tokens, p \in Products : logs[<<t, p>>] = copies[<<t, p>>]
=============================================================================
