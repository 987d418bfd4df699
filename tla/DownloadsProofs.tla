---------------------------- MODULE DownloadsProofs ----------------------------
(***************************************************************************)
(* Theorems about Downloads for any tokens, products, keys and requests.   *)
(* All but the last two hold whatever overlaps, fails or is refused by the *)
(* store.                                                                  *)
(***************************************************************************)
EXTENDS Downloads, FiniteSetTheorems, TLAPS

-----------------------------------------------------------------------------
(* Types *)

Jobs == [token : Tokens \cup {None}, product : Products \cup {None},
         key : Keys \cup {None}, replace : BOOLEAN]

(* The part of TypeOK about the local variables of handlers. *)
LocalsOK ==
  /\ pc \in [Requests -> Resting \cup Working]
  /\ job \in [Requests -> Jobs]

(* Whatever a handler goes on with, its local variables keep their types. *)
LEMMA EnterType ==
  ASSUME LocalsOK, NEW r \in Requests, NEW place \in Resting \cup Working,
         NEW j \in Jobs, Enter(r, place, j)
  PROVE  LocalsOK'
  BY DEF Enter, LocalsOK

(* So they do when it moves with what it has. *)
LEMMA StepType ==
  ASSUME LocalsOK, NEW r \in Requests, NEW place \in Resting \cup Working,
         Step(r, place)
  PROVE  LocalsOK'
  BY DEF Step, LocalsOK

(* So they do when it ends. *)
LEMMA LeaveType ==
  ASSUME LocalsOK, NEW r \in Requests, NEW outcome \in Resting, Leave(r, outcome)
  PROVE  LocalsOK'
<1>1. NoJob \in Jobs
  BY DEF NoJob, Job, Jobs
<1> QED
  BY <1>1, EnterType DEF Leave

(* Every step of a handler keeps the types. *)
LEMMA HandlerType == TypeOK /\ Handlers => TypeOK'
<1> SUFFICES ASSUME TypeOK, Handlers PROVE TypeOK'
  OBVIOUS
<1>0. LocalsOK
  BY DEF TypeOK, LocalsOK, Jobs
<1>t. ASSUME LocalsOK', UNCHANGED <<orderVars, fileVars, logVars>>
      PROVE  TypeOK'
  BY <1>t DEF TypeOK, LocalsOK, Jobs, orderVars, fileVars, logVars
<1>j. ASSUME NEW t \in Tokens \cup {None}, NEW p \in Products \cup {None},
             NEW k \in Keys \cup {None}, NEW replace \in BOOLEAN
      PROVE  Job(t, p, k, replace) \in Jobs
  BY DEF Job, Jobs
<1>1. ASSUME NEW r \in Requests, NEW t \in Tokens, NEW p \in Products,
             ReadOrder(r, t, p)
      PROVE  TypeOK'
  <2>1. LocalsOK'
    BY <1>0, <1>1, <1>j, EnterType, LeaveType DEF ReadOrder, Resting, Working
  <2> QED
    BY <1>1, <1>t, <2>1 DEF ReadOrder
<1>2. ASSUME NEW r \in Requests, NEW p \in Products, ReadFile(r, p)
      PROVE  TypeOK'
  <2>1. job[r].token \in Tokens \cup {None} /\ row[p] \in Keys \cup {None}
    BY DEF TypeOK
  <2>2. Job(job[r].token, p, row[p], FALSE) \in Jobs
    BY <1>j, <2>1
  <2>3. LocalsOK'
    BY <1>0, <1>2, <2>2, EnterType, LeaveType DEF ReadFile, Resting, Working
  <2> QED
    BY <1>2, <1>t, <2>3 DEF ReadFile
<1>3. ASSUME NEW r \in Requests, NEW t \in Tokens, NEW p \in Products,
             ReadLog(r, t, p)
      PROVE  TypeOK'
  <2>1. LocalsOK'
    BY <1>0, <1>3, StepType, LeaveType DEF ReadLog, Resting, Working
  <2> QED
    BY <1>3, <1>t, <2>1 DEF ReadLog
<1>4. ASSUME NEW r \in Requests, NEW t \in Tokens, NEW p \in Products,
             WriteLog(r, t, p)
      PROVE  TypeOK'
  <2>1. LocalsOK'
    BY <1>0, <1>4, StepType DEF WriteLog, Working
  <2>2. logs' \in [Tokens \X Products -> Nat]
    BY <1>4 DEF WriteLog, TypeOK
  <2> QED
    BY <1>4, <2>1, <2>2 DEF WriteLog, TypeOK, LocalsOK, Jobs, orderVars, fileVars
<1>5. ASSUME NEW r \in Requests, NEW t \in Tokens, NEW p \in Products,
             HandOver(r, t, p)
      PROVE  TypeOK'
  <2>1. LocalsOK'
    <3>1. ASSUME pc' = [q \in Requests |-> IF Active(q) THEN "failed" ELSE pc[q]],
                 job' = [q \in Requests |-> IF Active(q) THEN NoJob ELSE job[q]]
          PROVE  LocalsOK'
      BY <1>0, <1>j, <3>1 DEF LocalsOK, NoJob, Resting
    <3> QED
      BY <1>0, <1>5, <3>1, LeaveType DEF HandOver, Resting
  <2>2. ASSUME copies' = [copies EXCEPT ![<<t, p>>] = @ + 1]
        PROVE  copies' \in [Tokens \X Products -> Nat]
    BY <2>2 DEF TypeOK
  <2>3. copies' \in [Tokens \X Products -> Nat]
    BY <1>5, <2>2 DEF HandOver, TypeOK
  <2> QED
    BY <1>5, <2>1, <2>3 DEF HandOver, TypeOK, LocalsOK, Jobs, orderVars, fileVars
<1>6. ASSUME NEW r \in Requests, NEW p \in Products, NEW valid \in BOOLEAN,
             Save(r, p, valid)
      PROVE  TypeOK'
  <2>1. Job(None, p, None, TRUE) \in Jobs /\ Job(None, p, row[p], TRUE) \in Jobs
    BY <1>j DEF TypeOK
  <2>2. LocalsOK'
    BY <1>0, <1>6, <2>1, EnterType, LeaveType DEF Save, Resting, Working
  <2> QED
    BY <1>6, <1>t, <2>2 DEF Save
<1>7. ASSUME NEW r \in Requests, NEW p \in Products, Delete(r, p)
      PROVE  TypeOK'
  <2>1. Job(None, p, row[p], FALSE) \in Jobs
    BY <1>j DEF TypeOK
  <2>2. LocalsOK'
    BY <1>0, <1>7, <2>1, EnterType, LeaveType DEF Delete, Resting, Working
  <2> QED
    BY <1>7, <1>t, <2>2 DEF Delete
<1>8. ASSUME NEW r \in Requests, Drop(r)
      PROVE  TypeOK'
  <2>1. LocalsOK'
    BY <1>0, <1>8, StepType DEF Drop, Working
  <2> QED
    BY <1>8, <2>1 DEF Drop, TypeOK, LocalsOK, Jobs, orderVars, logVars
<1>9. ASSUME NEW r \in Requests, NEW p \in Products, Unlink(r, p)
      PROVE  TypeOK'
  <2>1. LocalsOK'
    BY <1>0, <1>9, <1>j, EnterType, LeaveType DEF Unlink, Resting, Working
  <2>2. row' \in [Products -> Keys \cup {None}]
    BY <1>9 DEF Unlink, TypeOK
  <2> QED
    BY <1>9, <2>1, <2>2 DEF Unlink, TypeOK, LocalsOK, Jobs, orderVars, logVars
<1>10. ASSUME NEW r \in Requests, NEW k \in Keys, Store(r, k)
       PROVE  TypeOK'
  <2>1. Job(None, job[r].product, k, TRUE) \in Jobs
    BY <1>j DEF TypeOK
  <2>2. LocalsOK'
    BY <1>0, <1>10, <2>1, EnterType DEF Store, Working
  <2> QED
    BY <1>10, <2>2 DEF Store, TypeOK, LocalsOK, Jobs, orderVars, logVars
<1>11. ASSUME NEW r \in Requests, NEW p \in Products, Publish(r, p)
       PROVE  TypeOK'
  <2>1. LocalsOK'
    BY <1>0, <1>11, LeaveType DEF Publish, Resting
  <2>2. row' \in [Products -> Keys \cup {None}]
    BY <1>11 DEF Publish, TypeOK
  <2> QED
    BY <1>11, <2>1, <2>2 DEF Publish, TypeOK, LocalsOK, Jobs, orderVars, logVars
<1>12. ASSUME NEW r \in Requests, StoreRefused(r) \/ Fail(r)
       PROVE  TypeOK'
  <2>1. LocalsOK'
    BY <1>0, <1>12, LeaveType DEF StoreRefused, Fail, Resting
  <2> QED
    BY <1>12, <1>t, <2>1 DEF StoreRefused, Fail
<1> QED
  BY <1>1, <1>2, <1>3, <1>4, <1>5, <1>6, <1>7, <1>8, <1>9, <1>10, <1>11, <1>12
     DEF Handlers, Keep, Download

(* Every step keeps the types. *)
LEMMA TypeStep == TypeOK /\ [Next]_vars => TypeOK'
<1>1. TypeOK /\ OrdersMove => TypeOK'
  BY DEF TypeOK, OrdersMove, fileVars, logVars
<1>2. ASSUME NEW t \in Tokens PROVE TypeOK /\ Expire(t) => TypeOK'
  BY DEF TypeOK, Expire, fileVars, logVars
<1>3. TypeOK /\ UNCHANGED vars => TypeOK'
  BY DEF TypeOK, vars, orderVars, fileVars, logVars
<1> QED
  BY <1>1, <1>2, <1>3, HandlerType DEF Next, Environment

LEMMA InitType == Init => TypeOK
  BY DEF Init, TypeOK, NoJob, Job, Statuses, PaidOn, Resting

(* The tables and the local variables of the handlers are always well typed. *)
THEOREM DownloadsTypeCorrect == Spec => []TypeOK
  BY InitType, TypeStep, PTL DEF Spec

-----------------------------------------------------------------------------
(* Nothing without payment.

   A handler serves an order that it once saw paid.  The order may be refunded
   or deleted while the handler waits, but it never is unpaid again: After says
   so of the orders, and ServingInv of the handlers under way. *)

Serving == {"locating", "consulting", "logging", "handing"}

Settled(t) == status[t] \notin {"new", "pending"}

ServingInv ==
  \A r \in Requests :
    pc[r] \in Serving => job[r].token \in Tokens /\ Settled(job[r].token)

PaidInv == TypeOK /\ NoFileUnpaid /\ ServingInv

(* Once settled, an order stays so. *)
LEMMA SettledStays ==
  ASSUME TypeOK, [Next]_vars, NEW t \in Tokens, Settled(t)
  PROVE  Settled(t)'
<1>1. CASE OrdersMove
  BY <1>1 DEF TypeOK, OrdersMove, After, Settled, PaidOn, Statuses
<1>2. CASE UNCHANGED status
  BY <1>2 DEF Settled
<1>3. Handlers => UNCHANGED status
  <2>1. ASSUME NEW r \in Requests, Keep(r) \/ Fail(r) PROVE UNCHANGED status
    BY <2>1 DEF Keep, ReadFile, Save, Delete, Drop, Unlink, StoreRefused, Store, Publish, Fail,
                orderVars
  <2>2. ASSUME NEW r \in Requests, NEW x \in Tokens, NEW p \in Products, Download(r, x, p)
        PROVE  UNCHANGED status
    BY <2>2 DEF Download, ReadOrder, ReadLog, WriteLog, HandOver, orderVars
  <2> QED
    BY <2>1, <2>2 DEF Handlers
<1>4. ASSUME NEW x \in Tokens, Expire(x) PROVE UNCHANGED status
  BY <1>4 DEF Expire
<1> QED
  BY <1>1, <1>2, <1>3, <1>4 DEF Next, Environment, vars, orderVars

(* The handlers that serve after a step served the same order before it, or have
   just found it paid. *)
LEMMA WhoServes ==
  ASSUME TypeOK, [Next]_vars, NEW q \in Requests, pc'[q] \in Serving
  PROVE  \/ pc[q] \in Serving /\ job'[q].token = job[q].token
         \/ job'[q].token \in Tokens /\ Settled(job'[q].token)
<1> USE DEF Serving
<1>1. ASSUME NEW r \in Requests, NEW t \in Tokens, NEW p \in Products,
             ReadOrder(r, t, p)
      PROVE  \/ pc[q] \in Serving /\ job'[q].token = job[q].token
             \/ job'[q].token \in Tokens /\ Settled(job'[q].token)
  BY <1>1 DEF ReadOrder, Admissible, Leave, Enter, Job, TypeOK, Settled
<1>2. ASSUME NEW r \in Requests, NEW p \in Products, ReadFile(r, p)
      PROVE  pc[q] \in Serving /\ job'[q].token = job[q].token
  BY <1>2 DEF ReadFile, Leave, Enter, Job, TypeOK
<1>3. ASSUME NEW r \in Requests, NEW t \in Tokens, NEW p \in Products,
             ReadLog(r, t, p) \/ WriteLog(r, t, p) \/ HandOver(r, t, p)
      PROVE  pc[q] \in Serving /\ job'[q].token = job[q].token
  BY <1>3 DEF ReadLog, WriteLog, HandOver, Leave, Enter, Step, TypeOK
<1>4. ASSUME NEW r \in Requests,
             \/ Drop(r) \/ StoreRefused(r) \/ Fail(r)
             \/ \E p \in Products : \/ Delete(r, p) \/ Unlink(r, p) \/ Publish(r, p)
                                    \/ \E valid \in BOOLEAN : Save(r, p, valid)
             \/ \E k \in Keys : Store(r, k)
      PROVE  pc[q] \in Serving /\ job'[q].token = job[q].token
  BY <1>4 DEF Drop, StoreRefused, Fail, Delete, Unlink, Publish, Save, Store,
              Leave, Enter, Step, TypeOK
<1>5. ASSUME UNCHANGED <<pc, job>>
      PROVE  pc[q] \in Serving /\ job'[q].token = job[q].token
  BY <1>5
<1> QED
  BY <1>1, <1>2, <1>3, <1>4, <1>5
     DEF Next, Handlers, Keep, Download, Environment, OrdersMove, Expire, vars

(* Every step keeps PaidInv. *)
LEMMA PaidStep == PaidInv /\ [Next]_vars => PaidInv'
<1> SUFFICES ASSUME PaidInv, [Next]_vars PROVE PaidInv'
  OBVIOUS
<1>0. TypeOK /\ TypeOK'
  BY TypeStep DEF PaidInv
<1>1. ServingInv'
  <2> SUFFICES ASSUME NEW q \in Requests, pc'[q] \in Serving
               PROVE  /\ job'[q].token \in Tokens
                      /\ status'[job'[q].token] \notin {"new", "pending"}
    BY DEF ServingInv, Settled
  <2>1. job'[q].token \in Tokens /\ Settled(job'[q].token)
    BY <1>0, WhoServes DEF PaidInv, ServingInv
  <2>2. \A t \in Tokens : Settled(t) => status'[t] \notin {"new", "pending"}
    BY <1>0, SettledStays DEF Settled
  <2> QED
    BY <2>1, <2>2
<1>2. ASSUME NEW t \in Tokens, NEW p \in Products, logs'[<<t, p>>] > 0
      PROVE  Settled(t)
  <2>1. CASE logs'[<<t, p>>] = logs[<<t, p>>]
    BY <1>2, <2>1 DEF PaidInv, NoFileUnpaid, Settled
  <2>2. ASSUME NEW r \in Requests, NEW u \in Tokens, NEW q \in Products,
               WriteLog(r, u, q), <<t, p>> = <<u, q>>
        PROVE  Settled(t)
    BY <2>2 DEF WriteLog, PaidInv, ServingInv, Serving
  <2>3. ASSUME NEW r \in Requests, NEW u \in Tokens, NEW q \in Products,
               WriteLog(r, u, q), <<t, p>> # <<u, q>>
        PROVE  logs'[<<t, p>>] = logs[<<t, p>>]
    BY <1>0, <2>3 DEF WriteLog, TypeOK
  <2>4. \/ UNCHANGED logs
        \/ \E r \in Requests, u \in Tokens, q \in Products : WriteLog(r, u, q)
    BY DEF Next, Handlers, Keep, Download, ReadOrder, ReadFile, ReadLog, HandOver, Save,
           Delete, Drop, Unlink, StoreRefused, Store, Publish, Fail, Environment,
           OrdersMove, Expire, logVars, vars
  <2> QED
    BY <2>1, <2>2, <2>3, <2>4
<1>3. NoFileUnpaid'
  BY <1>0, <1>2, SettledStays DEF NoFileUnpaid, Settled
<1> QED
  BY <1>0, <1>1, <1>3 DEF PaidInv

(* No order yields a file before it is paid, however long its handler waits
   between the check of the order and the log. *)
THEOREM NoFileIsUnpaid == Spec => []NoFileUnpaid
<1>1. Init => PaidInv
  <2> SUFFICES ASSUME Init PROVE PaidInv
    OBVIOUS
  <2>1. TypeOK
    BY InitType
  <2>2. NoFileUnpaid /\ ServingInv
    BY DEF Init, NoFileUnpaid, ServingInv, Serving
  <2> QED
    BY <2>1, <2>2 DEF PaidInv
<1>2. PaidInv => NoFileUnpaid
  BY DEF PaidInv
<1> QED
  BY <1>1, <1>2, PaidStep, PTL DEF Spec

-----------------------------------------------------------------------------
(* One shelf.

   ShelfInv says that rows name different objects, and that an object which is
   stored and not yet published is named by no row and by no other handler.
   Deleting an object thus empties one place at most, and publishing one fills
   a place that was empty with a file nobody else offers. *)

RowsDiffer ==
  \A p, q \in Products : row[p] # None /\ row[p] = row[q] => p = q

Unpublished(r) ==
  pc[r] = "publishing" =>
    /\ job[r].key \in Keys
    /\ \A p \in Products : row[p] # job[r].key
    /\ \A q \in Requests \ {r} : pc[q] = "publishing" => job[q].key # job[r].key

ShelfInv ==
  /\ TypeOK
  /\ RowsDiffer
  /\ \A r \in Requests : Unpublished(r)

OnShelf(p) == IF row[p] \in objects THEN row[p] ELSE None

(* The handlers about to publish after a step were so before it. *)
NoneStored ==
  \A q \in Requests :
    pc'[q] = "publishing" => pc[q] = "publishing" /\ job'[q] = job[q]

(* A step that stores no object and at most clears rows keeps the invariant. *)
LEMMA RowsCleared ==
  ASSUME ShelfInv, TypeOK', NoneStored,
         \A p \in Products : row'[p] \in {row[p], None}
  PROVE  ShelfInv'
<1>1. RowsDiffer'
  BY DEF ShelfInv, RowsDiffer
<1>2. ASSUME NEW r \in Requests PROVE Unpublished(r)'
  BY NoneAssumption DEF ShelfInv, Unpublished, NoneStored
<1> QED
  BY <1>1, <1>2 DEF ShelfInv

(* A step that leaves rows and objects alone. *)
LEMMA FilesKept ==
  ASSUME ShelfInv, TypeOK', NoneStored, UNCHANGED fileVars
  PROVE  ShelfInv' /\ [Shelf!Next]_[p \in Products |-> OnShelf(p)]
  BY RowsCleared DEF fileVars, OnShelf

(* Every step keeps the invariant and is a step of FileShelf, or leaves the
   shelf alone. *)
LEMMA ShelfStep ==
  ShelfInv /\ [Next]_vars =>
    ShelfInv' /\ [Shelf!Next]_[p \in Products |-> OnShelf(p)]
<1> SUFFICES ASSUME ShelfInv, [Next]_vars
             PROVE  ShelfInv' /\ [Shelf!Next]_[p \in Products |-> OnShelf(p)]
  OBVIOUS
<1>0. TypeOK /\ TypeOK'
  BY TypeStep DEF ShelfInv
<1>1. ASSUME NEW r \in Requests, Drop(r)
      PROVE  ShelfInv' /\ [Shelf!Next]_[p \in Products |-> OnShelf(p)]
  <2>1. NoneStored /\ UNCHANGED row
    BY <1>0, <1>1 DEF Drop, Step, NoneStored, TypeOK
  <2>2. ShelfInv'
    BY <1>0, <2>1, RowsCleared
  <2>3. CASE \E p \in Products : row[p] = job[r].key /\ OnShelf(p) # OnShelf(p)'
    <3>1. PICK p \in Products : row[p] = job[r].key /\ OnShelf(p) # OnShelf(p)'
      BY <2>3
    <3>2. OnShelf(p) = row[p] /\ OnShelf(p)' = None /\ row[p] # None
      BY <1>0, <1>1, <3>1, <2>1, NoneAssumption DEF OnShelf, Drop, TypeOK
    <3>3. ASSUME NEW q \in Products, q # p PROVE OnShelf(q)' = OnShelf(q)
      <4>1. row[q] # job[r].key
        BY <3>1, <3>2, <3>3 DEF ShelfInv, RowsDiffer
      <4> QED
        BY <1>1, <2>1, <4>1 DEF OnShelf, Drop
    <3>4. Shelf!Remove(p)
      BY <3>2, <3>3 DEF Shelf!Remove, OnShelf
    <3> QED
      BY <2>2, <3>4 DEF Shelf!Next
  <2>4. CASE \A p \in Products : row[p] = job[r].key => OnShelf(p) = OnShelf(p)'
    <3>1. \A p \in Products : OnShelf(p)' = OnShelf(p)
      BY <1>1, <2>1, <2>4 DEF OnShelf, Drop
    <3> QED
      BY <2>2, <3>1 DEF OnShelf
  <2> QED
    BY <2>3, <2>4
<1>2. ASSUME NEW r \in Requests, NEW p \in Products, Unlink(r, p)
      PROVE  ShelfInv' /\ [Shelf!Next]_[x \in Products |-> OnShelf(x)]
  <2>1. NoneStored
    BY <1>0, <1>2 DEF Unlink, Enter, Leave, NoneStored, TypeOK
  <2>2. CASE row[p] # job[r].key
    BY <1>0, <1>2, <2>1, <2>2, FilesKept DEF Unlink, fileVars
  <2>3. CASE row[p] = job[r].key
    <3>1. row' = [row EXCEPT ![p] = None] /\ objects' = objects
      BY <1>2, <2>3 DEF Unlink
    <3>2. ShelfInv'
      BY <1>0, <2>1, <3>1, RowsCleared DEF TypeOK
    <3>3. OnShelf(p)' = None /\ \A q \in Products \ {p} : OnShelf(q)' = OnShelf(q)
      BY <1>0, <3>1, NoneAssumption DEF OnShelf, TypeOK
    <3>4. CASE OnShelf(p) = None
      BY <3>2, <3>3, <3>4 DEF OnShelf
    <3>5. CASE OnShelf(p) # None
      <4>1. Shelf!Remove(p)
        BY <3>3, <3>5 DEF Shelf!Remove, OnShelf
      <4> QED
        BY <3>2, <4>1 DEF Shelf!Next
    <3> QED
      BY <3>4, <3>5
  <2> QED
    BY <2>2, <2>3
<1>3. ASSUME NEW r \in Requests, NEW k \in Keys, Store(r, k)
      PROVE  ShelfInv' /\ [Shelf!Next]_[p \in Products |-> OnShelf(p)]
  <2>1. /\ row' = row /\ objects' = objects \cup {k} /\ Unused(k)
        /\ pc'[r] = "publishing" /\ job'[r].key = k
        /\ \A q \in Requests \ {r} : pc'[q] = pc[q] /\ job'[q] = job[q]
    BY <1>0, <1>3 DEF Store, Enter, Job, TypeOK
  <2>2. ASSUME NEW q \in Requests PROVE Unpublished(q)'
    BY <2>1 DEF ShelfInv, Unpublished, Unused
  <2>3. \A p \in Products : OnShelf(p)' = OnShelf(p)
    BY <2>1 DEF OnShelf, Unused
  <2>4. RowsDiffer'
    BY <2>1 DEF ShelfInv, RowsDiffer
  <2> QED
    BY <1>0, <2>2, <2>3, <2>4 DEF ShelfInv, OnShelf
<1>4. ASSUME NEW r \in Requests, NEW p \in Products, Publish(r, p)
      PROVE  ShelfInv' /\ [Shelf!Next]_[x \in Products |-> OnShelf(x)]
  <2>1. /\ pc'[r] # "publishing" /\ objects' = objects
        /\ \A q \in Requests \ {r} : pc'[q] = pc[q] /\ job'[q] = job[q]
    BY <1>0, <1>4 DEF Publish, Leave, Enter, TypeOK
  <2>2. CASE row[p] # None
    <3>1. NoneStored /\ row' = row
      BY <1>4, <2>1, <2>2 DEF Publish, NoneStored
    <3> QED
      BY <1>0, <2>1, <3>1, FilesKept DEF fileVars
  <2>3. CASE row[p] = None
    <3>1. PICK k \in Keys : k = job[r].key
      BY <1>4 DEF Publish, ShelfInv, Unpublished
    <3>2. /\ \A q \in Products : row[q] # k
          /\ \A q \in Requests \ {r} : pc[q] = "publishing" => job[q].key # k
      BY <1>4, <3>1 DEF Publish, ShelfInv, Unpublished
    <3>3. row'[p] = k /\ \A q \in Products \ {p} : row'[q] = row[q]
      BY <1>0, <1>4, <2>3, <3>1 DEF Publish, TypeOK
    <3>4. RowsDiffer'
      BY <3>2, <3>3 DEF ShelfInv, RowsDiffer
    <3>5. ASSUME NEW q \in Requests PROVE Unpublished(q)'
      <4>1. CASE q = r
        BY <2>1, <4>1 DEF Unpublished
      <4>2. CASE q # r
        BY <2>1, <3>2, <3>3, <4>2 DEF ShelfInv, Unpublished
      <4> QED
        BY <4>1, <4>2
    <3>6. ShelfInv'
      BY <1>0, <3>4, <3>5 DEF ShelfInv
    <3>7. /\ OnShelf(p) = None
          /\ \A q \in Products : OnShelf(q) # k
          /\ \A q \in Products \ {p} : OnShelf(q)' = OnShelf(q)
      BY <2>1, <2>3, <3>2, <3>3, NoneAssumption DEF OnShelf
    <3>8. CASE k \in objects
      <4>1. OnShelf(p)' = k
        BY <2>1, <3>3, <3>8 DEF OnShelf
      <4>2. Shelf!Put(p, k)
        BY <3>7, <4>1 DEF Shelf!Put, OnShelf
      <4>3. Shelf!Next
        BY <4>2 DEF Shelf!Next
      <4> QED
        BY <3>6, <4>3
    <3>9. CASE k \notin objects
      <4>1. OnShelf(p)' = None
        BY <2>1, <3>3, <3>9 DEF OnShelf
      <4> QED
        BY <3>6, <3>7, <4>1 DEF OnShelf
    <3> QED
      BY <3>8, <3>9
  <2> QED
    BY <2>2, <2>3
<1>5. ASSUME NEW r \in Requests,
             \/ StoreRefused(r) \/ Fail(r)
             \/ \E p \in Products : \/ ReadFile(r, p) \/ Delete(r, p)
                                    \/ \E valid \in BOOLEAN : Save(r, p, valid)
                                    \/ \E t \in Tokens : Download(r, t, p)
      PROVE  ShelfInv' /\ [Shelf!Next]_[x \in Products |-> OnShelf(x)]
  <2>1. NoneStored
    BY <1>0, <1>5
       DEF StoreRefused, Fail, ReadFile, Delete, Save, Download, ReadOrder, ReadLog,
           WriteLog, HandOver, Leave, Enter, Step, NoneStored, TypeOK
  <2>2. UNCHANGED fileVars
    BY <1>5 DEF StoreRefused, Fail, ReadFile, Delete, Save, Download, ReadOrder, ReadLog,
                WriteLog, HandOver
  <2> QED
    BY <1>0, <2>1, <2>2, FilesKept
<1>6. CASE Environment \/ UNCHANGED vars
  <2>1. NoneStored /\ UNCHANGED fileVars
    BY <1>6 DEF Environment, OrdersMove, Expire, vars, NoneStored
  <2> QED
    BY <1>0, <2>1, FilesKept
<1> QED
  BY <1>1, <1>2, <1>3, <1>4, <1>5, <1>6 DEF Next, Handlers, Keep

LEMMA InitShelf == Init => ShelfInv
<1>1. Init => RowsDiffer /\ \A r \in Requests : Unpublished(r)
  BY DEF Init, RowsDiffer, Unpublished
<1> QED
  BY <1>1, InitType DEF ShelfInv

(* Rows and objects together behave as one shelf. *)
THEOREM FilesFormOneShelf == Spec => OneShelf
<1>1. Init => Shelf!Init
  BY DEF Init, Shelf!Init
<1> QED
  BY <1>1, InitShelf, ShelfStep, PTL DEF Spec, OneShelf, Shelf!Spec, OnShelf

-----------------------------------------------------------------------------
(* Rows with their objects.

   A published object can be dropped only by a handler that read its row, and an
   object about to be published by nobody, since no handler in flight has its
   name.  BackedInv adds this to ShelfInv. *)

Clearing == {"dropping", "unlinking"}

Owned(r) ==
  pc[r] \in Clearing =>
    /\ job[r].key \in Keys
    /\ \A p \in Products : row[p] = job[r].key => p = job[r].product

Stored(r) ==
  pc[r] = "publishing" =>
    /\ job[r].key \in objects
    /\ \A q \in Requests : pc[q] \in Clearing => job[q].key # job[r].key

BackedInv == ShelfInv /\ \A r \in Requests : Owned(r) /\ Stored(r)

(* What RowsAreBacked says of one step. *)
LosesToUnlink ==
  \A p \in Backed \ Backed' :
    \E r \in Requests :
      pc'[r] = "unlinking" /\ job'[r].product = p /\ job'[r].key = row'[p]

(* The handlers that clear a row after a step did so before it. *)
NoneClears ==
  \A q \in Requests :
    pc'[q] \in Clearing => pc[q] \in Clearing /\ job'[q] = job[q]

(* A step after which nobody new clears or publishes, no row is new and no
   object is gone. *)
LEMMA FilesStay ==
  ASSUME BackedInv, NoneStored, NoneClears, objects \subseteq objects',
         \A p \in Products : row'[p] \in {row[p], None}
  PROVE  LosesToUnlink /\ \A r \in Requests : Owned(r)' /\ Stored(r)'
<1>1. LosesToUnlink
  BY DEF LosesToUnlink, Backed
<1>2. ASSUME NEW r \in Requests PROVE Owned(r)'
  BY NoneAssumption DEF BackedInv, Owned, NoneClears
<1>3. ASSUME NEW r \in Requests PROVE Stored(r)'
  BY DEF BackedInv, Stored, NoneClears, NoneStored
<1> QED
  BY <1>1, <1>2, <1>3

(* A handler reads the row that it is going to clear. *)
LEMMA ClearingStarts ==
  ASSUME BackedInv, TypeOK, NEW r \in Requests, NEW p \in Products,
         NEW replace \in BOOLEAN, row[p] # None, UNCHANGED fileVars,
         Enter(r, "dropping", Job(None, p, row[p], replace))
  PROVE  LosesToUnlink /\ \A q \in Requests : Owned(q)' /\ Stored(q)'
<1>1. /\ pc'[r] = "dropping" /\ job'[r].key = row[p] /\ job'[r].product = p
      /\ \A q \in Requests \ {r} : pc'[q] = pc[q] /\ job'[q] = job[q]
  BY DEF Enter, Job, TypeOK
<1>2. LosesToUnlink
  BY DEF LosesToUnlink, Backed, fileVars
<1>3. row[p] \in Keys /\ \A q \in Products : row[q] = row[p] => q = p
  BY DEF TypeOK, BackedInv, ShelfInv, RowsDiffer
<1>4. ASSUME NEW q \in Requests PROVE Owned(q)'
  BY <1>1, <1>3 DEF BackedInv, Owned, fileVars
<1>5. ASSUME NEW q \in Requests PROVE Stored(q)'
  <2>1. pc'[q] = "publishing" => q # r /\ row[p] # job[q].key
    BY <1>1 DEF BackedInv, ShelfInv, Unpublished
  <2> QED
    BY <1>1, <2>1 DEF BackedInv, Stored, fileVars
<1> QED
  BY <1>2, <1>4, <1>5

LEMMA BackedStep == BackedInv /\ [Next]_vars => BackedInv' /\ LosesToUnlink
<1> SUFFICES ASSUME BackedInv, [Next]_vars PROVE BackedInv' /\ LosesToUnlink
  OBVIOUS
<1>0. TypeOK /\ TypeOK' /\ ShelfInv'
  BY TypeStep, ShelfStep DEF BackedInv, ShelfInv
<1>q. ASSUME LosesToUnlink /\ \A r \in Requests : Owned(r)' /\ Stored(r)'
      PROVE  BackedInv' /\ LosesToUnlink
  BY <1>0, <1>q DEF BackedInv
<1>1. ASSUME NEW r \in Requests, Drop(r)
      PROVE  BackedInv' /\ LosesToUnlink
  <2>1. /\ row' = row /\ objects \ {job[r].key} \subseteq objects' /\ job' = job
        /\ pc'[r] = "unlinking" /\ pc[r] = "dropping"
        /\ \A q \in Requests \ {r} : pc'[q] = pc[q]
    BY <1>0, <1>1 DEF Drop, Step, TypeOK
  <2>2. ASSUME NEW p \in Backed \ Backed'
        PROVE  job[r].product = p /\ job[r].key = row[p]
    <3>1. row[p] = job[r].key
      BY <2>1, <2>2 DEF Backed
    <3> QED
      BY <2>1, <2>2, <3>1 DEF BackedInv, Owned, Clearing, Backed
  <2>3. LosesToUnlink
    BY <2>1, <2>2 DEF LosesToUnlink
  <2>4. ASSUME NEW q \in Requests PROVE Owned(q)' /\ Stored(q)'
    BY <2>1 DEF BackedInv, Owned, Stored, Clearing
  <2> QED
    BY <1>q, <2>3, <2>4
<1>2. ASSUME NEW r \in Requests, NEW p \in Products, Unlink(r, p)
      PROVE  BackedInv' /\ LosesToUnlink
  <2>1. NoneStored /\ NoneClears
    BY <1>0, <1>2 DEF Unlink, Enter, Leave, NoneStored, NoneClears, Clearing, TypeOK
  <2>2. objects' = objects /\ \A q \in Products : row'[q] \in {row[q], None}
    BY <1>0, <1>2 DEF Unlink, TypeOK
  <2> QED
    BY <1>q, <2>1, <2>2, FilesStay
<1>3. ASSUME NEW r \in Requests, NEW k \in Keys, Store(r, k)
      PROVE  BackedInv' /\ LosesToUnlink
  <2>1. /\ row' = row /\ objects' = objects \cup {k} /\ Unused(k)
        /\ pc'[r] = "publishing" /\ job'[r].key = k
        /\ \A q \in Requests \ {r} : pc'[q] = pc[q] /\ job'[q] = job[q]
    BY <1>0, <1>3 DEF Store, Enter, Job, TypeOK
  <2>2. LosesToUnlink
    BY <2>1 DEF LosesToUnlink, Backed
  <2>3. ASSUME NEW q \in Requests PROVE Owned(q)' /\ Stored(q)'
    BY <2>1 DEF BackedInv, Owned, Stored, Clearing, Unused
  <2> QED
    BY <1>q, <2>2, <2>3
<1>4. ASSUME NEW r \in Requests, NEW p \in Products, Publish(r, p)
      PROVE  BackedInv' /\ LosesToUnlink
  <2>1. NoneStored /\ NoneClears
    BY <1>0, <1>4 DEF Publish, Leave, Enter, NoneStored, NoneClears, Clearing, TypeOK
  <2>2. CASE row[p] # None
    BY <1>q, <1>4, <2>1, <2>2, FilesStay DEF Publish
  <2>3. CASE row[p] = None
    <3>1. /\ pc[r] = "publishing" /\ objects' = objects
          /\ row'[p] = job[r].key /\ \A q \in Products \ {p} : row'[q] = row[q]
      BY <1>0, <1>4, <2>3 DEF Publish, TypeOK
    <3>2. /\ job[r].key \in objects
          /\ \A q \in Requests : pc[q] \in Clearing => job[q].key # job[r].key
      BY <3>1 DEF BackedInv, Stored
    <3>3. LosesToUnlink
      BY <3>1, <3>2 DEF LosesToUnlink, Backed
    <3>4. ASSUME NEW q \in Requests PROVE Owned(q)'
      BY <2>1, <3>1, <3>2 DEF BackedInv, Owned, NoneClears
    <3>5. ASSUME NEW q \in Requests PROVE Stored(q)'
      BY <2>1, <3>1 DEF BackedInv, Stored, NoneStored, NoneClears
    <3> QED
      BY <1>q, <3>3, <3>4, <3>5
  <2> QED
    BY <2>2, <2>3
<1>5. ASSUME NEW r \in Requests, NEW p \in Products, NEW valid \in BOOLEAN,
             Save(r, p, valid) \/ Delete(r, p)
      PROVE  BackedInv' /\ LosesToUnlink
  <2>1. UNCHANGED fileVars
    BY <1>5 DEF Save, Delete
  <2>2. ASSUME NEW replace \in BOOLEAN, row[p] # None,
               Enter(r, "dropping", Job(None, p, row[p], replace))
        PROVE  BackedInv' /\ LosesToUnlink
    BY <1>0, <1>q, <2>1, <2>2, ClearingStarts
  <2>3. ASSUME \/ Leave(r, "refused")
               \/ Enter(r, "storing", Job(None, p, None, TRUE))
        PROVE  BackedInv' /\ LosesToUnlink
    <3>1. NoneStored /\ NoneClears
      BY <1>0, <2>3 DEF Leave, Enter, NoneStored, NoneClears, Clearing, TypeOK
    <3> QED
      BY <1>q, <2>1, <3>1, FilesStay DEF fileVars
  <2> QED
    BY <1>5, <2>2, <2>3 DEF Save, Delete
<1>6. ASSUME NEW r \in Requests,
             \/ StoreRefused(r) \/ Fail(r)
             \/ \E p \in Products : \/ ReadFile(r, p)
                                    \/ \E t \in Tokens : Download(r, t, p)
      PROVE  BackedInv' /\ LosesToUnlink
  <2>1. NoneStored /\ NoneClears
    BY <1>0, <1>6
       DEF StoreRefused, Fail, ReadFile, Download, ReadOrder, ReadLog, WriteLog, HandOver,
           Leave, Enter, Step, NoneStored, NoneClears, Clearing, TypeOK
  <2>2. UNCHANGED fileVars
    BY <1>6 DEF StoreRefused, Fail, ReadFile, Download, ReadOrder, ReadLog, WriteLog,
                HandOver
  <2> QED
    BY <1>q, <2>1, <2>2, FilesStay DEF fileVars
<1>7. CASE Environment \/ UNCHANGED vars
  <2>1. NoneStored /\ NoneClears /\ UNCHANGED fileVars
    BY <1>7 DEF Environment, OrdersMove, Expire, vars, NoneStored, NoneClears
  <2> QED
    BY <1>q, <2>1, FilesStay DEF fileVars
<1> QED
  BY <1>1, <1>2, <1>3, <1>4, <1>5, <1>6, <1>7 DEF Next, Handlers, Keep

(* RowsAreBacked: however uploads, deletions, refusals and failures interleave, a
   row is published with its object, and loses it only to a handler that is then
   about to delete the row. *)
THEOREM RowsHaveObjects == Spec => RowsAreBacked
<1>1. Init => BackedInv
  <2> SUFFICES ASSUME Init PROVE BackedInv
    OBVIOUS
  <2>1. \A r \in Requests : Owned(r) /\ Stored(r)
    BY DEF Init, Owned, Stored, Clearing
  <2> QED
    BY <2>1, InitShelf DEF BackedInv
<1>2. Spec => [][LosesToUnlink]_vars
  <2>1. BackedInv /\ [Next]_vars => BackedInv' /\ [LosesToUnlink]_vars
    BY BackedStep
  <2> QED
    BY <1>1, <2>1, PTL DEF Spec
<1> QED
  BY <1>2 DEF LosesToUnlink, RowsAreBacked

-----------------------------------------------------------------------------
(* Counting, for finitely many requests: however many of them overlap, how often
   a product of an order is logged and handed over. *)

(* The handlers at a place, on behalf of token t and product p. *)
At(place, t, p) ==
  {r \in Requests : pc[r] = place /\ job[r].token = t /\ job[r].product = p}

(* A handler about to log has its place among the requests, beside those that
   made the logs so far; one about to hand over has a log of its own. *)
Counts(t, p) ==
  /\ copies[<<t, p>>] + Cardinality(At("handing", t, p)) <= logs[<<t, p>>]
  /\ logs[<<t, p>>] + Cardinality(At("logging", t, p)) <= Cardinality(Requests)

TallyInv == TypeOK /\ \A t \in Tokens, p \in Products : Counts(t, p)

(* They are finitely many. *)
LEMMA AtFinite ==
  ASSUME IsFiniteSet(Requests), NEW place, NEW t, NEW p
  PROVE  /\ IsFiniteSet(At(place, t, p))
         /\ Cardinality(At(place, t, p)) \in Nat
         /\ Cardinality(At(place, t, p)) <= Cardinality(Requests)
         /\ Cardinality(Requests) \in Nat
<1>1. At(place, t, p) \in SUBSET Requests
  BY DEF At
<1>2. IsFiniteSet(At(place, t, p)) /\ Cardinality(At(place, t, p)) <= Cardinality(Requests)
  BY <1>1, FS_Subset
<1> QED
  BY <1>2, FS_CardinalityType

(* Fewer handlers at a place make a smaller count. *)
LEMMA FewerAt ==
  ASSUME IsFiniteSet(Requests), NEW place, NEW t, NEW p,
         At(place, t, p)' \subseteq At(place, t, p)
  PROVE  /\ Cardinality(At(place, t, p)') \in Nat
         /\ Cardinality(At(place, t, p)') <= Cardinality(At(place, t, p))
<1>1. IsFiniteSet(At(place, t, p))
  BY AtFinite
<1>2. At(place, t, p)' \in SUBSET At(place, t, p)
  OBVIOUS
<1>3. /\ IsFiniteSet(At(place, t, p)')
      /\ Cardinality(At(place, t, p)') <= Cardinality(At(place, t, p))
  BY <1>1, <1>2, FS_Subset
<1> QED
  BY <1>3, FS_CardinalityType

(* A step that writes neither table and brings nobody to either place. *)
NobodyArrives(t, p) ==
  /\ logs'[<<t, p>>] = logs[<<t, p>>]
  /\ copies'[<<t, p>>] = copies[<<t, p>>]
  /\ At("logging", t, p)' \subseteq At("logging", t, p)
  /\ At("handing", t, p)' \subseteq At("handing", t, p)

LEMMA QuietCounts ==
  ASSUME IsFiniteSet(Requests), TallyInv, NEW t \in Tokens, NEW p \in Products,
         NobodyArrives(t, p)
  PROVE  Counts(t, p)'
<1> DEFINE lg == Cardinality(At("logging", t, p))
           hd == Cardinality(At("handing", t, p))
           n  == Cardinality(Requests)
<1>1. lg \in Nat /\ hd \in Nat /\ n \in Nat
  BY AtFinite
<1>2. lg' \in Nat /\ hd' \in Nat /\ lg' <= lg /\ hd' <= hd
  BY FewerAt DEF NobodyArrives
<1>3. logs[<<t, p>>] \in Nat /\ copies[<<t, p>>] \in Nat
  BY DEF TallyInv, TypeOK
<1>4. copies[<<t, p>>] + hd <= logs[<<t, p>>] /\ logs[<<t, p>>] + lg <= n
  BY DEF TallyInv, Counts
<1>5. logs'[<<t, p>>] = logs[<<t, p>>] /\ copies'[<<t, p>>] = copies[<<t, p>>]
  BY DEF NobodyArrives
<1> HIDE DEF lg, hd, n
<1>6. copies'[<<t, p>>] + hd' <= logs'[<<t, p>>] /\ logs'[<<t, p>>] + lg' <= n
  BY <1>1, <1>2, <1>3, <1>4, <1>5
<1> QED
  BY <1>6 DEF Counts, lg, hd, n

(* Whoever passes the check of the log found it empty, so the handlers about to
   log are the only ones to count. *)
LEMMA PassCounts ==
  ASSUME IsFiniteSet(Requests), TallyInv, NEW r \in Requests, NEW u \in Tokens,
         NEW q \in Products, ReadLog(r, u, q), NEW t \in Tokens, NEW p \in Products
  PROVE  Counts(t, p)'
<1> USE DEF TallyInv
<1>0. logs' = logs /\ copies' = copies
  BY DEF ReadLog, logVars
<1>1. At("handing", t, p)' \subseteq At("handing", t, p)
  BY DEF ReadLog, Leave, Enter, Step, At, TypeOK
<1>2. CASE At("logging", t, p)' \subseteq At("logging", t, p)
  BY <1>0, <1>1, <1>2, QuietCounts DEF NobodyArrives
<1>3. CASE ~(At("logging", t, p)' \subseteq At("logging", t, p))
  <2> DEFINE lg == Cardinality(At("logging", t, p)')
             hd == Cardinality(At("handing", t, p))
             n  == Cardinality(Requests)
  <2>1. u = t /\ q = p /\ ~Spent(t, p)
    BY <1>3 DEF ReadLog, Leave, Enter, Step, At, TypeOK, Job, NoJob
  <2>2. logs[<<t, p>>] = 0
    BY <2>1 DEF Spent, TypeOK
  <2>3. At("logging", t, p)' \in SUBSET Requests
    BY DEF At
  <2>4. IsFiniteSet(At("logging", t, p)') /\ lg <= n
    BY <2>3, FS_Subset
  <2>5. lg \in Nat /\ n \in Nat /\ hd \in Nat
    BY <2>4, FS_CardinalityType, AtFinite
  <2>6. Cardinality(At("handing", t, p)') \in Nat /\ Cardinality(At("handing", t, p)') <= hd
    BY <1>1, FewerAt
  <2>7. /\ copies[<<t, p>>] \in Nat /\ logs[<<t, p>>] \in Nat
        /\ copies[<<t, p>>] + hd <= logs[<<t, p>>]
    BY DEF Counts, TypeOK
  <2> HIDE DEF lg, hd, n
  <2>8. logs'[<<t, p>>] + lg <= n
    BY <1>0, <2>2, <2>4, <2>5
  <2>9. copies'[<<t, p>>] + Cardinality(At("handing", t, p)') <= logs'[<<t, p>>]
    BY <1>0, <2>5, <2>6, <2>7
  <2> QED
    BY <2>8, <2>9 DEF Counts, lg, n
<1> QED
  BY <1>2, <1>3

(* A log takes one handler from the first place to the second. *)
LEMMA LogCounts ==
  ASSUME IsFiniteSet(Requests), TallyInv, NEW r \in Requests, NEW u \in Tokens,
         NEW q \in Products, WriteLog(r, u, q), NEW t \in Tokens, NEW p \in Products
  PROVE  Counts(t, p)'
<1> USE DEF TallyInv
<1>0. copies' = copies /\ job' = job /\ pc' = [pc EXCEPT ![r] = "handing"]
  BY DEF WriteLog, Step
<1>1. CASE <<t, p>> # <<u, q>>
  <2>1. logs'[<<t, p>>] = logs[<<t, p>>]
    BY <1>1 DEF WriteLog, TypeOK
  <2>2. /\ At("logging", t, p)' \subseteq At("logging", t, p)
        /\ At("handing", t, p)' \subseteq At("handing", t, p)
    BY <1>0, <1>1 DEF WriteLog, At, TypeOK
  <2> QED
    BY <1>0, <2>1, <2>2, QuietCounts DEF NobodyArrives
<1>2. CASE <<t, p>> = <<u, q>>
  <2> DEFINE L == At("logging", t, p)
             H == At("handing", t, p)
             n == Cardinality(Requests)
  <2>1. r \in L /\ r \notin H
    BY <1>2 DEF WriteLog, At
  <2>2. L' = L \ {r}
    BY <1>0 DEF At, TypeOK
  <2>3. H' = H \cup {r}
    BY <1>0, <1>2 DEF WriteLog, At, TypeOK
  <2>4. IsFiniteSet(L) /\ IsFiniteSet(H) /\ Cardinality(L) \in Nat
        /\ Cardinality(H) \in Nat /\ n \in Nat
    BY AtFinite
  <2>5. logs'[<<t, p>>] = logs[<<t, p>>] + 1
    BY <1>2 DEF WriteLog, TypeOK
  <2>6. logs[<<t, p>>] \in Nat /\ copies[<<t, p>>] \in Nat
    BY DEF TypeOK
  <2>7. copies[<<t, p>>] + Cardinality(H) <= logs[<<t, p>>]
        /\ logs[<<t, p>>] + Cardinality(L) <= n
    BY DEF Counts
  <2> HIDE DEF L, H, n
  <2>8. Cardinality(L \ {r}) = Cardinality(L) - 1
    BY <2>1, <2>4, FS_RemoveElement
  <2>9. Cardinality(H \cup {r}) = Cardinality(H) + 1
    BY <2>1, <2>4, FS_AddElement
  <2>10. copies'[<<t, p>>] + Cardinality(H') <= logs'[<<t, p>>]
         /\ logs'[<<t, p>>] + Cardinality(L') <= n
    BY <1>0, <2>2, <2>3, <2>4, <2>5, <2>6, <2>7, <2>8, <2>9
  <2> QED
    BY <2>10 DEF Counts, L, H, n
<1> QED
  BY <1>1, <1>2

(* A copy takes its handler away; a file that is gone takes this handler, or all
   of them, without a copy. *)
LEMMA HandOverCounts ==
  ASSUME IsFiniteSet(Requests), TallyInv, NEW r \in Requests, NEW u \in Tokens,
         NEW q \in Products, HandOver(r, u, q), NEW t \in Tokens, NEW p \in Products
  PROVE  Counts(t, p)'
<1> USE DEF TallyInv
<1>0. logs' = logs
  BY DEF HandOver
<1>1. /\ At("logging", t, p)' \subseteq At("logging", t, p)
      /\ At("handing", t, p)' \subseteq At("handing", t, p)
  BY DEF HandOver, Leave, Enter, At, TypeOK, Active, Working
<1>2. CASE copies'[<<t, p>>] = copies[<<t, p>>]
  BY <1>0, <1>1, <1>2, QuietCounts DEF NobodyArrives
<1>3. CASE copies'[<<t, p>>] # copies[<<t, p>>]
  <2> DEFINE L == At("logging", t, p)
             H == At("handing", t, p)
             n == Cardinality(Requests)
  <2>1. <<t, p>> = <<u, q>> /\ copies' = [copies EXCEPT ![<<u, q>>] = @ + 1]
        /\ Leave(r, "done")
    BY <1>3 DEF HandOver, TypeOK
  <2>2. copies'[<<t, p>>] = copies[<<t, p>>] + 1
    BY <2>1 DEF TypeOK
  <2>3. r \in H /\ H' \subseteq H \ {r}
    BY <1>1, <2>1 DEF HandOver, At, Leave, Enter, TypeOK
  <2>4. IsFiniteSet(H) /\ Cardinality(L) \in Nat /\ Cardinality(H) \in Nat /\ n \in Nat
    BY AtFinite
  <2>5. logs[<<t, p>>] \in Nat /\ copies[<<t, p>>] \in Nat
    BY DEF TypeOK
  <2>6. copies[<<t, p>>] + Cardinality(H) <= logs[<<t, p>>]
        /\ logs[<<t, p>>] + Cardinality(L) <= n
    BY DEF Counts
  <2>7. Cardinality(L') \in Nat /\ Cardinality(L') <= Cardinality(L)
    BY <1>1, FewerAt
  <2> HIDE DEF L, H, n
  <2>8. IsFiniteSet(H \ {r}) /\ Cardinality(H \ {r}) = Cardinality(H) - 1
    BY <2>3, <2>4, FS_RemoveElement
  <2>9. IsFiniteSet(H') /\ Cardinality(H') <= Cardinality(H) - 1
    BY <2>3, <2>8, FS_Subset
  <2>10. Cardinality(H') \in Nat
    BY <2>9, FS_CardinalityType
  <2>11. copies'[<<t, p>>] + Cardinality(H') <= logs'[<<t, p>>]
         /\ logs'[<<t, p>>] + Cardinality(L') <= n
    BY <1>0, <2>2, <2>4, <2>5, <2>6, <2>7, <2>9, <2>10
  <2> QED
    BY <2>11 DEF Counts, L, H, n
<1> QED
  BY <1>2, <1>3

(* No other step writes a log or a copy or brings a handler to either place. *)
LEMMA OtherCounts ==
  ASSUME IsFiniteSet(Requests), TallyInv, [Next]_vars,
         \A r \in Requests, u \in Tokens, q \in Products :
           ~ReadLog(r, u, q) /\ ~WriteLog(r, u, q) /\ ~HandOver(r, u, q),
         NEW t \in Tokens, NEW p \in Products
  PROVE  Counts(t, p)'
<1> USE DEF At, TypeOK, TallyInv, NobodyArrives
<1>1. ASSUME NEW r \in Requests, NEW u \in Tokens, NEW q \in Products,
             ReadOrder(r, u, q)
      PROVE  NobodyArrives(t, p)
  BY <1>1 DEF ReadOrder, Leave, Enter, logVars
<1>2. ASSUME NEW r \in Requests, NEW q \in Products,
             \/ ReadFile(r, q) \/ Delete(r, q) \/ Unlink(r, q) \/ Publish(r, q)
             \/ \E valid \in BOOLEAN : Save(r, q, valid)
      PROVE  NobodyArrives(t, p)
  BY <1>2 DEF ReadFile, Delete, Unlink, Publish, Save, Leave, Enter, logVars
<1>3. ASSUME NEW r \in Requests,
             \/ Drop(r) \/ StoreRefused(r) \/ Fail(r) \/ \E k \in Keys : Store(r, k)
      PROVE  NobodyArrives(t, p)
  BY <1>3 DEF Drop, StoreRefused, Fail, Store, Leave, Enter, Step, logVars
<1>4. ASSUME UNCHANGED <<pc, job, logs, copies>>
      PROVE  NobodyArrives(t, p)
  BY <1>4
<1>5. NobodyArrives(t, p)
  BY <1>1, <1>2, <1>3, <1>4
     DEF Next, Handlers, Keep, Download, Environment, OrdersMove, Expire, vars, logVars
<1> QED
  BY <1>5, QuietCounts

(* Every step keeps TallyInv, and it holds at the start. *)
LEMMA TallyStep ==
  IsFiniteSet(Requests) => (TallyInv /\ [Next]_vars => TallyInv')
<1> SUFFICES ASSUME IsFiniteSet(Requests), TallyInv, [Next]_vars PROVE TallyInv'
  OBVIOUS
<1>1. TypeOK'
  BY TypeStep DEF TallyInv
<1>2. ASSUME NEW t \in Tokens, NEW p \in Products PROVE Counts(t, p)'
  BY PassCounts, LogCounts, HandOverCounts, OtherCounts
<1> QED
  BY <1>1, <1>2 DEF TallyInv

LEMMA TallyStart == IsFiniteSet(Requests) => (Init => TallyInv)
<1> SUFFICES ASSUME IsFiniteSet(Requests), Init PROVE TallyInv
  OBVIOUS
<1>1. TypeOK
  BY InitType
<1>2. ASSUME NEW t \in Tokens, NEW p \in Products PROVE Counts(t, p)
  <2>1. At("handing", t, p) = {} /\ At("logging", t, p) = {}
    BY DEF Init, At
  <2>2. copies[<<t, p>>] = 0 /\ logs[<<t, p>>] = 0
    BY DEF Init
  <2>3. Cardinality(Requests) \in Nat
    BY FS_CardinalityType
  <2> QED
    BY <2>1, <2>2, <2>3, FS_EmptySet DEF Counts
<1> QED
  BY <1>1, <1>2 DEF TallyInv

(* CopiesAreLogged: however downloads overlap and wherever they stop, no copy is
   handed over that the log does not count. *)
THEOREM EveryCopyIsLogged ==
  ASSUME IsFiniteSet(Requests)
  PROVE  Spec => []CopiesAreLogged
<1>1. TallyInv => CopiesAreLogged
  <2> SUFFICES ASSUME TallyInv, NEW t \in Tokens, NEW p \in Products
               PROVE  copies[<<t, p>>] <= logs[<<t, p>>]
    BY DEF CopiesAreLogged
  <2>1. Cardinality(At("handing", t, p)) \in Nat
    BY AtFinite
  <2>2. copies[<<t, p>>] \in Nat /\ logs[<<t, p>>] \in Nat
        /\ copies[<<t, p>>] + Cardinality(At("handing", t, p)) <= logs[<<t, p>>]
    BY DEF TallyInv, Counts, TypeOK
  <2> QED
    BY <2>1, <2>2
<1> QED
  BY TallyStart, TallyStep, <1>1, PTL DEF Spec

(* OverlapBounds: a product of an order is logged at most as often as there are
   requests that may be in flight together. *)
THEOREM LogsAreBounded ==
  ASSUME IsFiniteSet(Requests)
  PROVE  Spec => []OverlapBounds
<1>1. TallyInv => OverlapBounds
  <2> SUFFICES ASSUME TallyInv, NEW t \in Tokens, NEW p \in Products
               PROVE  logs[<<t, p>>] <= Cardinality(Requests)
    BY DEF OverlapBounds
  <2>1. Cardinality(At("logging", t, p)) \in Nat /\ Cardinality(Requests) \in Nat
    BY AtFinite
  <2>2. logs[<<t, p>>] \in Nat
        /\ logs[<<t, p>>] + Cardinality(At("logging", t, p)) <= Cardinality(Requests)
    BY DEF TallyInv, Counts, TypeOK
  <2> QED
    BY <2>1, <2>2
<1> QED
  BY TallyStart, TallyStep, <1>1, PTL DEF Spec

-----------------------------------------------------------------------------
(* One download, when requests do not overlap.

   Between the check of the log and the log itself no other handler moves, so
   the count that was read is still the one that is incremented. *)

OneActive == \A q, r \in Requests : Active(q) /\ Active(r) => q = r

CountInv(r) ==
  /\ pc[r] = "logging" => logs[<<job[r].token, job[r].product>>] = 0
  /\ pc[r] = "handing" => logs[<<job[r].token, job[r].product>>] = 1
                          /\ copies[<<job[r].token, job[r].product>>] = 0

Counted ==
  \A t \in Tokens, p \in Products :
    logs[<<t, p>>] <= 1 /\ copies[<<t, p>>] <= logs[<<t, p>>]

OnceInv ==
  /\ TypeOK
  /\ OneActive
  /\ Counted
  /\ \A r \in Requests : CountInv(r)

(* Whenever a handler moves, no other one is under way, nor is one afterwards. *)
LEMMA OthersRest ==
  ASSUME TypeOK, OneActive, Overlap = FALSE, NEW r \in Requests,
         \/ Keep(r) \/ Fail(r)
         \/ \E t \in Tokens, p \in Products : Download(r, t, p)
  PROVE  \A q \in Requests \ {r} : ~Active(q) /\ ~Active(q)'
<1>1. Active(r) \/ Admit(r)
  BY DEF Keep, Download, ReadOrder, ReadFile, ReadLog, WriteLog, HandOver, Save, Delete,
         Drop, Unlink, StoreRefused, Store, Publish, Fail, Active, Working
<1>2. \A q \in Requests \ {r} : ~Active(q)
  BY <1>1 DEF OneActive, Admit, Quiet
<1>3. ASSUME NEW q \in Requests \ {r} PROVE pc'[q] = pc[q]
  BY <1>2, <1>3 DEF Keep, Download, ReadOrder, ReadFile, ReadLog, WriteLog, HandOver, Save,
         Delete, Drop, Unlink, StoreRefused, Store, Publish, Fail, Enter, Leave, Step, TypeOK
<1> QED
  BY <1>2, <1>3 DEF Active

(* Without overlap every step keeps OnceInv. *)
LEMMA OnceStep == OnceInv /\ [Next]_vars /\ Overlap = FALSE => OnceInv'
<1> SUFFICES ASSUME OnceInv, [Next]_vars, Overlap = FALSE PROVE OnceInv'
  OBVIOUS
<1>0. TypeOK /\ TypeOK' /\ OneActive
  BY TypeStep DEF OnceInv
<1>l. ASSUME NEW r \in Requests,
             \A q \in Requests \ {r} : ~Active(q) /\ ~Active(q)',
             CountInv(r)', Counted'
      PROVE  OnceInv'
  <2>1. OneActive' /\ \A q \in Requests : CountInv(q)'
    BY <1>l DEF OneActive, Active, Working, CountInv
  <2> QED
    BY <1>0, <1>l, <2>1 DEF OnceInv
<1>1. ASSUME NEW r \in Requests, NEW t \in Tokens, NEW p \in Products,
             ReadLog(r, t, p)
      PROVE  OnceInv'
  <2>1. CountInv(r)'
    <3>1. CASE Spent(t, p)
      <4>1. pc'[r] = "refused"
        BY <1>0, <1>1, <3>1 DEF ReadLog, Leave, Enter, TypeOK
      <4> QED
        BY <4>1 DEF CountInv
    <3>2. CASE ~Spent(t, p)
      <4>1. pc'[r] = "logging" /\ job'[r] = job[r] /\ logs' = logs
        BY <1>0, <1>1, <3>2 DEF ReadLog, Step, TypeOK, logVars
      <4>2. logs[<<t, p>>] = 0
        BY <1>0, <3>2 DEF Spent, TypeOK
      <4> QED
        BY <1>1, <4>1, <4>2 DEF ReadLog, CountInv
    <3> QED
      BY <3>1, <3>2
  <2>2. Counted'
    BY <1>1 DEF ReadLog, OnceInv, Counted, logVars
  <2> QED
    BY <1>0, <1>1, <1>l, <2>1, <2>2, OthersRest DEF Download
<1>2. ASSUME NEW r \in Requests, NEW t \in Tokens, NEW p \in Products,
             WriteLog(r, t, p)
      PROVE  OnceInv'
  <2>1. /\ logs[<<t, p>>] = 0 /\ logs' = [logs EXCEPT ![<<t, p>>] = @ + 1]
        /\ copies' = copies /\ copies[<<t, p>>] = 0
    <3>1. logs[<<t, p>>] = 0 /\ copies[<<t, p>>] <= 0
      BY <1>2 DEF WriteLog, OnceInv, CountInv, Counted
    <3> QED
      BY <1>0, <1>2, <3>1 DEF WriteLog, TypeOK
  <2>2. CountInv(r)'
    BY <1>0, <1>2, <2>1 DEF WriteLog, Step, TypeOK, CountInv
  <2>3. Counted'
    <3> SUFFICES ASSUME NEW u \in Tokens, NEW q \in Products
                 PROVE  logs'[<<u, q>>] <= 1 /\ copies'[<<u, q>>] <= logs'[<<u, q>>]
      BY DEF Counted
    <3>1. CASE <<u, q>> = <<t, p>>
      BY <1>0, <2>1, <3>1 DEF TypeOK
    <3>2. CASE <<u, q>> # <<t, p>>
      <4>1. logs'[<<u, q>>] = logs[<<u, q>>]
        BY <1>0, <2>1, <3>2 DEF TypeOK
      <4> QED
        BY <2>1, <4>1 DEF OnceInv, Counted
    <3> QED
      BY <3>1, <3>2
  <2> QED
    BY <1>0, <1>2, <1>l, <2>2, <2>3, OthersRest DEF Download
<1>3. ASSUME NEW r \in Requests, NEW t \in Tokens, NEW p \in Products,
             HandOver(r, t, p)
      PROVE  OnceInv'
  <2>1. /\ logs[<<t, p>>] = 1 /\ logs' = logs /\ copies[<<t, p>>] = 0
        /\ copies' = copies \/ copies' = [copies EXCEPT ![<<t, p>>] = @ + 1]
    BY <1>3 DEF HandOver, OnceInv, CountInv
  <2>2. pc'[r] \in Resting
    BY <1>0, <1>3 DEF HandOver, Leave, Enter, TypeOK, Active, Working, Resting
  <2>3. CountInv(r)'
    BY <2>2 DEF CountInv, Resting
  <2>4. CASE copies' = copies
    BY <2>1, <2>4, <2>3, <1>0, <1>3, <1>l, OthersRest DEF OnceInv, Counted, Download
  <2>5. CASE copies' = [copies EXCEPT ![<<t, p>>] = @ + 1]
    <3>1. Counted'
      <4> SUFFICES ASSUME NEW u \in Tokens, NEW q \in Products
                   PROVE  logs'[<<u, q>>] <= 1 /\ copies'[<<u, q>>] <= logs'[<<u, q>>]
        BY DEF Counted
      <4>1. CASE <<u, q>> = <<t, p>>
        BY <1>0, <2>1, <2>5, <4>1 DEF TypeOK
      <4>2. CASE <<u, q>> # <<t, p>>
        <5>1. copies'[<<u, q>>] = copies[<<u, q>>]
          BY <1>0, <2>5, <4>2 DEF TypeOK
        <5> QED
          BY <2>1, <5>1 DEF OnceInv, Counted
      <4> QED
        BY <4>1, <4>2
    <3> QED
      BY <1>0, <1>3, <1>l, <2>3, <3>1, OthersRest DEF Download
  <2> QED
    BY <2>1, <2>4, <2>5
<1>4. ASSUME NEW r \in Requests,
             \/ Keep(r) \/ Fail(r)
             \/ \E t \in Tokens, p \in Products : ReadOrder(r, t, p)
      PROVE  OnceInv'
  <2>1. pc'[r] \notin {"logging", "handing"} /\ UNCHANGED logVars
    BY <1>0, <1>4 DEF Keep, ReadOrder, ReadFile, Save, Delete, Drop, Unlink, StoreRefused,
                      Store, Publish, Fail, Enter, Leave, Step, TypeOK
  <2>2. CountInv(r)' /\ Counted'
    BY <2>1 DEF CountInv, Counted, OnceInv, logVars
  <2> QED
    BY <1>0, <1>4, <1>l, <2>2, OthersRest DEF Download
<1>5. CASE Environment \/ UNCHANGED vars
  <2>1. UNCHANGED <<logVars, pc, job>>
    BY <1>5 DEF Environment, OrdersMove, Expire, vars
  <2> QED
    BY <1>0, <2>1 DEF OnceInv, OneActive, Active, Counted, CountInv, logVars
<1> QED
  BY <1>1, <1>2, <1>3, <1>4, <1>5 DEF Next, Handlers, Download

LEMMA InitOnce == Init => OnceInv
<1> SUFFICES ASSUME Init PROVE OnceInv
  OBVIOUS
<1>1. OneActive /\ \A r \in Requests : CountInv(r)
  BY DEF Init, OneActive, Active, Working, CountInv
<1>2. Counted
  BY DEF Init, Counted
<1> QED
  BY <1>1, <1>2, InitType DEF OnceInv

(* Without overlap, and whatever fails between two statements, a product of an
   order is logged and handed over once at most. *)
THEOREM SerialOneDownload ==
  ASSUME Overlap = FALSE
  PROVE  Spec => []OneDownload
<1>1. OnceInv => OneDownload
  <2> SUFFICES ASSUME OnceInv, NEW t \in Tokens, NEW p \in Products
               PROVE  copies[<<t, p>>] <= 1 /\ logs[<<t, p>>] <= 1
    BY DEF OneDownload
  <2>1. copies[<<t, p>>] \in Nat /\ logs[<<t, p>>] \in Nat
    BY DEF OnceInv, TypeOK
  <2>2. logs[<<t, p>>] <= 1 /\ copies[<<t, p>>] <= logs[<<t, p>>]
    BY DEF OnceInv, Counted
  <2> QED
    BY <2>1, <2>2
<1> QED
  BY <1>1, InitOnce, OnceStep, PTL DEF Spec
-----------------------------------------------------------------------------
(* Rows, objects, logs and copies, when requests neither overlap nor fail.

   The tables differ only where the one handler at work has done half of its
   work: AgreeInv says where, and what that handler can rely on. *)

Named(k) == \E p \in Products : row[p] = k
Unnamed(k) == \E r \in Requests : pc[r] = "publishing" /\ job[r].key = k
Dropped(k) == \E r \in Requests : pc[r] = "unlinking" /\ job[r].key = k

ObjectsFit == \A k \in Keys : k \in objects <=> Unnamed(k) \/ (Named(k) /\ ~Dropped(k))

LogsFit ==
  \A t \in Tokens, p \in Products :
    \/ logs[<<t, p>>] = copies[<<t, p>>]
    \/ \E r \in Requests : pc[r] = "handing" /\ job[r].token = t /\ job[r].product = p

Holds(r) ==
  /\ pc[r] \in {"consulting", "logging", "handing"} => job[r].key \in Keys /\ Named(job[r].key)
  /\ pc[r] \in {"dropping", "unlinking"} =>
       job[r].product \in Products /\ job[r].key \in Keys /\ row[job[r].product] = job[r].key
  /\ pc[r] \in {"storing", "publishing"} =>
       job[r].product \in Products /\ row[job[r].product] = None

AgreeInv ==
  /\ OnceInv /\ ShelfInv
  /\ ObjectsFit /\ LogsFit
  /\ \A r \in Requests : Holds(r)
(* What ObjectsFit and LogsFit say when r is the only handler at work. *)
FitsFor(r) ==
  /\ \A k \in Keys :
       k \in objects <=> \/ pc[r] = "publishing" /\ job[r].key = k
                         \/ Named(k) /\ ~(pc[r] = "unlinking" /\ job[r].key = k)
  /\ \A t \in Tokens, p \in Products :
       \/ logs[<<t, p>>] = copies[<<t, p>>]
       \/ pc[r] = "handing" /\ job[r].token = t /\ job[r].product = p

LEMMA FitsOne ==
  ASSUME AgreeInv, NEW r \in Requests, \A q \in Requests \ {r} : ~Active(q)
  PROVE  FitsFor(r) /\ Holds(r)
  BY DEF AgreeInv, ObjectsFit, LogsFit, FitsFor, Unnamed, Dropped, Active, Working

LEMMA FitsAll ==
  ASSUME NEW r \in Requests, \A q \in Requests \ {r} : ~Active(q)', FitsFor(r)', Holds(r)'
  PROVE  (ObjectsFit /\ LogsFit /\ \A q \in Requests : Holds(q))'
<1>1. (\A q \in Requests : Holds(q))'
  BY DEF Holds, Active, Working
<1>2. (ObjectsFit /\ LogsFit)'
  BY DEF ObjectsFit, LogsFit, FitsFor, Unnamed, Dropped, Active, Working
<1> QED
  BY <1>1, <1>2

(* A handler moves and leaves the four tables alone. *)
LEMMA FitsStay ==
  ASSUME NEW r \in Requests, FitsFor(r), UNCHANGED <<fileVars, logVars>>,
         pc[r] \notin {"publishing", "unlinking", "handing"},
         pc'[r] \notin {"publishing", "unlinking", "handing"}
  PROVE  FitsFor(r)'
  BY DEF FitsFor, Named, fileVars, logVars

LEMMA AgreeStep ==
  ASSUME AgreeInv, [Next]_vars, Overlap = FALSE, MayFail = FALSE, MayRefuse = FALSE
  PROVE  AgreeInv'
<1>0. TypeOK /\ TypeOK' /\ OnceInv' /\ ShelfInv' /\ OneActive
  BY TypeStep, OnceStep, ShelfStep DEF AgreeInv, OnceInv
<1>t. pc \in [Requests -> Resting \cup Working] /\ DOMAIN job = Requests /\ None \notin Keys
  BY <1>0, NoneAssumption DEF TypeOK
<1>l. ASSUME NEW r \in Requests,
             \/ Keep(r) \/ \E t \in Tokens, p \in Products : Download(r, t, p),
             FitsFor(r) /\ Holds(r) => FitsFor(r)' /\ Holds(r)'
      PROVE  AgreeInv'
  <2>1. \A q \in Requests \ {r} : ~Active(q) /\ ~Active(q)'
    BY <1>0, <1>l, OthersRest
  <2>2. FitsFor(r)' /\ Holds(r)'
    BY <1>l, <2>1, FitsOne
  <2>3. (ObjectsFit /\ LogsFit /\ \A q \in Requests : Holds(q))'
    BY <2>1, <2>2, FitsAll
  <2> QED
    BY <1>0, <2>3 DEF AgreeInv
<1>1. ASSUME NEW r \in Requests, NEW t \in Tokens, NEW p \in Products,
             ReadOrder(r, t, p) \/ ReadLog(r, t, p)
      PROVE  AgreeInv'
  <2>1. ASSUME FitsFor(r), Holds(r) PROVE FitsFor(r)' /\ Holds(r)'
    <3>1. /\ pc[r] \notin {"publishing", "unlinking", "handing"}
          /\ pc'[r] \notin {"publishing", "unlinking", "handing"}
          /\ UNCHANGED <<fileVars, logVars>>
          /\ pc'[r] \in {"locating", "refused", "logging"}
          /\ pc'[r] = "logging" => pc[r] = "consulting" /\ job'[r] = job[r]
      BY <1>t, <1>1 DEF ReadOrder, ReadLog, Admit, Active, Working, Enter, Leave, Step
    <3>2. Holds(r)'
      BY <2>1, <3>1 DEF Holds, Named, fileVars
    <3> QED
      BY <2>1, <3>1, <3>2, FitsStay
  <2> QED
    BY <1>1, <1>l, <2>1 DEF Download
<1>2. ASSUME NEW r \in Requests, NEW p \in Products, ReadFile(r, p)
      PROVE  AgreeInv'
  <2>1. ASSUME FitsFor(r), Holds(r) PROVE FitsFor(r)' /\ Holds(r)'
    <3>1. /\ pc[r] = "locating" /\ pc'[r] \in {"refused", "consulting"}
          /\ UNCHANGED <<fileVars, logVars>>
          /\ pc'[r] = "consulting" => row[p] # None /\ job'[r].key = row[p]
      BY <1>t, <1>2 DEF ReadFile, Enter, Leave, Job
    <3>2. row[p] \in Keys \cup {None}
      BY <1>0 DEF TypeOK
    <3>3. Holds(r)'
      BY <3>1, <3>2 DEF Holds, Named, fileVars
    <3> QED
      BY <2>1, <3>1, <3>3, FitsStay
  <2> QED
    BY <1>2, <1>l, <2>1 DEF Keep
<1>3. ASSUME NEW r \in Requests, NEW t \in Tokens, NEW p \in Products,
             WriteLog(r, t, p)
      PROVE  AgreeInv'
  <2>1. ASSUME FitsFor(r), Holds(r) PROVE FitsFor(r)' /\ Holds(r)'
    <3>1. /\ pc[r] = "logging" /\ pc'[r] = "handing" /\ job' = job /\ UNCHANGED fileVars
          /\ job[r].token = t /\ job[r].product = p /\ copies' = copies
          /\ logs' = [logs EXCEPT ![<<t, p>>] = @ + 1]
      BY <1>t, <1>3 DEF WriteLog, Step
    <3>2. Holds(r)'
      BY <2>1, <3>1 DEF Holds, Named, fileVars
    <3>3. ASSUME NEW u \in Tokens, NEW q \in Products, ~(u = t /\ q = p)
          PROVE  logs'[<<u, q>>] = copies'[<<u, q>>]
      <4>1. <<u, q>> # <<t, p>> /\ logs[<<u, q>>] = copies[<<u, q>>]
        BY <2>1, <3>1, <3>3 DEF FitsFor
      <4> QED
        BY <1>0, <3>1, <4>1 DEF TypeOK
    <3>4. FitsFor(r)'
      BY <2>1, <3>1, <3>3 DEF FitsFor, Named, fileVars
    <3> QED
      BY <3>2, <3>4
  <2> QED
    BY <1>3, <1>l, <2>1 DEF Download
<1>4. ASSUME NEW r \in Requests, NEW t \in Tokens, NEW p \in Products,
             HandOver(r, t, p)
      PROVE  AgreeInv'
  <2>1. ASSUME FitsFor(r), Holds(r) PROVE FitsFor(r)' /\ Holds(r)'
    <3>1. /\ pc[r] = "handing" /\ job[r].token = t /\ job[r].product = p
          /\ UNCHANGED fileVars /\ logs' = logs
      BY <1>4 DEF HandOver
    <3>2. job[r].key \in objects
      BY <2>1, <3>1 DEF FitsFor, Holds
    <3>3. pc'[r] = "done" /\ copies' = [copies EXCEPT ![<<t, p>>] = @ + 1]
      BY <1>t, <1>4, <3>2 DEF HandOver, Leave, Enter
    <3>4. logs[<<t, p>>] = 1 /\ copies[<<t, p>>] = 0
      BY <3>1 DEF AgreeInv, OnceInv, CountInv
    <3>5. ASSUME NEW u \in Tokens, NEW q \in Products
          PROVE  logs'[<<u, q>>] = copies'[<<u, q>>]
      <4>1. CASE <<u, q>> = <<t, p>>
        BY <1>0, <3>1, <3>3, <3>4, <4>1 DEF TypeOK
      <4>2. CASE <<u, q>> # <<t, p>>
        <5>1. copies'[<<u, q>>] = copies[<<u, q>>]
          BY <1>0, <3>3, <4>2 DEF TypeOK
        <5> QED
          BY <2>1, <3>1, <4>2, <5>1 DEF FitsFor
      <4> QED
        BY <4>1, <4>2
    <3>6. FitsFor(r)'
      BY <2>1, <3>1, <3>3, <3>5 DEF FitsFor, Named, fileVars
    <3>7. Holds(r)'
      BY <3>3 DEF Holds
    <3> QED
      BY <3>6, <3>7
  <2> QED
    BY <1>4, <1>l, <2>1 DEF Download
<1>5. ASSUME NEW r \in Requests, NEW p \in Products, NEW valid \in BOOLEAN,
             Save(r, p, valid) \/ Delete(r, p)
      PROVE  AgreeInv'
  <2>1. ASSUME FitsFor(r), Holds(r) PROVE FitsFor(r)' /\ Holds(r)'
    <3>1. /\ pc[r] \notin {"publishing", "unlinking", "handing"}
          /\ UNCHANGED <<fileVars, logVars>>
          /\ \/ pc'[r] = "refused"
             \/ pc'[r] = "storing" /\ row[p] = None /\ job'[r].product = p
             \/ pc'[r] = "dropping" /\ row[p] # None /\ job'[r].product = p
                /\ job'[r].key = row[p]
      BY <1>t, <1>5 DEF Save, Delete, Admit, Active, Working, Enter, Leave, Job
    <3>2. row[p] \in Keys \cup {None}
      BY <1>0 DEF TypeOK
    <3>3. Holds(r)'
      BY <3>1, <3>2 DEF Holds, fileVars
    <3> QED
      BY <2>1, <3>1, <3>3, FitsStay
  <2> QED
    BY <1>5, <1>l, <2>1 DEF Keep
<1>6. ASSUME NEW r \in Requests, Drop(r)
      PROVE  AgreeInv'
  <2>1. ASSUME FitsFor(r), Holds(r) PROVE FitsFor(r)' /\ Holds(r)'
    <3>1. /\ pc[r] = "dropping" /\ pc'[r] = "unlinking" /\ job' = job
          /\ objects' = objects \ {job[r].key} /\ row' = row /\ UNCHANGED logVars
      BY <1>t, <1>6 DEF Drop, Step
    <3>2. Holds(r)'
      BY <2>1, <3>1 DEF Holds
    <3>3. FitsFor(r)'
      BY <2>1, <3>1 DEF FitsFor, Named, logVars
    <3> QED
      BY <3>2, <3>3
  <2> QED
    BY <1>6, <1>l, <2>1 DEF Keep
<1>7. ASSUME NEW r \in Requests, NEW p \in Products, Unlink(r, p)
      PROVE  AgreeInv'
  <2>1. ASSUME FitsFor(r), Holds(r) PROVE FitsFor(r)' /\ Holds(r)'
    <3>1. /\ pc[r] = "unlinking" /\ p = job[r].product /\ row[p] = job[r].key
          /\ job[r].key \in Keys
      BY <1>7, <2>1 DEF Unlink, Holds
    <3>2. /\ row' = [row EXCEPT ![p] = None] /\ objects' = objects /\ UNCHANGED logVars
          /\ \/ pc'[r] = "done"
             \/ pc'[r] = "storing" /\ job'[r].product = p
      BY <1>t, <1>7, <3>1 DEF Unlink, Enter, Leave, Job
    <3>3. /\ row'[p] = None
          /\ \A q \in Products \ {p} : row'[q] = row[q] /\ row[q] # job[r].key
      BY <1>0, <1>t, <3>1, <3>2 DEF TypeOK, AgreeInv, ShelfInv, RowsDiffer
    <3>4. \A k \in Keys : Named(k)' <=> Named(k) /\ k # job[r].key
      BY <1>t, <3>1, <3>3 DEF Named
    <3>5. FitsFor(r)'
      BY <2>1, <3>1, <3>2, <3>4 DEF FitsFor, logVars
    <3>6. Holds(r)'
      BY <3>2, <3>3 DEF Holds
    <3> QED
      BY <3>5, <3>6
  <2> QED
    BY <1>7, <1>l, <2>1 DEF Keep
<1>8. ASSUME NEW r \in Requests, NEW k \in Keys, Store(r, k)
      PROVE  AgreeInv'
  <2>1. ASSUME FitsFor(r), Holds(r) PROVE FitsFor(r)' /\ Holds(r)'
    <3>1. /\ pc[r] = "storing" /\ pc'[r] = "publishing" /\ job'[r].key = k
          /\ job'[r].product = job[r].product
          /\ objects' = objects \cup {k} /\ row' = row /\ UNCHANGED logVars
      BY <1>t, <1>8 DEF Store, Enter, Job
    <3>2. Holds(r)'
      BY <2>1, <3>1 DEF Holds
    <3>3. FitsFor(r)'
      BY <2>1, <3>1 DEF FitsFor, Named, logVars
    <3> QED
      BY <3>2, <3>3
  <2> QED
    BY <1>8, <1>l, <2>1 DEF Keep
<1>9. ASSUME NEW r \in Requests, NEW p \in Products, Publish(r, p)
      PROVE  AgreeInv'
  <2>1. ASSUME FitsFor(r), Holds(r) PROVE FitsFor(r)' /\ Holds(r)'
    <3>1. pc[r] = "publishing" /\ p = job[r].product /\ row[p] = None
      BY <1>9, <2>1 DEF Publish, Holds
    <3>2. /\ row' = [row EXCEPT ![p] = job[r].key] /\ objects' = objects
          /\ UNCHANGED logVars /\ pc'[r] = "done"
      BY <1>t, <1>9, <3>1 DEF Publish, Leave, Enter
    <3>3. row'[p] = job[r].key /\ \A q \in Products \ {p} : row'[q] = row[q]
      BY <1>0, <3>2 DEF TypeOK
    <3>4. \A k \in Keys : Named(k)' <=> Named(k) \/ k = job[r].key
      BY <1>t, <3>1, <3>3 DEF Named
    <3>5. FitsFor(r)'
      BY <2>1, <3>1, <3>2, <3>4 DEF FitsFor, logVars
    <3>6. Holds(r)'
      BY <3>2 DEF Holds
    <3> QED
      BY <3>5, <3>6
  <2> QED
    BY <1>9, <1>l, <2>1 DEF Keep
<1>10. ASSUME NEW r \in Requests, StoreRefused(r) \/ Fail(r)
       PROVE  FALSE
  BY <1>10 DEF StoreRefused, Fail
<1>11. CASE Environment \/ UNCHANGED vars
  <2>1. UNCHANGED <<fileVars, logVars, pc, job>>
    BY <1>11 DEF Environment, OrdersMove, Expire, vars
  <2>2. (ObjectsFit /\ LogsFit /\ \A r \in Requests : Holds(r))'
    BY <2>1 DEF AgreeInv, ObjectsFit, LogsFit, Holds, Named, Unnamed, Dropped, fileVars,
                logVars
  <2> QED
    BY <1>0, <2>2 DEF AgreeInv
<1> QED
  BY <1>1, <1>2, <1>3, <1>4, <1>5, <1>6, <1>7, <1>8, <1>9, <1>10, <1>11
     DEF Next, Handlers, Keep, Download

(* TablesAgree: when requests neither overlap nor fail and the store refuses
   nothing, it holds between requests the objects of the rows and no other, and
   each logged download was handed over. *)
THEOREM SerialTablesAgree ==
  ASSUME Overlap = FALSE, MayFail = FALSE, MayRefuse = FALSE
  PROVE  Spec => []TablesAgree
<1>1. Init => AgreeInv
  <2> SUFFICES ASSUME Init PROVE AgreeInv
    OBVIOUS
  <2>1. OnceInv /\ ShelfInv
    BY InitOnce, InitShelf
  <2>2. ObjectsFit /\ LogsFit /\ \A r \in Requests : Holds(r)
    BY NoneAssumption DEF Init, ObjectsFit, LogsFit, Holds, Named, Unnamed, Dropped
  <2> QED
    BY <2>1, <2>2 DEF AgreeInv
<1>2. AgreeInv => TablesAgree
  <2> SUFFICES ASSUME AgreeInv, Quiet PROVE TablesAgree
    BY DEF TablesAgree
  <2>1. objects \subseteq Keys /\ \A p \in Products : row[p] \in Keys \cup {None}
    BY DEF AgreeInv, OnceInv, TypeOK
  <2>2. \A k \in Keys : k \in objects <=> Named(k)
    BY DEF AgreeInv, ObjectsFit, Unnamed, Dropped, Quiet, Active, Working
  <2>3. objects = {row[p] : p \in Products} \ {None}
    BY <2>1, <2>2, NoneAssumption DEF Named
  <2>4. \A t \in Tokens, p \in Products : logs[<<t, p>>] = copies[<<t, p>>]
    BY DEF AgreeInv, LogsFit, Quiet, Active, Working
  <2> QED
    BY <2>3, <2>4 DEF TablesAgree
<1> QED
  BY <1>1, <1>2, AgreeStep, PTL DEF Spec
=============================================================================
