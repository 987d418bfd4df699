-------------------------- MODULE OrderSerialProofs --------------------------
(***************************************************************************)
(* OrderLifecycle implements OrderStatus when requests do not overlap, for *)
(* any orders, products and routes, with failures between statements.      *)
(*                                                                         *)
(* Alone, a handler still finds the row in the status it read, so the      *)
(* table it consulted is about the status it overwrites.  SerialInv says   *)
(* so; with overlap it is false, and so is the refinement.                 *)
(***************************************************************************)
EXTENDS OrderLifecycleProofs

OneActive == \A q, r \in Requests : Active(q) /\ Active(r) => q = r

FreshInv(r) ==
  /\ pc[r] = "confirming" => status[job[r].order] = "pending"
  /\ pc[r] \in {"writing", "refunding", "announcing"} =>
       \A o \in left[r] : status[o] = job[r].seen[o]
  /\ pc[r] = "refunding" => status[cur[r]] = "refunded"

SerialInv ==
  /\ SafetyInv
  /\ OneActive
  /\ \A r \in Requests : FreshInv(r)
  /\ RefundIsFinal

(* A handler at rest has read nothing that could be stale. *)
LEMMA RestIsFresh ==
  ASSUME NEW r \in Requests, ~Active(r)
  PROVE  FreshInv(r)
  BY DEF Active, Working, FreshInv

(* Only the handler that moves can be active afterwards. *)
LEMMA OthersRest ==
  ASSUME SerialInv, Overlap = FALSE, NEW r \in Requests,
         Start(r) \/ Continue(r) \/ Fail(r)
  PROVE  \A q \in Requests \ {r} : ~Active(q)'
<1>1. \A q \in Requests \ {r} : ~Active(q)
  <2>1. CASE Active(r)
    BY <2>1 DEF SerialInv, OneActive
  <2>2. CASE Start(r)
    BY <2>2 DEF Start, CreateStart, Confirm, ReadPending, Webhook, ReadOne, ReadMany,
                Admit
  <2>3. Continue(r) => Active(r)
    BY DEF Continue, CreateCheck, MarkRead, MarkSold, CreateInsert, ConfirmWrite,
           ConfirmFinish, WriteStatus, Announce, Refund, Active, Working
  <2>4. Fail(r) => Active(r)
    BY DEF Fail
  <2> QED
    BY <2>1, <2>2, <2>3, <2>4
<1>2. ASSUME NEW q \in Requests \ {r} PROVE pc'[q] = pc[q]
  BY OneMoves DEF SerialInv, SafetyInv
<1> QED
  BY <1>1, <1>2 DEF Active

(* So a step of a handler keeps the invariant if it keeps its own part. *)
LEMMA SerialLocal ==
  ASSUME SerialInv, SafetyInv', Overlap = FALSE, NEW r \in Requests,
         Start(r) \/ Continue(r) \/ Fail(r), FreshInv(r)', RefundIsFinal'
  PROVE  SerialInv'
<1>1. \A q \in Requests \ {r} : ~Active(q)'
  BY OthersRest
<1>2. OneActive'
  BY <1>1 DEF OneActive
<1>3. \A q \in Requests : FreshInv(q)'
  BY <1>1 DEF Active, Working, FreshInv
<1> QED
  BY <1>2, <1>3 DEF SerialInv

(* A step of a handler that leaves the order table and the refunds alone. *)
LEMMA SerialQuiet ==
  ASSUME SerialInv, SafetyInv', Overlap = FALSE, NEW r \in Requests,
         Start(r) \/ Continue(r) \/ Fail(r), FreshInv(r)',
         UNCHANGED <<orderVars, returned>>
  PROVE  SerialInv' /\ [Lifecycle!Next]_status
<1>1. RefundIsFinal' /\ status' = status
  BY DEF SerialInv, RefundIsFinal, orderVars
<1> QED
  BY <1>1, SerialLocal

(* Without overlap every step keeps SerialInv and is a step of OrderStatus, or
   leaves the statuses alone. *)
LEMMA SerialStep ==
  SerialInv /\ [Next]_vars /\ Overlap = FALSE => SerialInv' /\ [Lifecycle!Next]_status
<1> SUFFICES ASSUME SerialInv, [Next]_vars, Overlap = FALSE
             PROVE  SerialInv' /\ [Lifecycle!Next]_status
  OBVIOUS
<1>0. SafetyInv /\ TypeOK /\ SafetyInv'
  BY SafetyStep DEF SerialInv, SafetyInv
<1>m. ASSUME NEW o \in Orders, NEW s, <<status[o], s>> \in Lifecycle!Edges,
             status' = [status EXCEPT ![o] = s]
      PROVE  [Lifecycle!Next]_status
  <2>1. <<status[o], s>>[2] = s
    OBVIOUS
  <2> QED
    BY <1>m, <2>1 DEF Lifecycle!Next, Lifecycle!Move
<1>c. ASSUME NEW r \in Requests, Continue(r), pc'[r] \in Resting \cup {"marking", "selling", "checking"},
             UNCHANGED <<orderVars, returned>>
      PROVE  SerialInv' /\ [Lifecycle!Next]_status
  <2>1. FreshInv(r)'
    BY <1>c DEF FreshInv, Resting
  <2> QED
    BY <1>0, <1>c, <2>1, SerialQuiet
<1>1. ASSUME NEW r \in Requests, Start(r)
      PROVE  SerialInv' /\ [Lifecycle!Next]_status
  <2>0. UNCHANGED <<orderVars, returned>>
    BY <1>1 DEF Start, CreateStart, Confirm, ReadPending, Webhook, ReadOne, ReadMany
  <2>u. ASSUME NEW os \in SUBSET Orders, NEW g, NEW bulk,
               Enter(r, "writing", UpdateJob(os, g, bulk), os)
        PROVE  FreshInv(r)'
    <3>1. pc'[r] = "writing" /\ left'[r] = os /\ job'[r] = UpdateJob(os, g, bulk)
      BY <1>0, <2>u DEF Enter, TypeOK
    <3>2. \A o \in os : job'[r].seen[o] = status[o]
      BY <3>1 DEF UpdateJob
    <3> QED
      BY <2>0, <3>1, <3>2 DEF FreshInv, orderVars
  <2>l. ASSUME NEW outcome \in Resting, Leave(r, outcome)
        PROVE  FreshInv(r)'
    BY <1>0, <2>l DEF Leave, Enter, TypeOK, FreshInv, Resting
  <2>1. ASSUME NEW o \in Orders, NEW b \in Baskets, CreateStart(r, o, b)
        PROVE  FreshInv(r)'
    BY <1>0, <2>1 DEF CreateStart, Enter, TypeOK, FreshInv
  <2>2. ASSUME NEW o \in Orders, NEW s \in BOOLEAN, ReadPending(r, o, s)
        PROVE  FreshInv(r)'
    <3>1. CASE status[o] = "pending"
      <4>1. pc'[r] = "confirming" /\ job'[r].order = o
        BY <1>0, <2>2, <3>1 DEF ReadPending, ConfirmJob, Enter, TypeOK
      <4> QED
        BY <2>0, <3>1, <4>1 DEF FreshInv, orderVars
    <3>2. CASE status[o] # "pending"
      BY <2>2, <3>2, <2>l DEF ReadPending, Resting
    <3> QED
      BY <3>1, <3>2
  <2>3. ASSUME NEW o \in Orders, NEW e, Webhook(r, o, e)
        PROVE  FreshInv(r)'
    BY <2>3, <2>2, <2>l DEF Webhook, Resting
  <2>4. ASSUME NEW o \in Orders, NEW g \in Live, ReadOne(r, o, g)
        PROVE  FreshInv(r)'
    BY <2>4, <2>u, <2>l DEF ReadOne, Resting
  <2>5. ASSUME NEW os \in SUBSET Orders, NEW g \in Live, ReadMany(r, os, g)
        PROVE  FreshInv(r)'
    <3> DEFINE ok == {o \in os : Allowed(status[o], g)}
    <3>1. Leave(r, "done") \/ Enter(r, "writing", UpdateJob(ok, g, TRUE), ok)
      BY <2>5 DEF ReadMany
    <3>2. ok \in SUBSET Orders
      OBVIOUS
    <3> HIDE DEF ok
    <3> QED
      BY <3>1, <3>2, <2>u, <2>l DEF Resting
  <2>6. FreshInv(r)'
    BY <1>1, <2>1, <2>2, <2>3, <2>4, <2>5 DEF Start, Confirm
  <2> QED
    BY <1>0, <1>1, <2>0, <2>6, SerialQuiet
<1>2. ASSUME NEW r \in Requests, NEW p \in Products,
             CreateCheck(r, p) \/ MarkRead(r, p) \/ MarkSold(r, p)
      PROVE  SerialInv' /\ [Lifecycle!Next]_status
  <2>1. /\ pc'[r] \in Resting \cup {"marking", "selling", "checking"}
        /\ UNCHANGED <<orderVars, returned>>
    BY <1>0, <1>2 DEF CreateCheck, MarkRead, MarkSold, NextItem, Leave, Enter,
                      TypeOK, Resting
  <2> QED
    BY <1>2, <2>1, <1>c DEF Continue
<1>3. ASSUME NEW r \in Requests, NEW o \in Orders, NEW m \in Methods,
             NEW s \in BOOLEAN, CreateInsert(r, o, m, s)
      PROVE  SerialInv' /\ [Lifecycle!Next]_status
  <2>1. /\ status[o] = "new" /\ status' = [status EXCEPT ![o] = "pending"]
        /\ UNCHANGED returned /\ o \notin returned
    BY <1>0, <1>3 DEF CreateInsert, SetStatus, SafetyInv, RequestInv, CheckingInv,
                      SerialInv, RefundIsFinal
  <2>2. FreshInv(r)'
    BY <1>0, <1>3 DEF CreateInsert, Leave, Enter, TypeOK, FreshInv
  <2>3. RefundIsFinal'
    BY <1>0, <2>1 DEF SerialInv, RefundIsFinal, TypeOK
  <2>4. <<status[o], "pending">> \in Lifecycle!Edges
    BY <2>1 DEF Lifecycle!Edges
  <2> QED
    BY <1>0, <1>3, <1>m, <2>1, <2>2, <2>3, <2>4, SerialLocal DEF Continue
<1>4. ASSUME NEW r \in Requests, NEW o \in Orders, ConfirmWrite(r, o)
      PROVE  SerialInv' /\ [Lifecycle!Next]_status
  <2>1. status[o] = "pending" /\ UNCHANGED returned
    BY <1>4 DEF ConfirmWrite, SerialInv, FreshInv
  <2>2. /\ status' = [status EXCEPT ![o] = "paid"] /\ pc'[r] = "marking"
    BY <1>0, <1>4, <2>1 DEF ConfirmWrite, Exists, Live, SetStatus, Enter, TypeOK
  <2>3. FreshInv(r)'
    BY <2>2 DEF FreshInv
  <2>4. RefundIsFinal'
    BY <1>0, <2>1, <2>2 DEF SerialInv, RefundIsFinal, TypeOK
  <2>5. <<status[o], "paid">> \in Lifecycle!Edges
    BY <2>1 DEF Lifecycle!Edges
  <2> QED
    BY <1>0, <1>4, <1>m, <2>2, <2>3, <2>4, <2>5, SerialLocal DEF Continue
<1>5. ASSUME NEW r \in Requests, NEW o \in Orders, ConfirmFinish(r, o)
      PROVE  SerialInv' /\ [Lifecycle!Next]_status
  <2>1. pc'[r] \in Resting /\ UNCHANGED <<orderVars, returned>>
    BY <1>0, <1>5 DEF ConfirmFinish, TypeOK, Resting
  <2> QED
    BY <1>5, <2>1, <1>c DEF Continue
<1>6. ASSUME NEW r \in Requests, NEW o \in Orders, WriteStatus(r, o)
      PROVE  SerialInv' /\ [Lifecycle!Next]_status
  <2> DEFINE g == job[r].goal
  <2>1. /\ status[o] = job[r].seen[o] /\ Allowed(status[o], g)
        /\ UNCHANGED <<returned, job>>
    BY <1>0, <1>6 DEF WriteStatus, SerialInv, FreshInv, SafetyInv, RequestInv,
                      UpdatingInv, Exists, Allowed
  <2>2. /\ status' = [status EXCEPT ![o] = g]
        /\ pc'[r] = IF g = "refunded" THEN "refunding" ELSE "announcing"
        /\ cur'[r] = o /\ left'[r] = left[r] \ {o}
    BY <1>0, <1>6, <2>1 DEF WriteStatus, Exists, Allowed, SetStatus, TypeOK
  <2>3. FreshInv(r)'
    <3>1. \A x \in left'[r] : status'[x] = job'[r].seen[x]
      <4>1. \A x \in left[r] : x \in Orders /\ status[x] = job[r].seen[x]
        BY <1>0, <1>6 DEF WriteStatus, SerialInv, FreshInv, SafetyInv, RequestInv,
                          UpdatingInv
      <4> QED
        BY <1>0, <2>1, <2>2, <4>1 DEF TypeOK
    <3>2. pc'[r] = "refunding" => status'[cur'[r]] = "refunded"
      BY <1>0, <2>2 DEF TypeOK
    <3> QED
      BY <2>2, <3>1, <3>2 DEF FreshInv
  <2>4. o \notin returned
    BY <2>1 DEF SerialInv, RefundIsFinal, Allowed, VALID_TRANSITIONS, Live
  <2>5. RefundIsFinal'
    BY <1>0, <2>1, <2>2, <2>4 DEF SerialInv, RefundIsFinal, TypeOK
  <2>6. <<status[o], g>> \in Lifecycle!Edges
    BY <2>1, AllowedEdge
  <2> QED
    BY <1>0, <1>6, <1>m, <2>2, <2>3, <2>5, <2>6, SerialLocal DEF Continue
<1>7. ASSUME NEW r \in Requests, NEW o \in Orders, NEW money \in BOOLEAN,
             Refund(r, o, money)
      PROVE  SerialInv' /\ [Lifecycle!Next]_status
  <2>1. /\ status' = status /\ status[o] = "refunded"
        /\ returned' \subseteq returned \cup {o}
        /\ pc'[r] = "announcing" /\ left' = left /\ job' = job
        /\ \A x \in left[r] : status[x] = job[r].seen[x]
    BY <1>0, <1>7 DEF Refund, SerialInv, FreshInv, orderVars, TypeOK
  <2>2. FreshInv(r)' /\ RefundIsFinal'
    BY <2>1 DEF FreshInv, SerialInv, RefundIsFinal
  <2> QED
    BY <1>0, <1>7, <2>1, <2>2, SerialLocal DEF Continue
<1>8. ASSUME NEW r \in Requests, NEW o \in Orders, Announce(r, o)
      PROVE  SerialInv' /\ [Lifecycle!Next]_status
  <2>0. UNCHANGED <<orderVars, returned>>
    BY <1>8 DEF Announce
  <2>1. CASE left[r] = {}
    <3>1. pc'[r] = "done"
      BY <1>0, <1>8, <2>1 DEF Announce, Leave, Enter, TypeOK
    <3> QED
      BY <1>8, <2>0, <3>1, <1>c DEF Continue, Resting
  <2>2. CASE left[r] # {}
    <3>1. /\ pc'[r] = "writing" /\ left'[r] = left[r] /\ job'[r] = job[r]
          /\ \A x \in left[r] : status[x] = job[r].seen[x]
      BY <1>0, <1>8, <2>2 DEF Announce, Enter, TypeOK, SerialInv, FreshInv
    <3>2. FreshInv(r)'
      BY <2>0, <3>1 DEF FreshInv, orderVars
    <3> QED
      BY <1>0, <1>8, <2>0, <3>2, SerialQuiet DEF Continue
  <2> QED
    BY <2>1, <2>2
<1>9. ASSUME NEW r \in Requests, Fail(r)
      PROVE  SerialInv' /\ [Lifecycle!Next]_status
  <2>1. pc'[r] = "failed" /\ UNCHANGED <<orderVars, returned>>
    BY <1>0, <1>9 DEF Fail, Leave, Enter, TypeOK
  <2>2. FreshInv(r)'
    BY <2>1 DEF FreshInv
  <2> QED
    BY <1>0, <1>9, <2>1, <2>2, SerialQuiet
<1>10. ASSUME NEW os \in SUBSET Orders, DeleteOrders(os)
       PROVE  SerialInv' /\ [Lifecycle!Next]_status
  <2> DEFINE gone == {o \in os : Exists(o)}
  <2>1. /\ \A q \in Requests : ~Active(q)
        /\ pc' = pc /\ returned' = returned
        /\ status' = [o \in Orders |-> IF o \in gone THEN "deleted" ELSE status[o]]
    BY <1>10 DEF DeleteOrders, Alone, locals
  <2>2. gone \in SUBSET Orders /\ \A o \in gone : status[o] \notin {"new", "deleted"}
    BY DEF Exists, Live
  <2> HIDE DEF gone
  <2>3. Lifecycle!Next
    BY <2>1, <2>2 DEF Lifecycle!Next, Lifecycle!Delete
  <2>4. RefundIsFinal'
    BY <1>0, <2>1 DEF SerialInv, RefundIsFinal, TypeOK
  <2>5. \A q \in Requests : ~Active(q)' /\ FreshInv(q)'
    BY <2>1 DEF Active, Working, FreshInv
  <2> QED
    BY <1>0, <2>3, <2>4, <2>5 DEF SerialInv, OneActive
<1>11. CASE \/ \E ps \in SUBSET Products : RemoveProducts(ps)
            \/ \E p \in Products, e \in BOOLEAN, s \in BOOLEAN : EditProduct(p, e, s)
            \/ UNCHANGED vars
  <2>1. UNCHANGED <<orderVars, returned, locals>>
    BY <1>11 DEF RemoveProducts, EditProduct, vars
  <2>2. OneActive' /\ (\A q \in Requests : FreshInv(q)') /\ RefundIsFinal'
    BY <2>1 DEF SerialInv, OneActive, Active, FreshInv, RefundIsFinal, orderVars, locals
  <2> QED
    BY <1>0, <2>1, <2>2 DEF SerialInv, orderVars
<1> QED
  BY <1>1, <1>2, <1>3, <1>4, <1>5, <1>6, <1>7, <1>8, <1>9, <1>10, <1>11
     DEF Next, Continue

LEMMA InitSerial == Init => SerialInv
<1> SUFFICES ASSUME Init PROVE SerialInv
  OBVIOUS
<1>1. \A r \in Requests : ~Active(r)
  BY DEF Init, Active, Working
<1>2. \A r \in Requests : FreshInv(r)
  BY <1>1, RestIsFresh
<1> QED
  BY <1>1, <1>2, InitSafe DEF Init, SerialInv, OneActive, RefundIsFinal

(* Without overlap the invariant holds in every reachable state. *)
LEMMA SerialInvariant ==
  ASSUME Overlap = FALSE
  PROVE  Spec => []SerialInv
<1>1. SerialInv /\ [Next]_vars => SerialInv'
  BY SerialStep
<1> QED
  BY <1>1, InitSerial, PTL DEF Spec

(* Without overlap, and whatever fails between two statements, the order table
   implements OrderStatus. *)
THEOREM SerialFollowsLifecycle ==
  ASSUME Overlap = FALSE
  PROVE  Spec => FollowsLifecycle
<1>1. Init => Lifecycle!Init
  BY DEF Init, Lifecycle!Init
<1>2. SerialInv /\ [Next]_vars => [Lifecycle!Next]_status
  BY SerialStep
<1> QED
  BY <1>1, <1>2, SerialInvariant, PTL DEF Spec, FollowsLifecycle, Lifecycle!Spec

(* Without overlap, an order whose money went back stays refunded until it is
   deleted. *)
THEOREM SerialRefundIsFinal ==
  ASSUME Overlap = FALSE
  PROVE  Spec => []RefundIsFinal
<1>1. SerialInv => RefundIsFinal
  BY DEF SerialInv
<1> QED
  BY <1>1, SerialInvariant, PTL
-----------------------------------------------------------------------------
(* Orders for sold products.

   Alone, a handler that places an order finds the products it has gone past as
   it left them: none is an exclusive product that is sold. *)

CheckedInv ==
  \A r \in Requests :
    pc[r] = "checking" => \A p \in job[r].basket \ left[r] : ~SoldOut(p)

(* Each step keeps CheckedInv: the others rest, and whatever else writes a
   product waits until nobody is at work. *)
LEMMA CheckedStep ==
  ASSUME SerialInv, CheckedInv, [Next]_vars, Overlap = FALSE
  PROVE  CheckedInv'
<1>0. TypeOK
  BY DEF SerialInv, SafetyInv
<1>1. ASSUME NEW r \in Requests, Start(r) \/ Continue(r) \/ Fail(r),
             pc'[r] = "checking" => \A p \in job'[r].basket \ left'[r] : ~SoldOut(p)'
      PROVE  CheckedInv'
  <2>1. \A q \in Requests \ {r} : pc'[q] # "checking"
    BY <1>1, OthersRest DEF Active, Working
  <2> QED
    BY <1>1, <2>1 DEF CheckedInv
<1>2. ASSUME NEW r \in Requests, NEW o \in Orders, NEW b \in Baskets, CreateStart(r, o, b)
      PROVE  CheckedInv'
  <2>1. job'[r].basket = b /\ left'[r] = b
    BY <1>0, <1>2 DEF CreateStart, Enter, CreateJob, TypeOK
  <2> QED
    BY <1>1, <1>2, <2>1 DEF Start
<1>3. ASSUME NEW r \in Requests, NEW p \in Products, CreateCheck(r, p)
      PROVE  CheckedInv'
  <2>1. CASE SoldOut(p)
    <3>1. pc'[r] = "refused"
      BY <1>0, <1>3, <2>1 DEF CreateCheck, Leave, Enter, TypeOK
    <3> QED
      BY <1>1, <1>3, <3>1 DEF Continue
  <2>2. CASE ~SoldOut(p)
    <3>1. pc[r] = "checking" /\ job' = job /\ left'[r] = left[r] \ {p} /\ UNCHANGED productVars
      BY <1>0, <1>3, <2>2 DEF CreateCheck, NextItem, TypeOK
    <3>2. \A q \in job'[r].basket \ left'[r] : ~SoldOut(q)'
      BY <2>2, <3>1 DEF CheckedInv, SoldOut, productVars
    <3> QED
      BY <1>1, <1>3, <3>2 DEF Continue
  <2> QED
    BY <2>1, <2>2
<1>4. ASSUME NEW r \in Requests, Start(r) \/ Continue(r) \/ Fail(r), pc'[r] # "checking"
      PROVE  CheckedInv'
  BY <1>1, <1>4
<1>5. ASSUME NEW r \in Requests, Start(r)
      PROVE  CheckedInv'
  <2>1. ASSUME NEW o \in Orders, NEW s \in BOOLEAN, ReadPending(r, o, s)
        PROVE  pc'[r] # "checking"
    BY <1>0, <2>1 DEF ReadPending, Enter, Leave, TypeOK
  <2>2. \/ \E o \in Orders, b \in Baskets : CreateStart(r, o, b)
        \/ pc'[r] # "checking"
    BY <1>0, <1>5, <2>1 DEF Start, Confirm, Webhook, ReadOne, ReadMany, Enter, Leave, TypeOK
  <2> QED
    BY <1>2, <1>4, <1>5, <2>2
<1>6. ASSUME NEW r \in Requests, Continue(r)
      PROVE  CheckedInv'
  <2>1. \/ \E p \in Products : CreateCheck(r, p)
        \/ pc'[r] # "checking"
    BY <1>0, <1>6 DEF Continue, MarkRead, MarkSold, CreateInsert, ConfirmWrite, ConfirmFinish,
                      WriteStatus, Announce, Refund, NextItem, Enter, Leave, TypeOK
  <2> QED
    BY <1>3, <1>4, <1>6, <2>1
<1>7. ASSUME NEW r \in Requests, Fail(r)
      PROVE  CheckedInv'
  BY <1>0, <1>4, <1>7 DEF Fail, Leave, Enter, TypeOK
<1>8. ASSUME UNCHANGED locals, UNCHANGED productVars \/ \A r \in Requests : ~Active(r)
      PROVE  CheckedInv'
  BY <1>8 DEF CheckedInv, SoldOut, locals, productVars, Active, Working
<1> QED
  BY <1>5, <1>6, <1>7, <1>8
     DEF Next, DeleteOrders, RemoveProducts, EditProduct, Alone, vars

(* The orders placed by a step hold no product that is sold. *)
PlacedFree ==
  \A o \in Orders :
    status[o] = "new" /\ status'[o] = "pending" =>
      \A p \in items'[o] : ~(listed[p] /\ exclusive[p] /\ sold[p])

LEMMA PlacedStep ==
  ASSUME SafetyInv, CheckedInv, [Next]_vars
  PROVE  PlacedFree
<1>0. TypeOK
  BY DEF SafetyInv
<1>1. ASSUME NEW r \in Requests, NEW o \in Orders, NEW m \in Methods, NEW s \in BOOLEAN,
             CreateInsert(r, o, m, s)
      PROVE  PlacedFree
  <2>1. /\ pc[r] = "checking" /\ left[r] = {} /\ items'[o] = job[r].basket
        /\ \A x \in Orders \ {o} : status'[x] = status[x]
    BY <1>0, <1>1 DEF CreateInsert, SetStatus, TypeOK
  <2>2. \A p \in job[r].basket : ~SoldOut(p)
    BY <2>1 DEF CheckedInv
  <2> QED
    BY <2>1, <2>2 DEF PlacedFree, SoldOut
<1>2. ASSUME \A o \in Orders : status'[o] # "pending" \/ status'[o] = status[o]
      PROVE  PlacedFree
  BY <1>2 DEF PlacedFree
<1>3. ASSUME NEW r \in Requests, NEW o \in Orders, ConfirmWrite(r, o)
      PROVE  PlacedFree
  BY <1>0, <1>2, <1>3 DEF ConfirmWrite, SetStatus, orderVars, TypeOK
<1>4. ASSUME NEW r \in Requests, NEW o \in Orders, WriteStatus(r, o)
      PROVE  PlacedFree
  <2>1. Allowed(job[r].seen[o], job[r].goal)
    BY <1>4 DEF WriteStatus, SafetyInv, RequestInv, UpdatingInv
  <2>2. job[r].goal # "pending"
    BY <2>1 DEF Allowed, VALID_TRANSITIONS, Live
  <2> QED
    BY <1>0, <1>2, <1>4, <2>2 DEF WriteStatus, SetStatus, orderVars, TypeOK
<1>5. ASSUME NEW os \in SUBSET Orders, DeleteOrders(os)
      PROVE  PlacedFree
  BY <1>2, <1>5 DEF DeleteOrders
<1>6. ASSUME NEW r \in Requests, Start(r) \/ Fail(r)
      PROVE  PlacedFree
  BY <1>2, <1>6 DEF Start, Fail, CreateStart, Confirm, ReadPending, Webhook, ReadOne,
                    ReadMany, orderVars
<1>7. ASSUME NEW r \in Requests,
             \/ \E p \in Products : CreateCheck(r, p) \/ MarkRead(r, p) \/ MarkSold(r, p)
             \/ \E o \in Orders : ConfirmFinish(r, o) \/ Announce(r, o)
             \/ \E o \in Orders, money \in BOOLEAN : Refund(r, o, money)
      PROVE  PlacedFree
  BY <1>2, <1>7 DEF CreateCheck, MarkRead, MarkSold, ConfirmFinish, Announce, Refund,
                    orderVars
<1>8. CASE \/ \E ps \in SUBSET Products : RemoveProducts(ps)
           \/ \E p \in Products, e \in BOOLEAN, s \in BOOLEAN : EditProduct(p, e, s)
           \/ UNCHANGED vars
  BY <1>2, <1>8 DEF RemoveProducts, EditProduct, orderVars, vars
<1> QED
  BY <1>1, <1>3, <1>4, <1>5, <1>6, <1>7, <1>8 DEF Next, Continue

(* SoldNotOrdered: while requests do not overlap, no order is placed for an
   exclusive product that is sold at the moment of the insert. *)
THEOREM SerialSoldNotOrdered ==
  ASSUME Overlap = FALSE
  PROVE  Spec => SoldNotOrdered
<1>1. Init => SerialInv /\ CheckedInv
  BY InitSerial DEF Init, CheckedInv
<1>2. SerialInv /\ CheckedInv /\ [Next]_vars => SerialInv' /\ CheckedInv' /\ [PlacedFree]_vars
  BY SerialStep, CheckedStep, PlacedStep DEF SerialInv
<1>3. Spec => [][PlacedFree]_vars
  BY <1>1, <1>2, PTL DEF Spec
<1> QED
  BY <1>3 DEF PlacedFree, SoldNotOrdered
=============================================================================
