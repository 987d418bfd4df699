------------------------- MODULE OrderLifecycleProofs -------------------------
(***************************************************************************)
(* Theorems about OrderLifecycle for any orders, products, requests and    *)
(* routes.                                                                 *)
(***************************************************************************)
EXTENDS OrderLifecycle, TLAPS

-----------------------------------------------------------------------------
(* Types *)

(* The part of TypeOK about the local variables of handlers. *)
LocalsOK ==
  /\ pc \in [Requests -> Resting \cup Working]
  /\ job \in [Requests -> Jobs]
  /\ left \in [Requests -> SUBSET (Orders \cup Products)]
  /\ cur \in [Requests -> Orders \cup Products \cup {None}]

(* Whatever a handler enters with, its local variables keep their types. *)
LEMMA EnterType ==
  ASSUME LocalsOK, NEW r \in Requests, NEW place \in Resting \cup Working,
         NEW j \in Jobs, NEW rows \in SUBSET (Orders \cup Products),
         Enter(r, place, j, rows)
  PROVE  LocalsOK'
  BY DEF Enter, LocalsOK

(* So they do when a handler ends. *)
LEMMA LeaveType ==
  ASSUME LocalsOK, NEW r \in Requests, NEW outcome \in Resting, Leave(r, outcome)
  PROVE  LocalsOK'
<1>1. NoJob \in Jobs
  BY DEF NoJob, Jobs, Statuses
<1> QED
  BY <1>1, EnterType DEF Leave

(* Every step keeps the types. *)
LEMMA TypeStep == TypeOK /\ [Next]_vars => TypeOK'
<1> SUFFICES ASSUME TypeOK, [Next]_vars PROVE TypeOK'
  OBVIOUS
<1>0. LocalsOK
  BY DEF TypeOK, LocalsOK
<1> USE <1>0 DEF orderVars, productVars, locals
<1>1. ASSUME NEW r \in Requests, NEW o \in Orders, NEW b \in Baskets,
             CreateStart(r, o, b)
      PROVE  TypeOK'
  <2>1. CreateJob(o, b) \in Jobs
    BY BasketsAssumption DEF CreateJob, Jobs, Statuses
  <2>2. LocalsOK'
    BY <1>1, <2>1, BasketsAssumption, EnterType DEF CreateStart, Working
  <2> QED
    BY <1>1, <2>1, <2>2 DEF TypeOK, LocalsOK, CreateStart
<1>2. ASSUME NEW r \in Requests, NEW o \in Orders, NEW s \in BOOLEAN,
             ReadPending(r, o, s)
      PROVE  TypeOK'
  <2>1. ConfirmJob(o, s) \in Jobs
    BY DEF ConfirmJob, Jobs, Statuses
  <2>2. LocalsOK'
    BY <1>2, <2>1, EnterType, LeaveType DEF ReadPending, Working, Resting
  <2> QED
    BY <1>2, <2>1, <2>2 DEF TypeOK, LocalsOK, ReadPending
<1>3. ASSUME NEW r \in Requests, NEW o \in Orders, NEW e,
             Webhook(r, o, e)
      PROVE  TypeOK'
  <2>1. CASE e = "completed"
    BY <1>3, <2>1, <1>2 DEF Webhook
  <2>2. CASE e # "completed"
    <3>1. LocalsOK'
      BY <1>3, <2>2, LeaveType DEF Webhook, Resting
    <3> QED
      BY <1>3, <2>2, <3>1 DEF TypeOK, LocalsOK, Webhook
  <2> QED
    BY <2>1, <2>2
<1>4. ASSUME NEW r \in Requests, NEW o \in Orders, NEW g \in Live,
             ReadOne(r, o, g)
      PROVE  TypeOK'
  <2>1. UpdateJob({o}, g, FALSE) \in Jobs
    BY DEF TypeOK, UpdateJob, Jobs, Statuses
  <2>2. LocalsOK'
    BY <1>4, <2>1, EnterType, LeaveType DEF ReadOne, Working, Resting
  <2> QED
    BY <1>4, <2>1, <2>2 DEF TypeOK, LocalsOK, ReadOne
<1>5. ASSUME NEW r \in Requests, NEW os \in SUBSET Orders, NEW g \in Live,
             ReadMany(r, os, g)
      PROVE  TypeOK'
  <2>1. \A ok \in SUBSET Orders : UpdateJob(ok, g, TRUE) \in Jobs
    BY DEF TypeOK, UpdateJob, Jobs, Statuses
  <2>2. LocalsOK'
    BY <1>5, <2>1, EnterType, LeaveType DEF ReadMany, Working, Resting
  <2> QED
    BY <1>5, <2>1, <2>2 DEF TypeOK, LocalsOK, ReadMany
<1>6. ASSUME NEW r \in Requests, NEW p \in Products,
             CreateCheck(r, p)
      PROVE  TypeOK'
  <2>1. LocalsOK'
    BY <1>6, LeaveType DEF CreateCheck, NextItem, Resting, LocalsOK
  <2> QED
    BY <1>6, <2>1 DEF TypeOK, LocalsOK, CreateCheck
<1>7. ASSUME NEW r \in Requests, NEW p \in Products,
             MarkRead(r, p)
      PROVE  TypeOK'
  <2>1. LocalsOK'
    BY <1>7 DEF MarkRead, NextItem, Working, LocalsOK
  <2> QED
    BY <1>7, <2>1 DEF TypeOK, LocalsOK, MarkRead
<1>8. ASSUME NEW r \in Requests, NEW p \in Products,
             MarkSold(r, p)
      PROVE  TypeOK'
  <2>1. job[r] \in Jobs /\ left[r] \ {p} \in SUBSET (Orders \cup Products)
    BY DEF LocalsOK
  <2>2. LocalsOK'
    BY <1>8, <2>1, EnterType, LeaveType DEF MarkSold, Resting, Working
  <2> QED
    BY <1>8, <2>1, <2>2 DEF TypeOK, LocalsOK, MarkSold
<1>9. ASSUME NEW r \in Requests, NEW o \in Orders, NEW m \in Methods, NEW s \in BOOLEAN,
             CreateInsert(r, o, m, s)
      PROVE  TypeOK'
  <2>1. job[r].basket \in SUBSET Products
    BY DEF LocalsOK, Jobs
  <2>2. LocalsOK'
    BY <1>9, <2>1, LeaveType DEF CreateInsert, Resting
  <2> QED
    BY <1>9, <2>1, <2>2 DEF TypeOK, LocalsOK, CreateInsert, SetStatus, Statuses, Live
<1>10. ASSUME NEW r \in Requests, NEW o \in Orders,
             ConfirmWrite(r, o)
      PROVE  TypeOK'
  <2>1. job[r] \in Jobs /\ items[o] \in SUBSET (Orders \cup Products)
    BY DEF LocalsOK, TypeOK
  <2>2. LocalsOK'
    BY <1>10, <2>1, EnterType, LeaveType DEF ConfirmWrite, Resting, Working
  <2>3. CASE Exists(o)
    <3>1. status' \in [Orders -> Statuses] /\ visited' \in [Orders -> SUBSET Statuses]
      BY <1>10, <2>3 DEF TypeOK, ConfirmWrite, SetStatus, Statuses, Live
    <3>2. session' \in [Orders -> BOOLEAN]
      BY <1>10, <2>3 DEF TypeOK, ConfirmWrite
    <3> QED
      BY <1>10, <2>2, <2>3, <3>1, <3>2 DEF TypeOK, LocalsOK, ConfirmWrite
  <2>4. CASE ~Exists(o)
    BY <1>10, <2>2, <2>4 DEF TypeOK, LocalsOK, ConfirmWrite
  <2> QED
    BY <2>3, <2>4
<1>11. ASSUME NEW r \in Requests, NEW o \in Orders,
             ConfirmFinish(r, o)
      PROVE  TypeOK'
  <2>1. LocalsOK'
    BY <1>11 DEF ConfirmFinish, Resting, LocalsOK
  <2> QED
    BY <1>11, <2>1 DEF TypeOK, LocalsOK, ConfirmFinish, Statuses, Live
<1>12. ASSUME NEW r \in Requests, NEW o \in Orders,
             WriteStatus(r, o)
      PROVE  TypeOK'
  <2>1. job[r].goal \in Statuses
    BY DEF LocalsOK, Jobs
  <2>2. LocalsOK'
    BY <1>12, <2>1, LeaveType DEF WriteStatus, Resting, Working, LocalsOK
  <2> QED
    BY <1>12, <2>1, <2>2 DEF TypeOK, LocalsOK, WriteStatus, SetStatus
<1>13. ASSUME NEW r \in Requests, NEW o \in Orders,
             Announce(r, o)
      PROVE  TypeOK'
  <2>1. job[r] \in Jobs /\ left[r] \in SUBSET (Orders \cup Products)
    BY DEF LocalsOK
  <2>2. Sent(r, o) \in Statuses
    BY DEF Sent, Jobs, LocalsOK
  <2>3. LocalsOK'
    BY <1>13, <2>1, <2>2, EnterType, LeaveType DEF Announce, Resting, Working
  <2> QED
    BY <1>13, <2>1, <2>2, <2>3 DEF TypeOK, LocalsOK, Announce
<1>14. ASSUME NEW r \in Requests, NEW o \in Orders, NEW money \in BOOLEAN,
             Refund(r, o, money)
      PROVE  TypeOK'
  <2>1. LocalsOK'
    BY <1>14 DEF Refund, Working, LocalsOK
  <2> QED
    BY <1>14, <2>1 DEF TypeOK, LocalsOK, Refund
<1>15. ASSUME NEW r \in Requests,
             Fail(r)
      PROVE  TypeOK'
  <2>1. LocalsOK'
    BY <1>15, LeaveType DEF Fail, Resting
  <2> QED
    BY <1>15, <2>1 DEF TypeOK, LocalsOK, Fail
<1>16. ASSUME NEW os \in SUBSET Orders,
             DeleteOrders(os)
      PROVE  TypeOK'
  <2>1. LocalsOK'
    BY <1>16 DEF DeleteOrders, LocalsOK
  <2> QED
    BY <1>16, <2>1 DEF TypeOK, LocalsOK, DeleteOrders, Statuses
<1>17. ASSUME NEW ps \in SUBSET Products,
             RemoveProducts(ps)
      PROVE  TypeOK'
  <2>1. LocalsOK'
    BY <1>17 DEF RemoveProducts, LocalsOK
  <2> QED
    BY <1>17, <2>1 DEF TypeOK, LocalsOK, RemoveProducts
<1>18. ASSUME NEW p \in Products, NEW e \in BOOLEAN, NEW s \in BOOLEAN,
             EditProduct(p, e, s)
      PROVE  TypeOK'
  <2>1. LocalsOK'
    BY <1>18 DEF EditProduct, LocalsOK
  <2> QED
    BY <1>18, <2>1 DEF TypeOK, LocalsOK, EditProduct
<1>19. CASE UNCHANGED vars
  BY <1>19 DEF TypeOK, vars
<1> QED
  BY <1>1, <1>2, <1>3, <1>4, <1>5, <1>6, <1>7, <1>8, <1>9, <1>10, <1>11, <1>12,
     <1>13, <1>14, <1>15, <1>16, <1>17, <1>18, <1>19
     DEF Next, Start, Continue, Confirm

(* Every reachable state is well typed. *)
THEOREM TypeCorrect == Spec => []TypeOK
<1>1. Init => TypeOK
  BY DEF Init, TypeOK, NoJob, Jobs, Statuses, Resting
<1> QED
  BY <1>1, TypeStep, PTL DEF Spec

-----------------------------------------------------------------------------
(* The history of an order.

   A handler writes a status on the strength of one it read earlier, so nothing
   can be said of the status at the time of the write.  What survives is the
   history: a status once read has been held, and holding it was enough for the
   write to leave a legal predecessor behind.  HistoryInv says so of the rows
   and RequestInv of the handlers under way. *)

HistoryInv ==
  /\ \A o \in Orders : status[o] \in visited[o]
  /\ \A o \in Orders : status[o] = "new" => visited[o] = {"new"}
  /\ \A o \in Orders : "paid" \in visited[o] => status[o] \in PaidOn \cup {"deleted"}
  /\ LegalHistory

CheckingInv(r) ==
  pc[r] = "checking" => job[r].order \in Orders /\ status[job[r].order] = "new"

ConfirmingInv(r) ==
  pc[r] = "confirming" =>
    job[r].order \in Orders /\ "pending" \in visited[job[r].order]

MarkingInv(r) ==
  pc[r] \in {"marking", "selling", "confirmed"} =>
    /\ job[r].order \in Orders
    /\ "paid" \in visited[job[r].order]
    /\ left[r] \subseteq items[job[r].order]
    /\ pc[r] = "selling" => cur[r] \in left[r]

UpdatingInv(r) ==
  pc[r] \in {"writing", "refunding", "announcing"} =>
    /\ \A o \in left[r] : /\ o \in Orders
                          /\ job[r].seen[o] \in visited[o]
                          /\ Allowed(job[r].seen[o], job[r].goal)
    /\ \A o \in job[r].gateway : method[o] = "stripe" /\ status[o] # "new"

RefundingInv(r) ==
  pc[r] = "refunding" =>
    cur[r] \in Orders /\ {"paid", "refunded"} \subseteq visited[cur[r]]

RequestInv(r) ==
  /\ CheckingInv(r)
  /\ ConfirmingInv(r)
  /\ MarkingInv(r)
  /\ UpdatingInv(r)
  /\ RefundingInv(r)

TokensInv ==
  \A q, r \in Requests :
    pc[q] = "checking" /\ pc[r] = "checking" /\ job[q].order = job[r].order => q = r

SafetyInv ==
  /\ TypeOK
  /\ HistoryInv
  /\ \A r \in Requests : RequestInv(r)
  /\ TokensInv
  /\ MoneyBackOnRecord

(* The table of transitions only has edges of OrderStatus. *)
LEMMA AllowedEdge ==
  ASSUME NEW s, NEW g, Allowed(s, g)
  PROVE  /\ <<s, g>> \in Lifecycle!Edges
         /\ g \in PaidOn
         /\ g = "paid" \/ s \in {"paid", "delivered"}
  BY DEF Allowed, VALID_TRANSITIONS, Live, Lifecycle!Edges, PaidOn

(* An order that ever went beyond pending was paid. *)
LEMMA PaidInHistory ==
  ASSUME LegalHistory, NEW o \in Orders, visited[o] \cap PaidOn # {}
  PROVE  "paid" \in visited[o]
  BY DEF LegalHistory, PaidOn, Lifecycle!Edges

(* What every step does to the order table: histories grow, and an existing row
   keeps its items and its payment method. *)
Grows ==
  \A o \in Orders :
    /\ visited[o] \subseteq visited'[o]
    /\ status[o] # "new" => /\ status'[o] # "new"
                            /\ items'[o] = items[o]
                            /\ method'[o] = method[o]

(* A handler that does not move is not disturbed by such a step. *)
LEMMA Undisturbed ==
  ASSUME TypeOK, HistoryInv, NEW q \in Requests, RequestInv(q), Grows,
         pc'[q] = pc[q], job'[q] = job[q], left'[q] = left[q], cur'[q] = cur[q],
         pc[q] = "checking" => status'[job[q].order] = status[job[q].order]
  PROVE  RequestInv(q)'
<1>1. CheckingInv(q)'
  BY DEF RequestInv, CheckingInv
<1>2. ConfirmingInv(q)'
  BY DEF RequestInv, ConfirmingInv, Grows
<1>3. MarkingInv(q)'
  BY DEF RequestInv, MarkingInv, Grows, HistoryInv
<1>4. UpdatingInv(q)'
  <2>1. job[q].gateway \subseteq Orders
    BY DEF TypeOK, Jobs
  <2> QED
    BY <2>1 DEF RequestInv, UpdatingInv, Grows
<1>5. RefundingInv(q)'
  BY DEF RequestInv, RefundingInv, Grows
<1> QED
  BY <1>1, <1>2, <1>3, <1>4, <1>5 DEF RequestInv

(* A handler at rest has nothing to keep. *)
LEMMA AtRest ==
  ASSUME NEW r \in Requests, pc[r] \in Resting \ {"confirmed"}
  PROVE  RequestInv(r)
  BY DEF Resting, RequestInv, CheckingInv, ConfirmingInv, MarkingInv, UpdatingInv,
         RefundingInv

(* A step of the handler r that leaves the order table alone. *)
LEMMA LocalStep ==
  ASSUME TypeOK, TypeOK', HistoryInv, \A q \in Requests : RequestInv(q), TokensInv,
         NEW r \in Requests, UNCHANGED orderVars,
         \A q \in Requests \ {r} : /\ pc'[q] = pc[q] /\ job'[q] = job[q]
                                   /\ left'[q] = left[q] /\ cur'[q] = cur[q],
         RequestInv(r)',
         pc'[r] = "checking" =>
           \A q \in Requests \ {r} : pc[q] = "checking" => job[q].order # job'[r].order
  PROVE  HistoryInv' /\ (\A q \in Requests : RequestInv(q)') /\ TokensInv'
<1>1. HistoryInv'
  BY DEF orderVars, HistoryInv, LegalHistory
<1>2. Grows
  BY DEF orderVars, Grows
<1>3. ASSUME NEW q \in Requests PROVE RequestInv(q)'
  <2>1. CASE q = r
    BY <2>1
  <2>2. CASE q # r
    BY <1>2, <2>2, Undisturbed DEF orderVars
  <2> QED
    BY <2>1, <2>2
<1>4. TokensInv'
  BY DEF TokensInv
<1> QED
  BY <1>1, <1>3, <1>4

(* A step of the handler r that writes the order o, which exists, in status g:
   the order's history holds a status that may precede g. *)
LEMMA WriteStep ==
  ASSUME TypeOK, HistoryInv, \A q \in Requests : RequestInv(q), TokensInv,
         NEW r \in Requests, NEW o \in Orders, NEW g \in PaidOn,
         Exists(o), SetStatus(o, g), UNCHANGED <<items, method>>,
         \E s \in visited[o] : <<s, g>> \in Lifecycle!Edges,
         g # "paid" => "paid" \in visited[o],
         \A q \in Requests \ {r} : /\ pc'[q] = pc[q] /\ job'[q] = job[q]
                                   /\ left'[q] = left[q] /\ cur'[q] = cur[q],
         pc'[r] # "checking"
  PROVE  /\ HistoryInv'
         /\ Grows
         /\ \A q \in Requests \ {r} : RequestInv(q)'
         /\ TokensInv'
<1>1. /\ status' = [status EXCEPT ![o] = g]
      /\ visited' = [visited EXCEPT ![o] = @ \cup {g}]
  BY DEF SetStatus
<1>2. status[o] # "new" /\ g \notin {"new", "deleted", "pending"}
  BY DEF Exists, Live, PaidOn
<1>3. Grows
  BY <1>1, <1>2 DEF Grows, TypeOK
<1>4. HistoryInv'
  <2>1. \A x \in Orders : status'[x] \in visited'[x]
    BY <1>1 DEF HistoryInv, TypeOK
  <2>2. \A x \in Orders : status'[x] = "new" => visited'[x] = {"new"}
    BY <1>1, <1>2 DEF HistoryInv, TypeOK
  <2>3. \A x \in Orders : "paid" \in visited'[x] => status'[x] \in PaidOn \cup {"deleted"}
    BY <1>1 DEF HistoryInv, TypeOK
  <2>4. LegalHistory'
    BY <1>1 DEF HistoryInv, LegalHistory, TypeOK
  <2> QED
    BY <2>1, <2>2, <2>3, <2>4 DEF HistoryInv
<1>5. ASSUME NEW q \in Requests \ {r} PROVE RequestInv(q)'
  <2>1. pc[q] = "checking" => status'[job[q].order] = status[job[q].order]
    BY <1>1, <1>2 DEF RequestInv, CheckingInv, TypeOK
  <2> QED
    BY <1>3, <2>1, Undisturbed
<1>6. TokensInv'
  BY DEF TokensInv
<1> QED
  BY <1>3, <1>4, <1>5, <1>6

(* Refunds on record stay on record when the table grows. *)
LEMMA RefundsKept ==
  ASSUME TypeOK, HistoryInv, MoneyBackOnRecord, Grows, UNCHANGED returned
  PROVE  MoneyBackOnRecord'
<1>1. \A o \in returned : o \in Orders /\ status[o] # "new"
  BY DEF TypeOK, HistoryInv, MoneyBackOnRecord
<1> QED
  BY <1>1 DEF Grows, MoneyBackOnRecord

(* Every step keeps the inductive invariant. *)
LEMMA SafetyStep == SafetyInv /\ [Next]_vars => SafetyInv'
<1> SUFFICES ASSUME SafetyInv, [Next]_vars PROVE SafetyInv'
  OBVIOUS
<1> USE DEF SafetyInv
<1>0. TypeOK'
  BY TypeStep
<1>a. UNCHANGED orderVars => Grows
  BY DEF orderVars, Grows
<1> DEFINE Moved(r) == \A q \in Requests \ {r} :
                         /\ pc'[q] = pc[q] /\ job'[q] = job[q]
                         /\ left'[q] = left[q] /\ cur'[q] = cur[q]
<1>e. ASSUME NEW r \in Requests, NEW place, NEW j, NEW rows, Enter(r, place, j, rows)
      PROVE  /\ Moved(r)
             /\ pc'[r] = place /\ job'[r] = j /\ left'[r] = rows /\ cur'[r] = None
  BY <1>e DEF Enter, TypeOK
<1>l. ASSUME NEW r \in Requests, NEW outcome \in Resting \ {"confirmed"},
             Leave(r, outcome)
      PROVE  Moved(r) /\ pc'[r] = outcome /\ RequestInv(r)'
  <2>1. Moved(r) /\ pc'[r] = outcome
    BY <1>l, <1>e DEF Leave
  <2> QED
    BY <2>1 DEF Resting, RequestInv, CheckingInv, ConfirmingInv, MarkingInv,
                UpdatingInv, RefundingInv
<1>m. ASSUME NEW r \in Requests, UNCHANGED <<orderVars, returned>>,
             Moved(r), RequestInv(r)', pc'[r] # "checking"
      PROVE  SafetyInv'
  BY <1>0, <1>a, <1>m, LocalStep, RefundsKept
<1> HIDE DEF Moved
<1>1. ASSUME NEW r \in Requests, NEW o \in Orders, NEW b \in Baskets,
             CreateStart(r, o, b)
      PROVE  SafetyInv'
  <2>1. /\ Moved(r) /\ pc'[r] = "checking" /\ job'[r].order = o
        /\ UNCHANGED <<orderVars, returned>> /\ status'[o] = "new"
    BY <1>1, <1>e DEF CreateStart, CreateJob, orderVars
  <2>2. RequestInv(r)'
    BY <2>1 DEF RequestInv, CheckingInv, ConfirmingInv, MarkingInv, UpdatingInv,
                RefundingInv
  <2>3. \A q \in Requests \ {r} : job[q].order # job'[r].order
    BY <1>1, <2>1 DEF CreateStart
  <2>4. HistoryInv' /\ (\A q \in Requests : RequestInv(q)') /\ TokensInv'
    BY <1>0, <2>1, <2>2, <2>3, LocalStep DEF Moved
  <2> QED
    BY <1>0, <1>a, <2>1, <2>4, RefundsKept
<1>2. ASSUME NEW r \in Requests, NEW o \in Orders, NEW s \in BOOLEAN,
             ReadPending(r, o, s)
      PROVE  SafetyInv'
  <2>1. CASE status[o] = "pending"
    <3>1. /\ Moved(r) /\ pc'[r] = "confirming" /\ job'[r].order = o
          /\ UNCHANGED <<orderVars, returned>>
      BY <1>2, <2>1, <1>e DEF ReadPending, ConfirmJob, orderVars
    <3>2. "pending" \in visited'[o]
      BY <2>1, <3>1 DEF HistoryInv, orderVars
    <3>3. RequestInv(r)'
      BY <3>1, <3>2 DEF RequestInv, CheckingInv, ConfirmingInv, MarkingInv,
                        UpdatingInv, RefundingInv
    <3> QED
      BY <3>1, <3>3, <1>m
  <2>2. CASE status[o] # "pending"
    BY <1>2, <2>2, <1>l, <1>m DEF ReadPending, Resting
  <2> QED
    BY <2>1, <2>2
<1>3. ASSUME NEW r \in Requests, NEW o \in Orders, NEW e, Webhook(r, o, e)
      PROVE  SafetyInv'
  <2>1. CASE e = "completed"
    BY <1>3, <2>1, <1>2 DEF Webhook
  <2>2. CASE e # "completed"
    BY <1>3, <2>2, <1>l, <1>m DEF Webhook, Resting
  <2> QED
    BY <2>1, <2>2
<1>u. ASSUME NEW r \in Requests, NEW os \in SUBSET Orders, NEW g, NEW bulk,
             \A o \in os : Allowed(status[o], g),
             Enter(r, "writing", UpdateJob(os, g, bulk), os),
             UNCHANGED <<orderVars, returned>>
      PROVE  SafetyInv'
  <2>1. /\ Moved(r) /\ pc'[r] = "writing" /\ left'[r] = os
        /\ job'[r] = UpdateJob(os, g, bulk)
    BY <1>u, <1>e
  <2>2. /\ job'[r].goal = g
        /\ \A o \in os : job'[r].seen[o] = status[o]
        /\ job'[r].gateway = {o \in os : ViaGateway(o)}
    BY <2>1 DEF UpdateJob
  <2>3. UpdatingInv(r)'
    <3>1. \A o \in os : job'[r].seen[o] \in visited'[o] /\ Allowed(job'[r].seen[o], g)
      BY <1>u, <2>2 DEF HistoryInv, orderVars
    <3>2. \A o \in job'[r].gateway : method'[o] = "stripe" /\ status'[o] # "new"
      BY <1>u, <2>2 DEF ViaGateway, Allowed, Live, orderVars
    <3> QED
      BY <2>1, <2>2, <3>1, <3>2 DEF UpdatingInv
  <2>4. RequestInv(r)'
    BY <2>1, <2>3 DEF RequestInv, CheckingInv, ConfirmingInv, MarkingInv, RefundingInv
  <2> QED
    BY <1>u, <2>1, <2>4, <1>m
<1>4. ASSUME NEW r \in Requests, NEW o \in Orders, NEW g \in Live, ReadOne(r, o, g)
      PROVE  SafetyInv'
  <2>1. CASE Allowed(status[o], g)
    <3>1. \A x \in {o} : Allowed(status[x], g)
      BY <2>1
    <3> QED
      BY <1>4, <2>1, <3>1, <1>u DEF ReadOne
  <2>2. CASE ~Allowed(status[o], g)
    BY <1>4, <2>2, <1>l, <1>m DEF ReadOne, Resting
  <2> QED
    BY <2>1, <2>2
<1>5. ASSUME NEW r \in Requests, NEW os \in SUBSET Orders, NEW g \in Live,
             ReadMany(r, os, g)
      PROVE  SafetyInv'
  <2> DEFINE ok == {o \in os : Allowed(status[o], g)}
  <2>0. UNCHANGED <<orderVars, returned>> /\ ok \in SUBSET Orders
    BY <1>5 DEF ReadMany
  <2>1. CASE ok = {}
    <3>1. Leave(r, "done")
      BY <1>5, <2>1 DEF ReadMany
    <3> QED
      BY <2>0, <3>1, <1>l, <1>m DEF Resting
  <2>2. CASE ok # {}
    <3>1. Enter(r, "writing", UpdateJob(ok, g, TRUE), ok)
      BY <1>5, <2>2 DEF ReadMany
    <3>2. \A o \in ok : Allowed(status[o], g)
      OBVIOUS
    <3> HIDE DEF ok
    <3> QED
      BY <2>0, <3>1, <3>2, <1>u
  <2> QED
    BY <2>1, <2>2
<1>6. ASSUME NEW r \in Requests, NEW p \in Products, CreateCheck(r, p)
      PROVE  SafetyInv'
  <2>0. UNCHANGED <<orderVars, returned>> /\ pc[r] = "checking"
    BY <1>6 DEF CreateCheck
  <2>1. CASE SoldOut(p)
    BY <1>6, <2>0, <2>1, <1>l, <1>m DEF CreateCheck, Resting
  <2>2. CASE ~SoldOut(p)
    <3>1. /\ Moved(r) /\ pc'[r] = pc[r] /\ job'[r] = job[r] /\ pc' = pc /\ job' = job
      BY <1>6, <2>2 DEF CreateCheck, NextItem, TypeOK, Moved
    <3>2. RequestInv(r)'
      BY <2>0, <3>1 DEF RequestInv, CheckingInv, ConfirmingInv, MarkingInv,
                        UpdatingInv, RefundingInv, orderVars
    <3>3. HistoryInv' /\ (\A q \in Requests : RequestInv(q)') /\ TokensInv'
      <4>1. \A q \in Requests \ {r} : pc[q] = "checking" => job[q].order # job'[r].order
        BY <2>0, <3>1 DEF TokensInv
      <4> QED
        BY <1>0, <2>0, <3>1, <3>2, <4>1, LocalStep DEF Moved
    <3> QED
      BY <1>0, <1>a, <2>0, <3>3, RefundsKept
  <2> QED
    BY <2>1, <2>2
<1>7. ASSUME NEW r \in Requests, NEW p \in Products, MarkRead(r, p)
      PROVE  SafetyInv'
  <2>0. UNCHANGED <<orderVars, returned>> /\ pc[r] = "marking" /\ p \in left[r]
    BY <1>7 DEF MarkRead
  <2>1. /\ Moved(r) /\ pc'[r] \in {"marking", "selling"} /\ job'[r] = job[r]
        /\ left'[r] \subseteq left[r] /\ (pc'[r] = "selling" => cur'[r] \in left'[r])
    BY <1>7, <2>0 DEF MarkRead, NextItem, TypeOK, Moved
  <2>2. RequestInv(r)'
    BY <2>0, <2>1 DEF RequestInv, CheckingInv, ConfirmingInv, MarkingInv,
                      UpdatingInv, RefundingInv, orderVars
  <2> QED
    BY <2>0, <2>1, <2>2, <1>m
<1>8. ASSUME NEW r \in Requests, NEW p \in Products, MarkSold(r, p)
      PROVE  SafetyInv'
  <2>0. UNCHANGED <<orderVars, returned>> /\ pc[r] = "selling"
    BY <1>8 DEF MarkSold
  <2>1. CASE listed[p]
    <3>1. /\ Moved(r) /\ pc'[r] = "marking" /\ job'[r] = job[r]
          /\ left'[r] = left[r] \ {p}
      BY <1>8, <2>1, <1>e DEF MarkSold
    <3>2. RequestInv(r)'
      BY <2>0, <3>1 DEF RequestInv, CheckingInv, ConfirmingInv, MarkingInv,
                        UpdatingInv, RefundingInv, orderVars
    <3> QED
      BY <2>0, <3>1, <3>2, <1>m
  <2>2. CASE ~listed[p]
    BY <1>8, <2>0, <2>2, <1>l, <1>m DEF MarkSold, Resting
  <2> QED
    BY <2>1, <2>2
<1>9. ASSUME NEW r \in Requests, NEW o \in Orders, NEW m \in Methods,
             NEW s \in BOOLEAN, CreateInsert(r, o, m, s)
      PROVE  SafetyInv'
  <2>1. /\ pc[r] = "checking" /\ o = job[r].order /\ status[o] = "new"
        /\ visited[o] = {"new"}
        /\ status' = [status EXCEPT ![o] = "pending"]
        /\ visited' = [visited EXCEPT ![o] = @ \cup {"pending"}]
        /\ items' = [items EXCEPT ![o] = job[r].basket]
        /\ method' = [method EXCEPT ![o] = m]
        /\ UNCHANGED returned
    BY <1>9 DEF CreateInsert, SetStatus, RequestInv, CheckingInv, HistoryInv
  <2>2. Moved(r) /\ pc'[r] = "done" /\ RequestInv(r)'
    BY <1>9, <1>l DEF CreateInsert, Resting
  <2>3. Grows
    BY <2>1 DEF Grows, TypeOK
  <2>4. HistoryInv'
    <3>1. \A x \in Orders : status'[x] \in visited'[x]
      BY <2>1 DEF HistoryInv, TypeOK
    <3>2. \A x \in Orders : status'[x] = "new" => visited'[x] = {"new"}
      BY <2>1 DEF HistoryInv, TypeOK
    <3>3. \A x \in Orders : "paid" \in visited'[x] => status'[x] \in PaidOn \cup {"deleted"}
      BY <2>1 DEF HistoryInv, TypeOK
    <3>4. LegalHistory'
      <4>1. <<"new", "pending">> \in Lifecycle!Edges
        BY DEF Lifecycle!Edges
      <4> QED
        BY <2>1, <4>1 DEF HistoryInv, LegalHistory, TypeOK
    <3> QED
      BY <3>1, <3>2, <3>3, <3>4 DEF HistoryInv
  <2>5. ASSUME NEW q \in Requests \ {r} PROVE RequestInv(q)'
    <3>1. pc[q] = "checking" => status'[job[q].order] = status[job[q].order]
      BY <2>1 DEF RequestInv, CheckingInv, TokensInv, TypeOK
    <3> QED
      BY <2>2, <2>3, <3>1, Undisturbed DEF Moved
  <2>6. TokensInv'
    BY <2>2 DEF TokensInv, Moved
  <2> QED
    BY <1>0, <2>1, <2>2, <2>3, <2>4, <2>5, <2>6, RefundsKept
<1>10. ASSUME NEW r \in Requests, NEW o \in Orders, ConfirmWrite(r, o)
       PROVE  SafetyInv'
  <2>0. pc[r] = "confirming" /\ o = job[r].order /\ UNCHANGED returned
    BY <1>10 DEF ConfirmWrite
  <2>1. CASE Exists(o)
    <3>1. /\ SetStatus(o, "paid") /\ UNCHANGED <<items, method>>
          /\ Moved(r) /\ pc'[r] = "marking" /\ job'[r] = job[r] /\ left'[r] = items[o]
      BY <1>10, <2>1, <1>e DEF ConfirmWrite
    <3>2. "pending" \in visited[o] /\ <<"pending", "paid">> \in Lifecycle!Edges
      BY <2>0 DEF RequestInv, ConfirmingInv, Lifecycle!Edges
    <3>3. /\ HistoryInv' /\ Grows /\ TokensInv'
          /\ \A q \in Requests \ {r} : RequestInv(q)'
      BY <2>1, <3>1, <3>2, WriteStep, "paid" \in PaidOn DEF Moved, PaidOn
    <3>4. "paid" \in visited'[o]
      BY <3>1 DEF SetStatus, TypeOK
    <3>5. RequestInv(r)'
      BY <2>0, <3>1, <3>4 DEF RequestInv, CheckingInv, ConfirmingInv, MarkingInv,
                              UpdatingInv, RefundingInv
    <3> QED
      BY <1>0, <2>0, <3>3, <3>5, RefundsKept
  <2>2. CASE ~Exists(o)
    BY <1>10, <2>0, <2>2, <1>l, <1>m DEF ConfirmWrite, Resting
  <2> QED
    BY <2>1, <2>2
<1>11. ASSUME NEW r \in Requests, NEW o \in Orders, ConfirmFinish(r, o)
       PROVE  SafetyInv'
  <2>1. /\ UNCHANGED <<orderVars, returned>> /\ pc[r] = "marking"
        /\ Moved(r) /\ pc'[r] = "confirmed" /\ job' = job /\ left' = left
    BY <1>11 DEF ConfirmFinish, TypeOK, Moved
  <2>2. RequestInv(r)'
    BY <2>1 DEF RequestInv, CheckingInv, ConfirmingInv, MarkingInv,
                UpdatingInv, RefundingInv, orderVars
  <2> QED
    BY <2>1, <2>2, <1>m
<1>12. ASSUME NEW r \in Requests, NEW o \in Orders, WriteStatus(r, o)
       PROVE  SafetyInv'
  <2> DEFINE g == job[r].goal
             s == job[r].seen[o]
  <2>0. pc[r] = "writing" /\ o \in left[r] /\ UNCHANGED returned
    BY <1>12 DEF WriteStatus
  <2>1. CASE Exists(o)
    <3>1. /\ SetStatus(o, g) /\ UNCHANGED <<items, method, job>>
          /\ Moved(r) /\ cur'[r] = o /\ left'[r] = left[r] \ {o}
          /\ pc'[r] = IF g = "refunded" THEN "refunding" ELSE "announcing"
      BY <1>12, <2>1 DEF WriteStatus, TypeOK, Moved
    <3>2. s \in visited[o] /\ Allowed(s, g)
      BY <2>0 DEF RequestInv, UpdatingInv
    <3>3. /\ <<s, g>> \in Lifecycle!Edges /\ g \in PaidOn
          /\ g # "paid" => "paid" \in visited[o]
      BY <3>2, AllowedEdge, PaidInHistory DEF HistoryInv, PaidOn
    <3>4. /\ HistoryInv' /\ Grows /\ TokensInv'
          /\ \A q \in Requests \ {r} : RequestInv(q)'
      BY <2>1, <3>1, <3>2, <3>3, WriteStep DEF Moved
    <3>5. UpdatingInv(r)'
      <4>1. job[r].gateway \subseteq Orders
        BY DEF TypeOK, Jobs
      <4> QED
        BY <2>0, <3>1, <3>4, <4>1 DEF RequestInv, UpdatingInv, Grows
    <3>6. RefundingInv(r)'
      BY <3>1, <3>3 DEF RefundingInv, SetStatus, TypeOK
    <3>7. RequestInv(r)'
      BY <3>1, <3>5, <3>6 DEF RequestInv, CheckingInv, ConfirmingInv, MarkingInv
    <3> QED
      BY <1>0, <2>0, <3>4, <3>7, RefundsKept
  <2>2. CASE ~Exists(o)
    BY <1>12, <2>0, <2>2, <1>l, <1>m DEF WriteStatus, Resting
  <2> QED
    BY <2>1, <2>2
<1>13. ASSUME NEW r \in Requests, NEW o \in Orders, Announce(r, o)
       PROVE  SafetyInv'
  <2>0. UNCHANGED <<orderVars, returned>> /\ pc[r] = "announcing"
    BY <1>13 DEF Announce
  <2>1. CASE left[r] = {}
    BY <1>13, <2>0, <2>1, <1>l, <1>m DEF Announce, Resting
  <2>2. CASE left[r] # {}
    <3>1. /\ Moved(r) /\ pc'[r] = "writing" /\ job'[r] = job[r] /\ left'[r] = left[r]
      BY <1>13, <2>2, <1>e DEF Announce
    <3>2. RequestInv(r)'
      BY <2>0, <3>1 DEF RequestInv, CheckingInv, ConfirmingInv, MarkingInv,
                        UpdatingInv, RefundingInv, orderVars
    <3> QED
      BY <2>0, <3>1, <3>2, <1>m
  <2> QED
    BY <2>1, <2>2
<1>14. ASSUME NEW r \in Requests, NEW o \in Orders, NEW money \in BOOLEAN,
              Refund(r, o, money)
       PROVE  SafetyInv'
  <2>1. /\ UNCHANGED orderVars /\ pc[r] = "refunding" /\ o = cur[r]
        /\ Moved(r) /\ pc'[r] = "announcing" /\ job' = job /\ left' = left
        /\ money => o \in job[r].gateway
        /\ returned' = IF money THEN returned \cup {o} ELSE returned
    BY <1>14 DEF Refund, TypeOK, Moved
  <2>2. RequestInv(r)'
    BY <2>1 DEF RequestInv, CheckingInv, ConfirmingInv, MarkingInv,
                UpdatingInv, RefundingInv, orderVars
  <2>3. HistoryInv' /\ (\A q \in Requests : RequestInv(q)') /\ TokensInv'
    BY <1>0, <2>1, <2>2, LocalStep DEF Moved
  <2>4. MoneyBackOnRecord'
    BY <2>1 DEF MoneyBackOnRecord, RequestInv, UpdatingInv, RefundingInv, orderVars
  <2> QED
    BY <1>0, <2>3, <2>4
<1>15. ASSUME NEW r \in Requests, Fail(r)
       PROVE  SafetyInv'
  BY <1>15, <1>l, <1>m DEF Fail, Resting
<1>16. ASSUME NEW os \in SUBSET Orders, DeleteOrders(os)
       PROVE  SafetyInv'
  <2> DEFINE gone == {o \in os : Exists(o)}
  <2>1. /\ status' = [o \in Orders |-> IF o \in gone THEN "deleted" ELSE status[o]]
        /\ visited' = [o \in Orders |-> IF o \in gone THEN visited[o] \cup {"deleted"}
                                        ELSE visited[o]]
        /\ UNCHANGED <<items, method, returned, pc, job, left, cur>>
    BY <1>16 DEF DeleteOrders, locals
  <2>2. \A o \in gone : status[o] \in Live
    BY DEF Exists
  <2> HIDE DEF gone
  <2>3. Grows
    BY <2>1 DEF Grows, TypeOK
  <2>4. HistoryInv'
    <3>1. \A x \in Orders : status'[x] \in visited'[x]
      BY <2>1 DEF HistoryInv, TypeOK
    <3>2. \A x \in Orders : status'[x] = "new" => visited'[x] = {"new"}
      BY <2>1 DEF HistoryInv, TypeOK
    <3>3. \A x \in Orders : "paid" \in visited'[x] => status'[x] \in PaidOn \cup {"deleted"}
      BY <2>1 DEF HistoryInv, TypeOK
    <3>4. LegalHistory'
      BY <2>1 DEF HistoryInv, LegalHistory, TypeOK
    <3> QED
      BY <3>1, <3>2, <3>3, <3>4 DEF HistoryInv
  <2>5. ASSUME NEW q \in Requests PROVE RequestInv(q)'
    <3>1. pc[q] = "checking" => status'[job[q].order] = status[job[q].order]
      BY <2>1, <2>2 DEF RequestInv, CheckingInv, Live
    <3> QED
      BY <2>1, <2>3, <3>1, Undisturbed
  <2>6. TokensInv'
    BY <2>1 DEF TokensInv
  <2> QED
    BY <1>0, <2>1, <2>3, <2>4, <2>5, <2>6, RefundsKept
<1>n. ASSUME UNCHANGED <<orderVars, returned, locals>>
      PROVE  SafetyInv'
  <2>1. Grows
    BY <1>n, <1>a
  <2>2. HistoryInv' /\ TokensInv'
    BY <1>n DEF orderVars, locals, HistoryInv, LegalHistory, TokensInv
  <2>3. ASSUME NEW q \in Requests PROVE RequestInv(q)'
    BY <1>n, <2>1, Undisturbed DEF orderVars, locals
  <2> QED
    BY <1>0, <1>n, <2>1, <2>2, <2>3, RefundsKept
<1>17. ASSUME NEW ps \in SUBSET Products, RemoveProducts(ps)
       PROVE  SafetyInv'
  BY <1>17, <1>n DEF RemoveProducts
<1>18. ASSUME NEW p \in Products, NEW e \in BOOLEAN, NEW s \in BOOLEAN,
              EditProduct(p, e, s)
       PROVE  SafetyInv'
  BY <1>18, <1>n DEF EditProduct
<1>19. CASE UNCHANGED vars
  BY <1>19, <1>n DEF vars
<1> QED
  BY <1>1, <1>2, <1>3, <1>4, <1>5, <1>6, <1>7, <1>8, <1>9, <1>10, <1>11, <1>12,
     <1>13, <1>14, <1>15, <1>16, <1>17, <1>18, <1>19
     DEF Next, Start, Continue, Confirm

(* The first state satisfies the inductive invariant. *)
LEMMA InitSafe == Init => SafetyInv
<1> SUFFICES ASSUME Init PROVE SafetyInv
  OBVIOUS
<1>1. TypeOK
  BY DEF Init, TypeOK, NoJob, Jobs, Statuses, Resting
<1>2. HistoryInv
  BY DEF Init, HistoryInv, LegalHistory
<1>3. (\A r \in Requests : RequestInv(r)) /\ TokensInv
  BY AtRest DEF Init, Resting, TokensInv
<1>4. MoneyBackOnRecord
  BY DEF Init, MoneyBackOnRecord
<1> QED
  BY <1>1, <1>2, <1>3, <1>4 DEF SafetyInv

(* The inductive invariant holds in every reachable state. *)
LEMMA SafetyInvariant == Spec => []SafetyInv
  BY InitSafe, SafetyStep, PTL DEF Spec

(* However requests overlap, fail and repeat, no order gets a status without
   having had one that may precede it. *)
THEOREM HistoryIsLegal == Spec => []LegalHistory
<1>1. SafetyInv => LegalHistory
  BY DEF SafetyInv, HistoryInv
<1> QED
  BY <1>1, SafetyInvariant, PTL

(* The gateway returns money only for paid Stripe orders already shown as
   refunded, whatever stale row the handler passed to it. *)
THEOREM RefundsAreOnRecord == Spec => []MoneyBackOnRecord
<1>1. SafetyInv => MoneyBackOnRecord
  BY DEF SafetyInv
<1> QED
  BY <1>1, SafetyInvariant, PTL

(* A step passes the gate: the write of a stale handler is one of the cases. *)
LEMMA GateStep ==
  SafetyInv /\ [Next]_vars => \A o \in Orders : Gate(o)
<1> SUFFICES ASSUME SafetyInv, [Next]_vars PROVE \A o \in Orders : Gate(o)
  OBVIOUS
<1> USE DEF SafetyInv
<1>0. status' = status => \A o \in Orders : Gate(o)
  BY DEF Gate
<1>1. ASSUME NEW r \in Requests, NEW o \in Orders, NEW m \in Methods,
             NEW s \in BOOLEAN, CreateInsert(r, o, m, s)
      PROVE  \A x \in Orders : Gate(x)
  <2>1. status[o] = "new" /\ status' = [status EXCEPT ![o] = "pending"]
    BY <1>1 DEF CreateInsert, SetStatus, RequestInv, CheckingInv
  <2> QED
    BY <2>1 DEF Gate, TypeOK
<1>2. ASSUME NEW r \in Requests, NEW o \in Orders, ConfirmWrite(r, o)
      PROVE  \A x \in Orders : Gate(x)
  <2>1. CASE Exists(o)
    BY <1>2, <2>1 DEF ConfirmWrite, SetStatus, Exists, Live, Gate, PaidOn, TypeOK
  <2>2. CASE ~Exists(o)
    BY <1>2, <2>2, <1>0 DEF ConfirmWrite, orderVars
  <2> QED
    BY <2>1, <2>2
<1>3. ASSUME NEW r \in Requests, NEW o \in Orders, WriteStatus(r, o)
      PROVE  \A x \in Orders : Gate(x)
  <2> DEFINE g == job[r].goal
             s == job[r].seen[o]
  <2>1. CASE Exists(o)
    <3>1. status' = [status EXCEPT ![o] = g]
      BY <1>3, <2>1 DEF WriteStatus, SetStatus
    <3>2. s \in visited[o] /\ Allowed(s, g)
      BY <1>3 DEF WriteStatus, RequestInv, UpdatingInv
    <3>3. g \in PaidOn /\ (g # "paid" => "paid" \in visited[o])
      <4>1. g \in PaidOn /\ (g = "paid" \/ s \in {"paid", "delivered"})
        BY <3>2, AllowedEdge
      <4>2. LegalHistory
        BY DEF HistoryInv
      <4> QED
        BY <3>2, <4>1, <4>2, PaidInHistory DEF PaidOn
    <3>4. g = "paid" \/ status[o] \in PaidOn
      BY <2>1, <3>3 DEF HistoryInv, Exists, Live
    <3>5. \A x \in Orders : status'[x] = IF x = o THEN g ELSE status[x]
      BY <3>1 DEF TypeOK
    <3>6. status[o] = "pending" \/ status[o] \in PaidOn
      BY <2>1 DEF Exists, Live, PaidOn
    <3> HIDE DEF g
    <3> QED
      BY <3>3, <3>4, <3>5, <3>6 DEF Gate
  <2>2. CASE ~Exists(o)
    BY <1>3, <2>2, <1>0 DEF WriteStatus, orderVars
  <2> QED
    BY <2>1, <2>2
<1>4. ASSUME NEW os \in SUBSET Orders, DeleteOrders(os)
      PROVE  \A x \in Orders : Gate(x)
  BY <1>4 DEF DeleteOrders, Exists, Live, Gate, PaidOn, TypeOK
<1>5. CASE \E r \in Requests : Start(r) \/ Fail(r)
  BY <1>5, <1>0 DEF Start, Fail, CreateStart, Confirm, ReadPending, Webhook,
                    ReadOne, ReadMany, orderVars
<1>6. ASSUME NEW r \in Requests,
             \/ \E p \in Products : CreateCheck(r, p) \/ MarkRead(r, p) \/ MarkSold(r, p)
             \/ \E o \in Orders : ConfirmFinish(r, o) \/ Announce(r, o)
             \/ \E o \in Orders, money \in BOOLEAN : Refund(r, o, money)
      PROVE  \A x \in Orders : Gate(x)
  BY <1>6, <1>0 DEF CreateCheck, MarkRead, MarkSold, ConfirmFinish, Announce,
                    Refund, orderVars
<1>7. CASE \/ \E ps \in SUBSET Products : RemoveProducts(ps)
           \/ \E p \in Products, e \in BOOLEAN, s \in BOOLEAN : EditProduct(p, e, s)
           \/ UNCHANGED vars
  BY <1>7, <1>0 DEF RemoveProducts, EditProduct, orderVars, vars
<1> QED
  BY <1>1, <1>2, <1>3, <1>4, <1>5, <1>6, <1>7 DEF Next, Continue

(* The payment gate holds whatever overlaps: only payment or deletion ends
   pending, and both that and deletion are for good. *)
THEOREM PaymentGateHolds == Spec => PaymentGate
<1>1. SafetyInv /\ [Next]_vars => [\A o \in Orders : Gate(o)]_vars
  BY GateStep
<1> QED
  BY <1>1, SafetyInvariant, PTL DEF Spec, PaymentGate

-----------------------------------------------------------------------------
(* Exclusive products.

   A confirmation reads and updates the products of its order one by one.  The
   products it has gone past are sold if they are still exclusive; and every
   sold product is in an order that was paid.  Both fail if an administrator
   edits the flags, so the instances are those without that route. *)

PastItemsSold(r) ==
  pc[r] \in {"marking", "selling", "confirmed"} =>
    \A p \in items[job[r].order] \ left[r] : Withdraws(p) => sold[p]

Finished(r) == pc[r] = "confirmed" => left[r] = {}

ProductInv ==
  /\ SafetyInv
  /\ SoldNeedsPayment
  /\ \A r \in Requests : PastItemsSold(r) /\ Finished(r)

(* Without edits a product only becomes sold or disappears. *)
ProductsGrow ==
  \A p \in Products : /\ sold[p] => sold'[p]
                      /\ Withdraws(p)' => Withdraws(p)

(* A confirmation that does not move keeps what it has achieved. *)
LEMMA ProductsUndisturbed ==
  ASSUME SafetyInv, NEW q \in Requests, PastItemsSold(q), Finished(q), Grows, ProductsGrow,
         pc'[q] = pc[q], job'[q] = job[q], left'[q] = left[q]
  PROVE  PastItemsSold(q)' /\ Finished(q)'
<1>1. Finished(q)'
  BY DEF Finished
<1>2. ASSUME pc[q] \in {"marking", "selling", "confirmed"}
      PROVE  items'[job[q].order] = items[job[q].order] /\ items[job[q].order] \subseteq Products
  BY <1>2 DEF SafetyInv, RequestInv, MarkingInv, HistoryInv, Grows, TypeOK
<1> QED
  BY <1>1, <1>2 DEF PastItemsSold, ProductsGrow

(* The order that justifies a sold product keeps justifying it. *)
LEMMA SoldKept ==
  ASSUME SafetyInv, SoldNeedsPayment, Grows, UNCHANGED sold
  PROVE  SoldNeedsPayment'
  BY DEF SafetyInv, HistoryInv, SoldNeedsPayment, Grows

(* Every step lets the order table grow only. *)
LEMMA GrowsStep == SafetyInv /\ [Next]_vars => Grows
<1> SUFFICES ASSUME SafetyInv, [Next]_vars PROVE Grows
  OBVIOUS
<1> USE DEF SafetyInv
<1>0. UNCHANGED orderVars => Grows
  BY DEF orderVars, Grows
<1>1. ASSUME NEW r \in Requests, NEW o \in Orders, NEW m \in Methods,
             NEW s \in BOOLEAN, CreateInsert(r, o, m, s)
      PROVE  Grows
  <2>1. status[o] = "new"
    BY <1>1 DEF CreateInsert, RequestInv, CheckingInv
  <2> QED
    BY <1>1, <2>1 DEF CreateInsert, SetStatus, Grows, TypeOK
<1>2. ASSUME NEW r \in Requests, NEW o \in Orders, ConfirmWrite(r, o)
      PROVE  Grows
  <2>1. CASE Exists(o)
    BY <1>2, <2>1 DEF ConfirmWrite, SetStatus, Grows, TypeOK
  <2>2. CASE ~Exists(o)
    BY <1>2, <2>2, <1>0 DEF ConfirmWrite
  <2> QED
    BY <2>1, <2>2
<1>3. ASSUME NEW r \in Requests, NEW o \in Orders, WriteStatus(r, o)
      PROVE  Grows
  <2>1. CASE Exists(o)
    <3>1. job[r].goal # "new"
      <4>1. Allowed(job[r].seen[o], job[r].goal)
        BY <1>3 DEF WriteStatus, RequestInv, UpdatingInv
      <4>2. job[r].goal \in PaidOn
        BY <4>1, AllowedEdge
      <4> QED
        BY <4>2 DEF PaidOn
    <3> QED
      BY <1>3, <2>1, <3>1 DEF WriteStatus, SetStatus, Grows, TypeOK
  <2>2. CASE ~Exists(o)
    BY <1>3, <2>2, <1>0 DEF WriteStatus
  <2> QED
    BY <2>1, <2>2
<1>4. ASSUME NEW os \in SUBSET Orders, DeleteOrders(os)
      PROVE  Grows
  BY <1>4 DEF DeleteOrders, Grows, TypeOK
<1>5. CASE \E r \in Requests : Start(r) \/ Fail(r)
  BY <1>5, <1>0 DEF Start, Fail, CreateStart, Confirm, ReadPending, Webhook,
                    ReadOne, ReadMany
<1>6. ASSUME NEW r \in Requests,
             \/ \E p \in Products : CreateCheck(r, p) \/ MarkRead(r, p) \/ MarkSold(r, p)
             \/ \E o \in Orders : ConfirmFinish(r, o) \/ Announce(r, o)
             \/ \E o \in Orders, money \in BOOLEAN : Refund(r, o, money)
      PROVE  Grows
  BY <1>6, <1>0 DEF CreateCheck, MarkRead, MarkSold, ConfirmFinish, Announce, Refund
<1>7. CASE \/ \E ps \in SUBSET Products : RemoveProducts(ps)
           \/ \E p \in Products, e \in BOOLEAN, s \in BOOLEAN : EditProduct(p, e, s)
           \/ UNCHANGED vars
  BY <1>7, <1>0 DEF RemoveProducts, EditProduct, vars
<1> QED
  BY <1>1, <1>2, <1>3, <1>4, <1>5, <1>6, <1>7 DEF Next, Continue

(* Without edits, no step puts a product back on sale. *)
LEMMA ProductsGrowStep ==
  TypeOK /\ [Next]_vars /\ "editProduct" \notin Routes => ProductsGrow
<1> SUFFICES ASSUME TypeOK, [Next]_vars, "editProduct" \notin Routes PROVE ProductsGrow
  OBVIOUS
<1>0. UNCHANGED productVars => ProductsGrow
  BY DEF productVars, ProductsGrow, Withdraws
<1>1. ASSUME NEW r \in Requests, NEW p \in Products, MarkSold(r, p)
      PROVE  ProductsGrow
  BY <1>1 DEF MarkSold, ProductsGrow, Withdraws, TypeOK
<1>2. ASSUME NEW ps \in SUBSET Products, RemoveProducts(ps)
      PROVE  ProductsGrow
  BY <1>2 DEF RemoveProducts, ProductsGrow, Withdraws, TypeOK
<1>3. ASSUME NEW r \in Requests, Start(r) \/ Fail(r)
      PROVE  ProductsGrow
  BY <1>3, <1>0 DEF Start, Fail, CreateStart, Confirm, ReadPending, Webhook,
                    ReadOne, ReadMany
<1>4. ASSUME NEW r \in Requests,
             \/ \E p \in Products : CreateCheck(r, p) \/ MarkRead(r, p)
             \/ \E o \in Orders, m \in Methods, s \in BOOLEAN : CreateInsert(r, o, m, s)
             \/ \E o \in Orders : \/ ConfirmWrite(r, o) \/ ConfirmFinish(r, o)
                                  \/ WriteStatus(r, o) \/ Announce(r, o)
             \/ \E o \in Orders, money \in BOOLEAN : Refund(r, o, money)
      PROVE  ProductsGrow
  BY <1>4, <1>0 DEF CreateCheck, MarkRead, CreateInsert, ConfirmWrite, ConfirmFinish,
                    WriteStatus, Announce, Refund
<1>5. CASE (\E os \in SUBSET Orders : DeleteOrders(os)) \/ UNCHANGED vars
  BY <1>5, <1>0 DEF DeleteOrders, vars
<1>6. ASSUME NEW p \in Products, NEW e \in BOOLEAN, NEW s \in BOOLEAN,
             EditProduct(p, e, s)
      PROVE  FALSE
  BY <1>6 DEF EditProduct
<1> QED
  BY <1>1, <1>2, <1>3, <1>4, <1>5, <1>6 DEF Next, Continue

(* A step moves one handler only. *)
LEMMA OneMoves ==
  ASSUME TypeOK, NEW r \in Requests, Start(r) \/ Continue(r) \/ Fail(r),
         NEW q \in Requests, q # r
  PROVE  pc'[q] = pc[q] /\ job'[q] = job[q] /\ left'[q] = left[q]
<1>1. CASE Start(r)
  BY <1>1 DEF Start, CreateStart, Confirm, ReadPending, Webhook, ReadOne, ReadMany,
              Leave, Enter, TypeOK
<1>2. CASE Fail(r)
  BY <1>2 DEF Fail, Leave, Enter, TypeOK
<1>3. ASSUME NEW p \in Products, CreateCheck(r, p) \/ MarkRead(r, p) \/ MarkSold(r, p)
      PROVE  pc'[q] = pc[q] /\ job'[q] = job[q] /\ left'[q] = left[q]
  BY <1>3 DEF CreateCheck, MarkRead, MarkSold, NextItem, Leave, Enter, TypeOK
<1>4. ASSUME NEW o \in Orders,
             \/ ConfirmWrite(r, o) \/ ConfirmFinish(r, o)
             \/ WriteStatus(r, o) \/ Announce(r, o)
      PROVE  pc'[q] = pc[q] /\ job'[q] = job[q] /\ left'[q] = left[q]
  BY <1>4 DEF ConfirmWrite, ConfirmFinish, WriteStatus, Announce, Leave, Enter, TypeOK
<1>5. ASSUME NEW o \in Orders, NEW m \in Methods, NEW s \in BOOLEAN, CreateInsert(r, o, m, s)
      PROVE  pc'[q] = pc[q] /\ job'[q] = job[q] /\ left'[q] = left[q]
  BY <1>5 DEF CreateInsert, Leave, Enter, TypeOK
<1>6. ASSUME NEW o \in Orders, NEW money \in BOOLEAN, Refund(r, o, money)
      PROVE  pc'[q] = pc[q] /\ job'[q] = job[q] /\ left'[q] = left[q]
  BY <1>6 DEF Refund, TypeOK
<1> QED
  BY <1>1, <1>2, <1>3, <1>4, <1>5, <1>6 DEF Continue

(* Every step keeps the invariant of the products. *)
LEMMA ProductStep ==
  ProductInv /\ [Next]_vars /\ "editProduct" \notin Routes => ProductInv'
<1> SUFFICES ASSUME ProductInv, [Next]_vars, "editProduct" \notin Routes
             PROVE  ProductInv'
  OBVIOUS
<1>0. SafetyInv /\ TypeOK /\ SafetyInv' /\ Grows /\ ProductsGrow
  BY SafetyStep, GrowsStep, ProductsGrowStep DEF ProductInv, SafetyInv
<1> DEFINE Items(r) == PastItemsSold(r) /\ Finished(r)
<1>1. \A r \in Requests : Items(r)
  BY DEF ProductInv
<1>2. ASSUME NEW r \in Requests, Start(r) \/ Continue(r) \/ Fail(r),
             Items(r)', SoldNeedsPayment'
      PROVE  ProductInv'
  <2>1. ASSUME NEW q \in Requests, q # r PROVE Items(q)'
    BY <1>0, <1>1, <1>2, <2>1, OneMoves, ProductsUndisturbed
  <2> QED
    BY <1>0, <1>2, <2>1 DEF ProductInv
<1>3. ASSUME NEW r \in Requests,
             pc'[r] \notin {"marking", "selling", "confirmed"}
      PROVE  Items(r)'
  BY <1>3 DEF PastItemsSold, Finished
<1>4. UNCHANGED sold => SoldNeedsPayment'
  BY <1>0, SoldKept DEF ProductInv
<1> HIDE DEF Items
<1>5. ASSUME NEW r \in Requests, Start(r) \/ Fail(r)
      PROVE  ProductInv'
  <2>1. pc'[r] \notin {"marking", "selling", "confirmed"}
    BY <1>0, <1>5 DEF Start, Fail, CreateStart, Confirm, ReadPending, Webhook,
                      ReadOne, ReadMany, Leave, Enter, TypeOK
  <2>2. UNCHANGED sold
    BY <1>5 DEF Start, Fail, CreateStart, Confirm, ReadPending, Webhook,
                ReadOne, ReadMany, productVars
  <2> QED
    BY <1>2, <1>3, <1>4, <1>5, <2>1, <2>2
<1>6. ASSUME NEW r \in Requests,
             \/ \E p \in Products : CreateCheck(r, p)
             \/ \E o \in Orders, m \in Methods, s \in BOOLEAN : CreateInsert(r, o, m, s)
             \/ \E o \in Orders : WriteStatus(r, o) \/ Announce(r, o)
             \/ \E o \in Orders, money \in BOOLEAN : Refund(r, o, money)
      PROVE  ProductInv'
  <2>1. pc'[r] \notin {"marking", "selling", "confirmed"}
    BY <1>0, <1>6 DEF CreateCheck, NextItem, CreateInsert, WriteStatus, Announce,
                      Refund, Leave, Enter, TypeOK
  <2>2. UNCHANGED sold
    BY <1>6 DEF CreateCheck, CreateInsert, WriteStatus, Announce, Refund, productVars
  <2> QED
    BY <1>2, <1>3, <1>4, <1>6, <2>1, <2>2 DEF Continue
<1>7. ASSUME NEW r \in Requests, NEW p \in Products, MarkRead(r, p)
      PROVE  ProductInv'
  <2>1. /\ UNCHANGED <<orderVars, productVars>> /\ job' = job /\ pc[r] = "marking"
        /\ pc'[r] \in {"marking", "selling"}
        /\ left'[r] = left[r] \/ (left'[r] = left[r] \ {p} /\ ~Withdraws(p))
    BY <1>0, <1>7 DEF MarkRead, NextItem, TypeOK
  <2>2. Items(r)'
    BY <1>1, <2>1 DEF Items, PastItemsSold, Finished, Withdraws, orderVars, productVars
  <2> QED
    BY <1>2, <1>4, <1>7, <2>1, <2>2 DEF Continue, productVars
<1>8. ASSUME NEW r \in Requests, NEW p \in Products, MarkSold(r, p)
      PROVE  ProductInv'
  <2>0. UNCHANGED orderVars /\ pc[r] = "selling" /\ p = cur[r]
    BY <1>8 DEF MarkSold
  <2>1. CASE listed[p]
    <3>1. /\ sold' = [sold EXCEPT ![p] = TRUE] /\ UNCHANGED <<exclusive, listed>>
          /\ pc'[r] = "marking" /\ job'[r] = job[r] /\ left'[r] = left[r] \ {p}
      BY <1>0, <1>8, <2>1 DEF MarkSold, Enter, TypeOK
    <3>2. Items(r)'
      <4>1. \A x \in items[job[r].order] : x \in Products
        BY <1>0, <2>0 DEF SafetyInv, RequestInv, MarkingInv, TypeOK
      <4>2. \A x \in Products : sold'[x] <=> (sold[x] \/ x = p)
        BY <1>0, <3>1 DEF TypeOK
      <4> QED
        BY <1>1, <2>0, <3>1, <4>1, <4>2 DEF Items, PastItemsSold, Finished, Withdraws,
                                            orderVars
    <3>3. SoldNeedsPayment'
      <4>1. /\ job[r].order \in Orders /\ p \in items[job[r].order]
            /\ "paid" \in visited[job[r].order]
        BY <1>0, <2>0 DEF SafetyInv, RequestInv, MarkingInv
      <4>2. \A x \in Products \ {p} : sold'[x] <=> sold[x]
        BY <1>0, <3>1 DEF TypeOK
      <4> QED
        BY <2>0, <4>1, <4>2 DEF ProductInv, SoldNeedsPayment, orderVars
    <3> QED
      BY <1>2, <1>8, <3>2, <3>3 DEF Continue
  <2>2. CASE ~listed[p]
    <3>1. pc'[r] = "failed" /\ UNCHANGED sold
      BY <1>0, <1>8, <2>2 DEF MarkSold, Leave, Enter, TypeOK
    <3> QED
      BY <1>2, <1>3, <1>4, <1>8, <3>1 DEF Continue
  <2> QED
    BY <2>1, <2>2
<1>9. ASSUME NEW r \in Requests, NEW o \in Orders, ConfirmWrite(r, o)
      PROVE  ProductInv'
  <2>0. UNCHANGED sold
    BY <1>9 DEF ConfirmWrite, productVars
  <2>1. CASE Exists(o)
    <3>1. /\ pc'[r] = "marking" /\ job'[r] = job[r] /\ left'[r] = items[o]
          /\ items' = items /\ o = job[r].order
      BY <1>0, <1>9, <2>1 DEF ConfirmWrite, Enter, TypeOK
    <3>2. Items(r)'
      BY <3>1 DEF Items, PastItemsSold, Finished
    <3> QED
      BY <1>2, <1>4, <1>9, <2>0, <3>2 DEF Continue
  <2>2. CASE ~Exists(o)
    <3>1. pc'[r] = "failed"
      BY <1>0, <1>9, <2>2 DEF ConfirmWrite, Leave, Enter, TypeOK
    <3> QED
      BY <1>2, <1>3, <1>4, <1>9, <2>0, <3>1 DEF Continue
  <2> QED
    BY <2>1, <2>2
<1>10. ASSUME NEW r \in Requests, NEW o \in Orders, ConfirmFinish(r, o)
       PROVE  ProductInv'
  <2>1. /\ UNCHANGED <<orderVars, productVars, job, left>> /\ left[r] = {}
        /\ pc[r] = "marking" /\ pc'[r] = "confirmed"
    BY <1>0, <1>10 DEF ConfirmFinish, TypeOK
  <2>2. Items(r)'
    BY <1>1, <2>1 DEF Items, PastItemsSold, Finished, Withdraws, orderVars, productVars
  <2> QED
    BY <1>2, <1>4, <1>10, <2>1, <2>2 DEF Continue, productVars
<1>11. CASE \/ \E os \in SUBSET Orders : DeleteOrders(os)
            \/ \E ps \in SUBSET Products : RemoveProducts(ps)
            \/ UNCHANGED vars
  <2>1. UNCHANGED <<locals, sold>>
    BY <1>11 DEF DeleteOrders, RemoveProducts, vars, productVars
  <2>2. ASSUME NEW q \in Requests PROVE Items(q)'
    BY <1>0, <1>1, <2>1, ProductsUndisturbed DEF Items, locals
  <2> QED
    BY <1>0, <1>4, <2>1, <2>2 DEF Items, ProductInv
<1>12. ASSUME NEW p \in Products, NEW e \in BOOLEAN, NEW s \in BOOLEAN,
              EditProduct(p, e, s)
       PROVE  FALSE
  BY <1>12 DEF EditProduct
<1> QED
  BY <1>5, <1>6, <1>7, <1>8, <1>9, <1>10, <1>11, <1>12 DEF Next, Continue

(* The product invariant holds in every reachable state of an instance without
   edits. *)
LEMMA ProductInvariant ==
  ASSUME "editProduct" \notin Routes
  PROVE  Spec => []ProductInv
<1>1. Init => ProductInv
  <2> SUFFICES ASSUME Init PROVE ProductInv
    OBVIOUS
  <2>1. SafetyInv
    BY InitSafe
  <2> QED
    BY <2>1 DEF Init, ProductInv, SoldNeedsPayment, PastItemsSold, Finished
<1>2. ProductInv /\ [Next]_vars => ProductInv'
  BY ProductStep
<1> QED
  BY <1>1, <1>2, PTL DEF Spec

(* No exclusive product is withheld from buyers without a paid order that holds
   it, unless an administrator edits the flag. *)
THEOREM SoldIsPaidFor ==
  ASSUME "editProduct" \notin Routes
  PROVE  Spec => []SoldNeedsPayment
<1>1. ProductInv => SoldNeedsPayment
  BY DEF ProductInv
<1> QED
  BY <1>1, ProductInvariant, PTL

(* A confirmation that ran to its end has withdrawn every exclusive product of
   its order. *)
THEOREM ConfirmationsSell ==
  ASSUME "editProduct" \notin Routes
  PROVE  Spec => []ConfirmSells
<1>1. ProductInv => ConfirmSells
  BY DEF ProductInv, PastItemsSold, Finished, ConfirmSells, Withdraws
<1> QED
  BY <1>1, ProductInvariant, PTL
=============================================================================
