---------------------------- MODULE OrderLifecycle ----------------------------
(***************************************************************************)
(* Orders, the products they sell and the refunds they trigger.            *)
(*                                                                         *)
(* The API runs no database transaction.  Every handler is a sequence of   *)
(* awaited statements, so two requests interleave at each statement and    *)
(* act on rows they read earlier.  A request is a slot that runs one       *)
(* handler at a time; one action is one statement together with the        *)
(* synchronous code up to the next await.                                  *)
(***************************************************************************)
EXTENDS FiniteSets

CONSTANTS
  Orders,      \* rows the order table can ever hold
  Products,    \* products clients name in an order
  Exclusive,   \* products that are sold to one buyer
  Baskets,     \* item lists the clients send, as sets of products
  Methods,     \* payment methods the clients send
  Requests,    \* slots for requests in flight
  Routes,      \* endpoints the clients call
  Overlap,     \* may a request start while another one is in flight?
  MayFail,     \* may a request stop between two statements?
  None

ASSUME ExclusiveAssumption == Exclusive \subseteq Products
ASSUME BasketsAssumption == Baskets \subseteq SUBSET Products
ASSUME OverlapAssumption == Overlap \in BOOLEAN
ASSUME NoneAssumption == None \notin Orders \cup Products

VARIABLES
  status,      \* status[o]: "new" before the row exists, "deleted" after
  items,       \* items[o]: the products of the order
  method,      \* method[o]: paymentMethod
  session,     \* session[o]: is a stripeSession stored?
  exclusive,   \* exclusive[p], sold[p]: flags of the product row
  sold,
  listed,      \* listed[p]: the product row exists
  returned,    \* orders whose money the gateway sent back
  told,        \* told[o]: status in the last order event sent to the admin room
  pc,          \* pc[r]: where the handler in slot r is
  job,         \* job[r]: what it was asked and what it read before its first write
  left,        \* left[r]: the rows its loop has still to visit
  cur,         \* cur[r]: the row its loop is working on
  visited      \* history: visited[o] is the set of statuses o has had

orderVars == <<status, items, method, session, visited>>
productVars == <<exclusive, sold, listed>>
locals == <<pc, job, left, cur>>
vars == <<orderVars, productVars, returned, told, locals>>

Live == {"pending", "paid", "delivered", "completed", "refunded"}
Statuses == Live \cup {"new", "deleted"}

(* Mutant: a refunded order may be delivered again. *)
RefundReopens ==
  [pending   |-> {"paid"},
   paid      |-> {"delivered", "refunded"},
   delivered |-> {"completed", "refunded"},
   refunded  |-> {"delivered"},
   completed |-> {}]

VALID_TRANSITIONS ==
  [pending   |-> {"paid"},
   paid      |-> {"delivered", "refunded"},
   delivered |-> {"completed", "refunded"},
   refunded  |-> {},
   completed |-> {}]

(* Mutant: an upsert where the code has an update, which revives a row. *)
ExistsOrDeleted(o) == status[o] # "new"

Exists(o) == status[o] \in Live

(* Mutant: the table of transitions is not consulted. *)
AllowedUnchecked(s, g) == s \in Live /\ g \in Live

(* May an order that was read in status s be moved to g? *)
Allowed(s, g) == s \in Live /\ g \in VALID_TRANSITIONS[s]

(* Mutant: the payment method is not looked at. *)
ViaGatewayAnyMethod(o) == session[o]

(* refundOrder reaches the gateway only for a Stripe order with a session. *)
ViaGateway(o) == method[o] = "stripe" /\ session[o]

(* Mutant: the test of the sold flag is inverted. *)
SoldOutInverted(p) == listed[p] /\ exclusive[p] /\ ~sold[p]

(* create refuses p. *)
SoldOut(p) == listed[p] /\ exclusive[p] /\ sold[p]

(* Mutant: the test of the exclusive flag is inverted. *)
WithdrawsInverted(p) == listed[p] /\ ~exclusive[p]

(* confirmPayment marks p as sold. *)
Withdraws(p) == listed[p] /\ exclusive[p]

-----------------------------------------------------------------------------
(* Requests *)

Resting == {"idle", "done", "confirmed", "refused", "failed"}
Working == {"checking", "confirming", "marking", "selling",
            "writing", "refunding", "announcing"}

(* What a handler keeps while it runs:
     order    the order it creates or confirms
     basket   the products of the order it creates
     goal     the status it is asked to write
     bulk     is it the bulk handler?
     seen     the statuses it read
     gateway  of the orders it read, those a gateway can refund; in a
              confirmation, the order if the request names a session *)
NoJob == [order |-> None, basket |-> {}, goal |-> "new", bulk |-> FALSE,
          seen |-> [o \in Orders |-> "new"], gateway |-> {}]

CreateJob(o, b) ==
  [order |-> o, basket |-> b, goal |-> "new", bulk |-> FALSE,
   seen |-> [x \in Orders |-> "new"], gateway |-> {}]

ConfirmJob(o, s) ==
  [order |-> o, basket |-> {}, goal |-> "new", bulk |-> FALSE,
   seen |-> [x \in Orders |-> "new"], gateway |-> IF s THEN {o} ELSE {}]

UpdateJob(os, g, bulk) ==
  [order |-> None, basket |-> {}, goal |-> g, bulk |-> bulk,
   seen |-> [x \in Orders |-> IF x \in os THEN status[x] ELSE "new"],
   gateway |-> {o \in os : ViaGateway(o)}]

Active(r) == pc[r] \in Working

Admit(r) ==
  /\ ~Active(r)
  /\ Overlap \/ \A q \in Requests : ~Active(q)

(* An action outside the request slots: a handler with a single statement. *)
Alone == Overlap \/ \A q \in Requests : ~Active(q)

Enter(r, place, j, rows) ==
  /\ pc' = [pc EXCEPT ![r] = place]
  /\ job' = [job EXCEPT ![r] = j]
  /\ left' = [left EXCEPT ![r] = rows]
  /\ cur' = [cur EXCEPT ![r] = None]

Leave(r, outcome) == Enter(r, outcome, NoJob, {})

(* Mutant: the loop over an order's items does not advance. *)
SameItem(r, p) == p \in left[r] /\ UNCHANGED locals

NextItem(r, p) ==
  /\ left' = [left EXCEPT ![r] = @ \ {p}]
  /\ UNCHANGED <<pc, job, cur>>

(* Mutant: the column is free text, and a confirmation writes another word. *)
SetOtherWord(o, s) ==
  /\ status' = [status EXCEPT ![o] = IF s = "paid" THEN "confirmed" ELSE s]
  /\ visited' = [visited EXCEPT ![o] = @ \cup {s}]

SetStatus(o, s) ==
  /\ status' = [status EXCEPT ![o] = s]
  /\ visited' = [visited EXCEPT ![o] = @ \cup {s}]

Init ==
  /\ status = [o \in Orders |-> "new"]
  /\ items = [o \in Orders |-> {}]
  /\ method = [o \in Orders |-> "none"]
  /\ session = [o \in Orders |-> FALSE]
  /\ visited = [o \in Orders |-> {"new"}]
  /\ exclusive = [p \in Products |-> p \in Exclusive]
  /\ sold = [p \in Products |-> FALSE]
  /\ listed = [p \in Products |-> TRUE]
  /\ returned = {}
  /\ told = [o \in Orders |-> "new"]
  /\ pc = [r \in Requests |-> "idle"]
  /\ job = [r \in Requests |-> NoJob]
  /\ left = [r \in Requests |-> {}]
  /\ cur = [r \in Requests |-> None]

-----------------------------------------------------------------------------
(* POST /orders *)

(* The handler makes up the row's token first: no row and no other handler
   has it. *)
CreateStart(r, o, basket) ==
  /\ "create" \in Routes
  /\ Admit(r)
  /\ status[o] = "new"
  /\ \A q \in Requests : job[q].order # o
  /\ Enter(r, "checking", CreateJob(o, basket), basket)
  /\ UNCHANGED <<orderVars, productVars, returned, told>>

(* The loop reads one product per turn; an unknown product passes. *)
CreateCheck(r, p) ==
  /\ pc[r] = "checking"
  /\ p \in left[r]
  /\ IF SoldOut(p)
     THEN Leave(r, "refused")
     ELSE NextItem(r, p)
  /\ UNCHANGED <<orderVars, productVars, returned, told>>

(* Mutant: products are withdrawn when the order is placed, not when paid, as
   TONG_QUAN describes the route (see OrderingWithdraws). *)
CreateInsertSelling(r, o, m, s) ==
  /\ pc[r] = "checking"
  /\ left[r] = {}
  /\ o = job[r].order
  /\ SetStatus(o, "pending")
  /\ items' = [items EXCEPT ![o] = job[r].basket]
  /\ method' = [method EXCEPT ![o] = m]
  /\ session' = [session EXCEPT ![o] = s]
  /\ told' = [told EXCEPT ![o] = "pending"]
  /\ Leave(r, "done")
  /\ sold' = [p \in Products |-> sold[p] \/ p \in job[r].basket]
  /\ UNCHANGED <<exclusive, listed, returned>>

CreateInsert(r, o, m, s) ==
  /\ pc[r] = "checking"
  /\ left[r] = {}
  /\ o = job[r].order
  /\ SetStatus(o, "pending")
  /\ items' = [items EXCEPT ![o] = job[r].basket]
  /\ method' = [method EXCEPT ![o] = m]
  /\ session' = [session EXCEPT ![o] = s]
  /\ told' = [told EXCEPT ![o] = "pending"]
  /\ Leave(r, "done")
  /\ UNCHANGED <<productVars, returned>>

-----------------------------------------------------------------------------
(* POST /orders/confirm and POST /payment/stripe-webhook *)

(* confirmPayment up to its first write; s: the body carries a session. *)
ReadPending(r, o, s) ==
  /\ Admit(r)
  /\ IF status[o] = "pending"
     THEN Enter(r, "confirming", ConfirmJob(o, s), {})
     ELSE Leave(r, "refused")
  /\ UNCHANGED <<orderVars, productVars, returned, told>>

Confirm(r, o, s) == "confirm" \in Routes /\ ReadPending(r, o, s)

(* Stripe may deliver an event any number of times; only "completed" confirms. *)
Webhook(r, o, event) ==
  /\ "webhook" \in Routes
  /\ IF event = "completed"
     THEN ReadPending(r, o, FALSE)
     ELSE /\ Admit(r)
          /\ Leave(r, "done")
          /\ UNCHANGED <<orderVars, productVars, returned, told>>

(* The update names only the row: it does not look at the status again.
   It throws when the row is gone. *)
ConfirmWrite(r, o) ==
  /\ pc[r] = "confirming"
  /\ o = job[r].order
  /\ IF Exists(o)
     THEN /\ SetStatus(o, "paid")
          /\ session' = IF o \in job[r].gateway THEN [session EXCEPT ![o] = TRUE]
                        ELSE session
          /\ Enter(r, "marking", job[r], items[o])
          /\ UNCHANGED <<items, method>>
     ELSE /\ Leave(r, "failed")
          /\ UNCHANGED orderVars
  /\ UNCHANGED <<productVars, returned, told>>

MarkRead(r, p) ==
  /\ pc[r] = "marking"
  /\ p \in left[r]
  /\ IF Withdraws(p)
     THEN /\ pc' = [pc EXCEPT ![r] = "selling"]
          /\ cur' = [cur EXCEPT ![r] = p]
          /\ UNCHANGED <<job, left>>
     ELSE NextItem(r, p)
  /\ UNCHANGED <<orderVars, productVars, returned, told>>

(* Updating a product deleted since it was read throws and ends the handler. *)
MarkSold(r, p) ==
  /\ pc[r] = "selling"
  /\ p = cur[r]
  /\ IF listed[p]
     THEN /\ sold' = [sold EXCEPT ![p] = TRUE]
          /\ Enter(r, "marking", job[r], left[r] \ {p})
     ELSE /\ Leave(r, "failed")
          /\ UNCHANGED sold
  /\ UNCHANGED <<orderVars, exclusive, listed, returned, told>>

(* notifyNewOrder with the row as updated; the e-mail's failure is swallowed. *)
ConfirmFinish(r, o) ==
  /\ pc[r] = "marking"
  /\ left[r] = {}
  /\ o = job[r].order
  /\ told' = [told EXCEPT ![o] = "paid"]
  /\ pc' = [pc EXCEPT ![r] = "confirmed"]
  /\ UNCHANGED <<orderVars, productVars, returned, job, left, cur>>

-----------------------------------------------------------------------------
(* PATCH /orders/:id/status, PATCH /admin/orders/:id and
   POST /admin/orders/bulk-status *)

ReadOne(r, o, g) ==
  /\ "status" \in Routes
  /\ Admit(r)
  /\ IF Allowed(status[o], g)
     THEN Enter(r, "writing", UpdateJob({o}, g, FALSE), {o})
     ELSE Leave(r, "refused")
  /\ UNCHANGED <<orderVars, productVars, returned, told>>

(* One findMany; an order that may not move to g is reported and skipped. *)
ReadMany(r, os, g) ==
  /\ "bulk" \in Routes
  /\ Admit(r)
  /\ LET ok == {o \in os : Allowed(status[o], g)}
     IN  IF ok = {} THEN Leave(r, "done")
         ELSE Enter(r, "writing", UpdateJob(ok, g, TRUE), ok)
  /\ UNCHANGED <<orderVars, productVars, returned, told>>

(* As ConfirmWrite, the update trusts the status the handler read. *)
WriteStatus(r, o) ==
  /\ pc[r] = "writing"
  /\ o \in left[r]
  /\ IF Exists(o)
     THEN /\ SetStatus(o, job[r].goal)
          /\ pc' = [pc EXCEPT ![r] = IF job[r].goal = "refunded" THEN "refunding"
                                      ELSE "announcing"]
          /\ cur' = [cur EXCEPT ![r] = o]
          /\ left' = [left EXCEPT ![r] = @ \ {o}]
          /\ UNCHANGED <<items, method, session, job>>
     ELSE /\ Leave(r, "failed")
          /\ UNCHANGED orderVars
  /\ UNCHANGED <<productVars, returned, told>>

(* processRefund with the row as read; money: the gateway moved it.  A refusal,
   and an answer lost after the money moved, are caught and logged. *)
Refund(r, o, money) ==
  /\ pc[r] = "refunding"
  /\ o = cur[r]
  /\ money => o \in job[r].gateway
  /\ returned' = IF money THEN returned \cup {o} ELSE returned
  /\ pc' = [pc EXCEPT ![r] = "announcing"]
  /\ UNCHANGED <<orderVars, productVars, told, job, left, cur>>

(* The status in the event: the bulk handler sends the row it read, not the one
   it wrote. *)
Sent(r, o) == IF job[r].bulk THEN job[r].seen[o] ELSE job[r].goal

(* notifyOrderUpdated, then the next order of a bulk update. *)
Announce(r, o) ==
  /\ pc[r] = "announcing"
  /\ o = cur[r]
  /\ told' = [told EXCEPT ![o] = Sent(r, o)]
  /\ IF left[r] = {} THEN Leave(r, "done")
     ELSE Enter(r, "writing", job[r], left[r])
  /\ UNCHANGED <<orderVars, productVars, returned>>

-----------------------------------------------------------------------------
(* Handlers that write with one statement *)

DeleteOrders(os) ==
  /\ "deleteOrders" \in Routes
  /\ Alone
  /\ LET gone == {o \in os : Exists(o)}
     IN  /\ status' = [o \in Orders |-> IF o \in gone THEN "deleted" ELSE status[o]]
         /\ visited' = [o \in Orders |->
                          IF o \in gone THEN visited[o] \cup {"deleted"}
                          ELSE visited[o]]
  /\ UNCHANGED <<items, method, session, productVars, returned, told, locals>>

RemoveProducts(ps) ==
  /\ "removeProducts" \in Routes
  /\ Alone
  /\ listed' = [p \in Products |-> listed[p] /\ p \notin ps]
  /\ UNCHANGED <<orderVars, exclusive, sold, returned, told, locals>>

(* An administrator's edit may set both flags at will. *)
EditProduct(p, e, s) ==
  /\ "editProduct" \in Routes
  /\ Alone
  /\ listed[p]
  /\ exclusive' = [exclusive EXCEPT ![p] = e]
  /\ sold' = [sold EXCEPT ![p] = s]
  /\ UNCHANGED <<orderVars, listed, returned, told, locals>>

(* The process dies, or a statement is rejected: the handler is gone and what
   it wrote stays. *)
Fail(r) ==
  /\ MayFail
  /\ Active(r)
  /\ Leave(r, "failed")
  /\ UNCHANGED <<orderVars, productVars, returned, told>>

-----------------------------------------------------------------------------

Start(r) ==
  \/ \E o \in Orders, b \in Baskets : CreateStart(r, o, b)
  \/ \E o \in Orders, s \in BOOLEAN : Confirm(r, o, s)
  \/ \E o \in Orders, e \in {"completed", "expired"} : Webhook(r, o, e)
  \/ \E o \in Orders, g \in Live : ReadOne(r, o, g)
  \/ \E os \in SUBSET Orders, g \in Live : ReadMany(r, os, g)

Continue(r) ==
  \/ \E p \in Products : CreateCheck(r, p) \/ MarkRead(r, p) \/ MarkSold(r, p)
  \/ \E o \in Orders, m \in Methods, s \in BOOLEAN : CreateInsert(r, o, m, s)
  \/ \E o \in Orders : \/ ConfirmWrite(r, o) \/ ConfirmFinish(r, o)
                       \/ WriteStatus(r, o) \/ Announce(r, o)
  \/ \E o \in Orders, money \in BOOLEAN : Refund(r, o, money)

Next ==
  \/ \E r \in Requests : Start(r) \/ Continue(r) \/ Fail(r)
  \/ \E os \in SUBSET Orders : DeleteOrders(os)
  \/ \E ps \in SUBSET Products : RemoveProducts(ps)
  \/ \E p \in Products, e \in BOOLEAN, s \in BOOLEAN : EditProduct(p, e, s)

Spec == Init /\ [][Next]_vars

(* The event loop keeps running every handler it has started. *)
Fairness == \A r \in Requests : WF_vars(Continue(r))

FairSpec == Spec /\ Fairness

-----------------------------------------------------------------------------
(* Properties *)

Jobs ==
  [order : Orders \cup {None}, basket : SUBSET Products, goal : Statuses,
   bulk : BOOLEAN, seen : [Orders -> Statuses], gateway : SUBSET Orders]

(* Every variable has its type, in the database and in the handlers. *)
TypeOK ==
  /\ status \in [Orders -> Statuses]
  /\ items \in [Orders -> SUBSET Products]
  /\ method \in [Orders -> Methods \cup {"none"}]
  /\ session \in [Orders -> BOOLEAN]
  /\ visited \in [Orders -> SUBSET Statuses]
  /\ exclusive \in [Products -> BOOLEAN]
  /\ sold \in [Products -> BOOLEAN]
  /\ listed \in [Products -> BOOLEAN]
  /\ returned \in SUBSET Orders
  /\ told \in [Orders -> Statuses]
  /\ pc \in [Requests -> Resting \cup Working]
  /\ job \in [Requests -> Jobs]
  /\ left \in [Requests -> SUBSET (Orders \cup Products)]
  /\ cur \in [Requests -> Orders \cup Products \cup {None}]

Lifecycle == INSTANCE OrderStatus

(* While requests do not overlap, the order table follows OrderStatus: no
   confirmation, update, bulk update or deletion, and no failure between two
   statements, moves an order along an edge VALID_TRANSITIONS does not have. *)
FollowsLifecycle == Lifecycle!Spec

(* What VALID_TRANSITIONS still guarantees when handlers overlap and write over
   each other's statuses: an order that ever had a status also had a status
   that may precede it, so none was delivered, completed or refunded unpaid. *)
LegalHistory ==
  \A o \in Orders : \A s \in visited[o] :
    s \notin {"new", "deleted"} => \E q \in visited[o] : <<q, s>> \in Lifecycle!Edges

PaidOn == {"paid", "delivered", "completed", "refunded"}

(* How one order may move in one step although handlers overlap. *)
Gate(o) ==
  \/ status'[o] = status[o]
  \/ status[o] = "new" /\ status'[o] = "pending"
  \/ status[o] = "pending" /\ status'[o] \in {"paid", "deleted"}
  \/ status[o] \in PaidOn /\ status'[o] \in PaidOn \cup {"deleted"}

(* However handlers overlap, a pending order leaves that status only by being
   paid or deleted, none returns to it, and no stale handler brings back a
   deleted order. *)
PaymentGate == [][\A o \in Orders : Gate(o)]_vars

(* The gateway returns money only for an order that was paid by Stripe and that
   the table has already shown as refunded: the status is written first. *)
MoneyBackOnRecord ==
  \A o \in returned : {"paid", "refunded"} \subseteq visited[o] /\ method[o] = "stripe"

(* No product is withheld from buyers without a paid order that holds it, as
   long as nobody edits the flag by hand.  This is what create and confirmPayment
   do; TONG_QUAN says otherwise of create (see OrderingWithdraws). *)
SoldNeedsPayment ==
  \A p \in Products :
    sold[p] => \E o \in Orders : p \in items[o] /\ "paid" \in visited[o]

(* A confirmation that ran to its end has withdrawn every exclusive product of
   its order, whatever ran in between (deletions included; edits aside). *)
ConfirmSells ==
  \A r \in Requests :
    pc[r] = "confirmed" =>
      \A p \in items[job[r].order] : listed[p] /\ exclusive[p] => sold[p]

(* Without overlap, an order whose money went back stays refunded until it is
   deleted: nothing makes it downloadable or deliverable again. *)
RefundIsFinal == \A o \in returned : status[o] \in {"refunded", "deleted"}

(* Without overlap, no order is placed for an exclusive product that is sold at
   the moment of the insert. *)
SoldNotOrdered ==
  [][\A o \in Orders :
       status[o] = "new" /\ status'[o] = "pending" =>
         \A p \in items'[o] : ~(listed[p] /\ exclusive[p] /\ sold[p])]_vars

Quiet == \A r \in Requests : ~Active(r)

(* When no handler runs, the admin room has been told the current status of
   every order. *)
RoomIsCurrent == Quiet => \A o \in Orders : Exists(o) => told[o] = status[o]

(* TONG_QUAN on POST /api/orders: placing an order sets the flags of a product
   that is sold once, if need be; so each exclusive one in an order is sold. *)
OrderingWithdraws ==
  \A o \in Orders : Exists(o) =>
    \A p \in items[o] : listed[p] /\ exclusive[p] => sold[p]

(* TONG_QUAN 7.2: an exclusive product cannot be bought a second time. *)
BoughtOnce ==
  \A p \in Exclusive :
    \A o1, o2 \in {o \in Orders : status[o] \in PaidOn} :
      p \in items[o1] \cap items[o2] => o1 = o2

(* Every handler that started ends, whatever rows disappear under it. *)
HandlersFinish == \A r \in Requests : Active(r) ~> ~Active(r)

(* A payment that was recorded withdraws the order's exclusive products in the
   end, while products are not removed. *)
PaymentWithdraws ==
  \A r \in Requests, o \in Orders, p \in Products :
    pc[r] = "marking" /\ job[r].order = o /\ p \in items[o] /\ exclusive[p]
      ~> sold[p]
=============================================================================
