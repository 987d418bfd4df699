--------------------------------- MODULE Reports ---------------------------------
(***************************************************************************)
(* The statistics of the admin service, each of several queries.           *)
(*                                                                         *)
(* The queries of a Promise.all run in any order.  With overlap, orders    *)
(* and downloads are written between them: orders by OrderLifecycle, the   *)
(* log by Downloads, of which a report sees no more than is kept here.     *)
(***************************************************************************)
EXTENDS Slots, Integers, FiniteSets, FiniteSetsExt

CONSTANTS
  Orders,
  Total,       \* Total[o]: the total of order o, which nothing keeps above zero
  Months,
  Downloads,   \* ids of rows of the download log
  Countries

VARIABLES
  order,       \* order[o]: status and month, or None
  placed,      \* ids of orders ever used
  download     \* download[d]: month and country (or None) of a row, or None

rowVars == <<order, placed, download>>
vars == <<rowVars, slotVars>>

Statuses == {"pending", "paid", "delivered", "completed", "refunded"}
PlacedIn(s) == {o \in Orders : order[o] # None /\ order[o].status \in s}
Logged == {d \in Downloads : download[d] # None}

Init ==
  /\ order = [o \in Orders |-> None] /\ placed = {}
  /\ download = [d \in Downloads |-> None]
  /\ AllIdle

Sum(os) == MapThenSumSet(LAMBDA o : Total[o], os)

-----------------------------------------------------------------------------
(* The writers *)

(* An order is there, and not refunded, that was not when a report in flight
   began: each such report notes it (history). *)
Comes(os) ==
  /\ job' = [r \in Requests |-> IF pc[r] \in {"computing", "totalling"}
                                THEN [job[r] EXCEPT !.came = @ \cup os] ELSE job[r]]
  /\ UNCHANGED pc

Place(o, m) ==
  /\ Open
  /\ o \notin placed
  /\ placed' = placed \cup {o}
  /\ order' = [order EXCEPT ![o] = [status |-> "pending", month |-> m]]
  /\ Comes({o})
  /\ UNCHANGED download

(* The statuses that one write can follow another by: those of PaymentGate in
   OrderLifecycle, since handlers overlap here.  A stale one writes over any
   status of an order that was paid, "refunded" included. *)
Follows(s, t) ==
  \/ s = "pending" /\ t = "paid"
  \/ {s, t} \subseteq Statuses \ {"pending"}

Move(o, s) ==
  /\ Open
  /\ order[o] # None
  /\ Follows(order[o].status, s)
  /\ order' = [order EXCEPT ![o].status = s]
  /\ Comes(IF order[o].status = "refunded" /\ s # "refunded" THEN {o} ELSE {})
  /\ UNCHANGED <<placed, download>>

(* Each of a bulk deletion, whose other orders go in the next steps. *)
DeleteOrder(o) ==
  /\ Open
  /\ order[o] # None
  /\ order' = [order EXCEPT ![o] = None]
  /\ UNCHANGED <<placed, download, slotVars>>

LogDownload(d, m, c) ==
  /\ Open
  /\ download[d] = None
  /\ download' = [download EXCEPT ![d] = [month |-> m, country |-> c]]
  /\ UNCHANGED <<order, placed, slotVars>>

-----------------------------------------------------------------------------
(* getStats, the reports by month, and getDownloadStats *)

(* todo: queries still to run; old: rows of the log there at the start; came: see
   Comes; the rest: results *)
Asked(todo, old) ==
  [todo |-> todo, old |-> old, came |-> {}, revenue |-> 0, orders |-> 0, total |-> 0,
   months |-> [m \in Months |-> 0], countries |-> [c \in Countries |-> 0]]

GetStats(r) ==
  /\ Admit(r)
  /\ Go(r, "computing", Asked({"orders", "revenue"}, {}))
  /\ UNCHANGED rowVars

GetDownloadStats(r) ==
  /\ Admit(r)
  /\ Go(r, "counting", Asked({"total", "months", "countries"}, Logged))
  /\ UNCHANGED rowVars

Part(r, query, next, j) ==
  LET todo == job[r].todo \ {query}
  IN  /\ query \in job[r].todo
      /\ Go(r, IF todo = {} THEN next ELSE pc[r], [j EXCEPT !.todo = todo])
      /\ UNCHANGED rowVars

(* _computeStats: the revenue is of all orders that are not refunded. *)
ComputeStats(r) ==
  /\ At(r, "computing")
  /\ \/ Part(r, "orders", "totalling",
              [job[r] EXCEPT !.orders = Cardinality(PlacedIn(Statuses))])
     \/ Part(r, "revenue", "totalling",
              [job[r] EXCEPT !.revenue = Sum(PlacedIn(Statuses \ {"refunded"}))])

(* Mutant: every order counts. *)
EarnedAll(m) == Sum({o \in PlacedIn(Statuses) : order[o].month = m})

(* The revenue by month is of those that are paid, at this moment. *)
Earned(m) == Sum({o \in PlacedIn({"paid"}) : order[o].month = m})

GetRevenueByMonth(r) ==
  /\ At(r, "totalling")
  /\ Go(r, "answered", [job[r] EXCEPT !.months = [m \in Months |-> Earned(m)]])
  /\ UNCHANGED rowVars

PerMonth(m) == Cardinality({d \in Logged : download[d].month = m})

PerCountry(c) == Cardinality({d \in Logged : download[d].country = c})

CountDownloads(r) ==
  /\ At(r, "counting")
  /\ \/ Part(r, "total", "summed", [job[r] EXCEPT !.total = Cardinality(Logged)])
     \/ Part(r, "months", "summed",
              [job[r] EXCEPT !.months = [m \in Months |-> PerMonth(m)]])
     \/ Part(r, "countries", "summed",
              [job[r] EXCEPT !.countries = [c \in Countries |-> PerCountry(c)]])

Respond(r) ==
  /\ At(r, "answered") \/ At(r, "summed")
  /\ Leave(r)
  /\ UNCHANGED rowVars

Next ==
  \/ \E o \in Orders : \/ \E m \in Months : Place(o, m)
                       \/ \E s \in Statuses : Move(o, s)
                       \/ DeleteOrder(o)
  \/ \E d \in Downloads, m \in Months, c \in Countries \cup {None} : LogDownload(d, m, c)
  \/ \E r \in Requests : \/ GetStats(r) \/ ComputeStats(r) \/ GetRevenueByMonth(r)
                         \/ GetDownloadStats(r) \/ CountDownloads(r) \/ Respond(r)

Spec == Init /\ [][Next]_vars

-----------------------------------------------------------------------------
(* Properties *)

TypeOK ==
  /\ order \in [Orders -> [status : Statuses, month : Months] \cup {None}]
  /\ placed \in SUBSET Orders
  /\ download \in [Downloads -> [month : Months, country : Countries \cup {None}] \cup {None}]
  /\ pc \in [Requests -> {"idle", "computing", "totalling", "answered", "counting", "summed"}]

OverAll(f) == MapThenSumSet(LAMBDA x : f[x], DOMAIN f)

(* By how much the months of a report can exceed its revenue: by the orders that
   came after the revenue was read, and by the totals below zero in it. *)
Leeway(came) ==
  Sum({o \in came : Total[o] > 0}) - Sum({o \in placed : Total[o] < 0})

(* The parts of an answer are read one after the other, and agree but for what
   came between.  The months add up to no more than the revenue, except for
   orders that were placed and paid, or taken out of "refunded" by a stale
   handler, while it was computed, and for totals below zero.  Each part of the
   download statistics counts the rows there at the start, and no others than
   those logged since; the countries leave out rows whose country is unknown. *)
PartsAgree ==
  \A r \in Requests :
    LET old == Cardinality(job[r].old)
        now == Cardinality(Logged)
        known == Cardinality({d \in job[r].old : download[d].country # None})
    IN  /\ At(r, "answered") =>
             OverAll(job[r].months) <= job[r].revenue + Leeway(job[r].came)
        /\ At(r, "summed") =>
             /\ job[r].total \in old..now
             /\ OverAll(job[r].months) \in old..now
             /\ OverAll(job[r].countries) \in known..now
=============================================================================
