----------------------------- MODULE OrderStatus -----------------------------
(***************************************************************************)
(* What the order table promises its readers, one order at a time: an      *)
(* order is placed as pending and then only follows the edges              *)
(*     pending -> paid -> delivered -> completed                           *)
(*                  \          \                                           *)
(*                   +----------+-----> refunded                           *)
(* until an administrator deletes the row, which is final.  No request,    *)
(* payment gateway or product appears here; OrderLifecycle implements this *)
(* specification as long as requests do not overlap.                       *)
(***************************************************************************)
CONSTANT Orders

VARIABLE status     \* status[o]: the row's status; "new" before, "deleted" after

Edges == { <<"new", "pending">>, <<"pending", "paid">>,
           <<"paid", "delivered">>, <<"paid", "refunded">>,
           <<"delivered", "completed">>, <<"delivered", "refunded">> }

Init == status = [o \in Orders |-> "new"]

(* One order moves along one edge. *)
Move(o, s) ==
  /\ <<status[o], s>> \in Edges
  /\ status' = [status EXCEPT ![o] = s]

(* Any set of existing orders is deleted at once. *)
Delete(os) ==
  /\ \A o \in os : status[o] \notin {"new", "deleted"}
  /\ status' = [o \in Orders |-> IF o \in os THEN "deleted" ELSE status[o]]

Next ==
  \/ \E o \in Orders, e \in Edges : Move(o, e[2])
  \/ \E os \in SUBSET Orders : Delete(os)

Spec == Init /\ [][Next]_status
=============================================================================
