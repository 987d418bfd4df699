---------------------------------- MODULE Carts ----------------------------------
(***************************************************************************)
(* The cart and the wish list of one user.                                 *)
(*                                                                         *)
(* A cart item is a row with an id, at most one for each product.  Each    *)
(* route reads the row and then writes by its id what it computed from     *)
(* what it read.  The wish list is one field, read and written whole.      *)
(***************************************************************************)
EXTENDS Slots, Integers, FiniteSets

CONSTANTS
  Products,
  Quantities,   \* quantities a request may name, none of them refused
  MAX_ITEM      \* bound on the item ids and on the quantities asked for
                \* or taken back

VARIABLES
  cart,        \* cart[p]: the item of product p, or None
  lastItem,    \* item ids drawn so far
  wishes,      \* the wishlist field
  due,         \* due[p]: what the answered requests add up to (history)
  wished       \* products toggled an odd number of times (history)

vars == <<cart, lastItem, wishes, due, wished, slotVars>>

(* asked and back: what the positive and the negative quantities named by the
   writes of this row add up to (history) *)
Item(id, quantity, asked, back) ==
  [id |-> id, quantity |-> quantity, asked |-> asked, back |-> back]

Gain(q) == IF q > 0 THEN q ELSE 0
Loss(q) == IF q < 0 THEN q ELSE 0

Fresh(id, q) == Item(id, q, Gain(q), Loss(q))

(* The row after a write of q that leaves it with a quantity *)
Written(item, quantity, q) ==
  Item(item.id, quantity, item.asked + Gain(q), item.back + Loss(q))

(* Bound: the sums of a row *)
InBounds(item, q) == item.asked + Gain(q) <= MAX_ITEM /\ -MAX_ITEM <= item.back + Loss(q)

Init ==
  /\ cart = [p \in Products |-> None]
  /\ lastItem = 0
  /\ wishes = {} /\ wished = {}
  /\ due = [p \in Products |-> 0]
  /\ AllIdle

(* found: the row that was read, or None *)
Job(product, quantity, found) ==
  [product |-> product, quantity |-> quantity, found |-> found]

Same(p, found) == cart[p] # None /\ found # None /\ cart[p].id = found.id

Put(p, item) == cart' = [cart EXCEPT ![p] = item]
Owe(p, n) == due' = [due EXCEPT ![p] = n]

-----------------------------------------------------------------------------
(* addItem, and one item of sync *)

AddItem(r, p, q) ==
  /\ Admit(r)
  /\ Go(r, "adding", Job(p, q, cart[p]))
  /\ UNCHANGED <<cart, lastItem, wishes, due, wished>>

(* sync adds its items at the same time, each as addItem does: it fills
   several slots at once, with distinct products unless requests overlap. *)
Sync(rs, p, q) ==
  /\ Open
  /\ \A r \in rs : ~Active(r)
  /\ \A r, s \in rs : p[r] = p[s] /\ r # s => Overlap
  /\ pc' = [r \in Requests |-> IF r \in rs THEN "finding" ELSE pc[r]]
  /\ job' = [r \in Requests |-> IF r \in rs THEN Job(p[r], q, None) ELSE job[r]]
  /\ UNCHANGED <<cart, lastItem, wishes, due, wished>>

FindItem(r) ==
  /\ At(r, "finding")
  /\ LET p == job[r].product
     IN  Go(r, "adding", Job(p, job[r].quantity, cart[p]))
  /\ UNCHANGED <<cart, lastItem, wishes, due, wished>>

(* Mutant: the quantity asked for replaces the one in the cart. *)
SumReplaced(found, q) == q

(* Mutant: the quantity is added twice. *)
SumTwice(found, q) == found.quantity + q + q

Sum(found, q) == found.quantity + q

(* update by id throws when the row is gone, create when there is one. *)
WriteAddition(r) ==
  /\ At(r, "adding")
  /\ LET p == job[r].product
         q == job[r].quantity
         found == job[r].found
     IN  \/ /\ found # None /\ Same(p, found)
            /\ InBounds(cart[p], q)
            /\ Put(p, Written(cart[p], Sum(found, q), q))
            /\ Owe(p, due[p] + q)
            /\ UNCHANGED lastItem
         \/ /\ found = None /\ cart[p] = None
            /\ lastItem < MAX_ITEM
            /\ lastItem' = lastItem + 1
            /\ Put(p, Fresh(lastItem', q))
            /\ Owe(p, due[p] + q)
         \/ /\ ~Same(p, found)
            /\ found # None \/ cart[p] # None
            /\ UNCHANGED <<cart, due, lastItem>>
  /\ Leave(r)
  /\ UNCHANGED <<wishes, wished>>

-----------------------------------------------------------------------------
(* updateQuantity, removeItem and clear *)

UpdateQuantity(r, p, q) ==
  /\ Admit(r)
  /\ IF cart[p] = None THEN Leave(r) ELSE Go(r, "setting", Job(p, q, cart[p]))
  /\ UNCHANGED <<cart, lastItem, wishes, due, wished>>

(* removeItem does what updateQuantity does with a quantity of 0. *)
RemoveItem(r, p) == UpdateQuantity(r, p, 0)

WriteQuantity(r) ==
  /\ At(r, "setting")
  /\ LET p == job[r].product
         q == job[r].quantity
     IN  IF ~Same(p, job[r].found) THEN UNCHANGED <<cart, due>>
         ELSE IF q <= 0 THEN Put(p, None) /\ Owe(p, 0)
         ELSE /\ InBounds(cart[p], q)
              /\ Put(p, Written(cart[p], q, q))
              /\ Owe(p, q)
  /\ Leave(r)
  /\ UNCHANGED <<lastItem, wishes, wished>>

Clear ==
  /\ Open
  /\ cart' = [p \in Products |-> None]
  /\ due' = [p \in Products |-> 0]
  /\ UNCHANGED <<lastItem, wishes, wished, slotVars>>

(* A product that is deleted takes its cart items with it. *)
Cascade(p) ==
  /\ Open
  /\ Put(p, None)
  /\ Owe(p, 0)
  /\ UNCHANGED <<lastItem, wishes, wished, slotVars>>

-----------------------------------------------------------------------------
(* toggle *)

Flipped(list, p) == IF p \in list THEN list \ {p} ELSE list \cup {p}

Toggle(r, p) ==
  /\ Admit(r)
  /\ Go(r, "wishing", Job(p, 0, Flipped(wishes, p)))
  /\ UNCHANGED <<cart, lastItem, wishes, due, wished>>

WriteWishes(r) ==
  /\ At(r, "wishing")
  /\ wishes' = job[r].found
  /\ wished' = IF job[r].product \in wished THEN wished \ {job[r].product}
               ELSE wished \cup {job[r].product}
  /\ Leave(r)
  /\ UNCHANGED <<cart, lastItem, due>>

Fail(r) == Stop(r) /\ UNCHANGED <<cart, lastItem, wishes, due, wished>>

Entries(r) ==
  \E p \in Products :
    \/ RemoveItem(r, p) \/ Toggle(r, p)
    \/ \E q \in Quantities : AddItem(r, p, q) \/ UpdateQuantity(r, p, q)

Next ==
  \/ \E r \in Requests : \/ Entries(r) \/ FindItem(r) \/ WriteAddition(r)
                         \/ WriteQuantity(r) \/ WriteWishes(r) \/ Fail(r)
  \/ \E rs \in SUBSET Requests, q \in Quantities :
       \E p \in [rs -> Products] : Cardinality(rs) > 1 /\ Sync(rs, p, q)
  \/ Clear \/ \E p \in Products : Cascade(p)

Spec == Init /\ [][Next]_vars

-----------------------------------------------------------------------------
(* Properties *)

Held(p) == IF cart[p] = None THEN 0 ELSE cart[p].quantity

TypeOK ==
  /\ \A p \in Products : cart[p] # None => cart[p].id \in 1..lastItem
  /\ lastItem \in 0..MAX_ITEM
  /\ wishes \in SUBSET Products /\ wished \in SUBSET Products
  /\ due \in [Products -> Int]
  /\ pc \in [Requests -> {"idle", "finding", "adding", "setting", "wishing"}]

(* One request at a time, failures and the parallel writes of a sync that names
   each product once included, the cart holds what the answered requests add up
   to, and the wish list what was toggled on last. *)
CartIsExact == Quiet => wishes = wished /\ \A p \in Products : Held(p) = due[p]

(* An addition that overlaps another one may be lost, and one that overlaps an
   update may undo it, but neither makes up a quantity.  However they overlap,
   an item holds no more than the positive quantities that its writes named add
   up to, and no less than the negative ones, which no route refuses. *)
NothingIsMadeUp ==
  \A p \in Products : cart[p] # None => cart[p].quantity \in cart[p].back..cart[p].asked
=============================================================================
