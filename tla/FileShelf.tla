-------------------------------- MODULE FileShelf --------------------------------
(***************************************************************************)
(* What the store of product files promises the buyers: a product has no   *)
(* file or one file, a file is never replaced in place, and no file serves *)
(* two products.  The stored object and its row behave as one shelf.       *)
(***************************************************************************)
CONSTANTS Products, Keys, None

VARIABLE shelf

Init == shelf = [p \in Products |-> None]

Put(p, k) ==
  /\ shelf[p] = None
  /\ \A q \in Products : shelf[q] # k
  /\ shelf' = [shelf EXCEPT ![p] = k]

Remove(p) ==
  /\ shelf[p] # None
  /\ shelf' = [shelf EXCEPT ![p] = None]

Next == \E p \in Products : Remove(p) \/ \E k \in Keys : Put(p, k)

Spec == Init /\ [][Next]_shelf
=============================================================================
