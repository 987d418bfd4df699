--------------------------------- MODULE MCShop ---------------------------------
(***************************************************************************)
(* Small instances of Shop: an exclusive product and another one, with a   *)
(* file each.                                                              *)
(***************************************************************************)
EXTENDS Shop

Prod == {"gem", "kit"}
Gem == {"gem"}
Basket == {Prod}
Updates == {"create", "confirm", "status", "bulk", "deleteOrders"}
=============================================================================
