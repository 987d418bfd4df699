--------------------------- MODULE MCOrderLifecycle ---------------------------
(***************************************************************************)
(* Small instances of OrderLifecycle: one exclusive and one ordinary       *)
(* product, baskets that hold the exclusive one alone or both, and the     *)
(* route sets the runs choose between.                                     *)
(***************************************************************************)
EXTENDS OrderLifecycle

CONSTANTS gem, kit

MCProducts == {gem, kit}
MCExclusive == {gem}
JustGem == {gem}
BothOnly == {{gem, kit}}
GemOnly == {{gem}}

AllRoutes == {"create", "confirm", "webhook", "status", "bulk",
              "deleteOrders", "removeProducts", "editProduct"}
NoEdits == AllRoutes \ {"editProduct"}
ShopRoutes == {"create", "confirm", "webhook", "status", "bulk", "deleteOrders"}
BuyPath == {"create", "confirm"}
BulkPath == {"create", "confirm", "bulk"}
=============================================================================
