---------------------------------- MODULE Shop ----------------------------------
(***************************************************************************)
(* Orders and downloads together.  The orders of OrderLifecycle are the    *)
(* tokens of Downloads: the two components share the order table and       *)
(* nothing else.                                                           *)
(***************************************************************************)
EXTENDS OrderLifecycle, Naturals

CONSTANTS
  Keys, Visitors, Backend, MayRefuse,
  FilesFail    \* may a download or an upload stop between two statements?

VARIABLES expired, row, objects, logs, copies,
          at,     \* at[v], task[v]: the pc and the job of a download or upload
          task

D == INSTANCE Downloads
  WITH Tokens <- Orders, Requests <- Visitors, pc <- at, job <- task,
       MayFail <- FilesFail

shopVars == <<vars, expired, row, objects, logs, copies, at, task>>

ShopInit == Init /\ D!Init

(* Without overlap, no handler of either component starts inside another. *)
OrderStep ==
  /\ Overlap \/ D!Quiet
  /\ Next
  /\ UNCHANGED <<expired, row, objects, logs, copies, at, task>>

FileStep ==
  /\ Overlap \/ Quiet
  /\ D!Handlers \/ \E o \in Orders : D!Expire(o)
  /\ UNCHANGED vars

ShopNext == OrderStep \/ FileStep

ShopSpec == ShopInit /\ [][ShopNext]_shopVars

-----------------------------------------------------------------------------
(* Properties *)

(* Downloads sees only orders that move as its environment says: whatever
   confirmations, updates and deletions do, and however they overlap, the order
   table is one that Downloads was checked against. *)
OrdersAreItsEnvironment == D!Spec

(* Without overlap, an order whose money went back yields no further file and
   no further license key. *)
RefundEndsDownloads ==
  [][\A o \in returned, p \in Products :
       logs'[<<o, p>>] = logs[<<o, p>>] /\ copies'[<<o, p>>] = copies[<<o, p>>]]_shopVars

(* TONG_QUAN 7.3, without overlap: a product of an order that is really placed,
   paid, moved, refunded and deleted meanwhile is downloaded at most once. *)
OneDownload == D!OneDownload

(* Without overlap, and if no download or upload fails or is refused: store and
   table hold the same files, and whoever spent the one download has the file. *)
TablesAgree == D!TablesAgree
=============================================================================
