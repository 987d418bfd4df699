------------------------------- MODULE ShopProofs -------------------------------
(***************************************************************************)
(* Theorems about Shop: the orders and the downloads over one order table. *)
(***************************************************************************)
EXTENDS Shop, OrderSerialProofs

(* A step of the orders is one that Downloads expects. *)
LEMMA OrdersMoveAsExpected ==
  ASSUME SafetyInv, [ShopNext]_shopVars
  PROVE  [D!Next]_(D!vars)
<1>1. CASE OrderStep
  <2>1. status' \in [Orders -> D!Statuses] /\ TypeOK
    <3>1. TypeOK /\ TypeOK'
      BY <1>1, TypeStep DEF SafetyInv, OrderStep
    <3> QED
      BY <3>1 DEF TypeOK, Statuses, Live, D!Statuses, D!PaidOn
  <2>2. ASSUME NEW o \in Orders PROVE status'[o] \in D!After(status[o])
    <3>1. Gate(o) /\ status[o] \in Statuses
      BY <1>1, <2>1, GateStep DEF OrderStep, TypeOK
    <3> QED
      BY <3>1 DEF Gate, D!After, PaidOn, D!PaidOn, Statuses, Live
  <2> QED
    BY <1>1, <2>1, <2>2
       DEF OrderStep, D!Next, D!Environment, D!OrdersMove, D!fileVars, D!logVars
<1>2. CASE FileStep
  BY <1>2 DEF FileStep, D!Next, D!Environment
<1>3. CASE UNCHANGED shopVars
  BY <1>3 DEF shopVars, vars, orderVars, D!vars, D!orderVars, D!fileVars, D!logVars
<1> QED
  BY <1>1, <1>2, <1>3 DEF ShopNext

LEMMA ShopSafe == SafetyInv /\ [ShopNext]_shopVars => SafetyInv'
  BY SafetyStep DEF ShopNext, OrderStep, FileStep, shopVars

(* OrdersAreItsEnvironment: the downloads beside the orders are the downloads
   that Downloads describes.  Whatever it promises of every behaviour, and each
   theorem about it, holds of the two together, overlap and failures included. *)
THEOREM ShopHasDownloads == ShopSpec => OrdersAreItsEnvironment
<1>1. ShopInit => SafetyInv /\ D!Init
  BY InitSafe DEF ShopInit
<1> QED
  BY <1>1, ShopSafe, OrdersMoveAsExpected, PTL DEF ShopSpec, OrdersAreItsEnvironment, D!Spec

-----------------------------------------------------------------------------
(* Refunds end downloads, when requests do not overlap.

   An order whose money went back is refunded or deleted, and a handler that
   serves an order still finds it paid, since no order moves under it. *)

Serving == {"locating", "consulting", "logging", "handing"}

Tables ==
  /\ at = [v \in Visitors |-> at[v]] /\ task = [v \in Visitors |-> task[v]]
  /\ logs = [x \in Orders \X Products |-> logs[x]]
  /\ copies = [x \in Orders \X Products |-> copies[x]]

ServesPaid ==
  \A v \in Visitors :
    at[v] \in Serving => task[v].token \in Orders /\ status[task[v].token] = "paid"

ShopInv == SerialInv /\ Tables /\ ServesPaid

(* What a step of the downloads does to the logs and to those who serve. *)
LEMMA FilesForPaid ==
  ASSUME Tables, ServesPaid, RefundIsFinal, returned \subseteq Orders, D!Handlers,
         UNCHANGED <<status, returned>>
  PROVE  /\ Tables' /\ ServesPaid'
         /\ \A o \in returned, p \in Products :
              logs'[<<o, p>>] = logs[<<o, p>>] /\ copies'[<<o, p>>] = copies[<<o, p>>]
<1> DEFINE Kept == \A o \in returned, p \in Products :
                     logs'[<<o, p>>] = logs[<<o, p>>] /\ copies'[<<o, p>>] = copies[<<o, p>>]
<1>1. ASSUME NEW v \in Visitors, NEW t \in Orders, NEW p \in Products,
             D!ReadOrder(v, t, p)
      PROVE  Tables' /\ ServesPaid' /\ Kept
  BY <1>1 DEF D!ReadOrder, D!Admissible, D!Enter, D!Leave, D!Job, D!NoJob, D!logVars, Tables, ServesPaid,
              Serving
<1>2. ASSUME NEW v \in Visitors, NEW p \in Products, D!ReadFile(v, p)
      PROVE  Tables' /\ ServesPaid' /\ Kept
  BY <1>2 DEF D!ReadFile, D!Enter, D!Leave, D!Job, D!NoJob, D!logVars, Tables, ServesPaid, Serving
<1>3. ASSUME NEW v \in Visitors, NEW t \in Orders, NEW p \in Products,
             D!ReadLog(v, t, p)
      PROVE  Tables' /\ ServesPaid' /\ Kept
  BY <1>3 DEF D!ReadLog, D!Enter, D!Leave, D!Step, D!logVars, Tables, ServesPaid, Serving
<1>4. ASSUME NEW v \in Visitors, NEW t \in Orders, NEW p \in Products,
             D!WriteLog(v, t, p) \/ D!HandOver(v, t, p)
      PROVE  Tables' /\ ServesPaid' /\ Kept
  <2>1. t \notin returned
    BY <1>4 DEF D!WriteLog, D!HandOver, ServesPaid, Serving, RefundIsFinal
  <2>2. \A o \in returned, q \in Products : <<o, q>> # <<t, p>> /\ <<o, q>> \in Orders \X Products
    BY <2>1
  <2>3. \/ UNCHANGED <<logs, copies>>
        \/ logs' = [logs EXCEPT ![<<t, p>>] = @ + 1] /\ UNCHANGED copies
        \/ copies' = [copies EXCEPT ![<<t, p>>] = @ + 1] /\ UNCHANGED logs
    BY <1>4 DEF D!WriteLog, D!HandOver
  <2>4. Kept
    BY <2>2, <2>3 DEF Tables
  <2>5. /\ logs' = [x \in Orders \X Products |-> logs'[x]]
        /\ copies' = [x \in Orders \X Products |-> copies'[x]]
    BY <2>3 DEF Tables
  <2>6. ServesPaid' /\ at' = [w \in Visitors |-> at'[w]] /\ task' = [w \in Visitors |-> task'[w]]
    BY <1>4 DEF D!WriteLog, D!HandOver, D!Leave, D!Enter, D!Step, D!Active, D!Working,
                ServesPaid, Serving, Tables
  <2> QED
    BY <2>4, <2>5, <2>6 DEF Tables
<1>5. ASSUME NEW v \in Visitors,
             \/ D!Drop(v) \/ D!StoreRefused(v) \/ D!Fail(v)
             \/ \E p \in Products : \/ D!Delete(v, p) \/ D!Unlink(v, p) \/ D!Publish(v, p)
                                    \/ \E valid \in BOOLEAN : D!Save(v, p, valid)
             \/ \E k \in Keys : D!Store(v, k)
      PROVE  Tables' /\ ServesPaid' /\ Kept
  <2>1. /\ at' = [w \in Visitors |-> at'[w]] /\ task' = [w \in Visitors |-> task'[w]]
        /\ at'[v] \notin Serving
        /\ \A w \in Visitors \ {v} : at'[w] = at[w] /\ task'[w] = task[w]
    BY <1>5 DEF D!Drop, D!StoreRefused, D!Fail, D!Delete, D!Unlink, D!Publish, D!Save, D!Store,
                D!Leave, D!Enter, D!Step, Tables, Serving
  <2>2. UNCHANGED <<logs, copies>>
    BY <1>5 DEF D!Drop, D!StoreRefused, D!Fail, D!Delete, D!Unlink, D!Publish, D!Save, D!Store,
                D!logVars
  <2> QED
    BY <2>1, <2>2 DEF Tables, ServesPaid
<1> QED
  BY <1>1, <1>2, <1>3, <1>4, <1>5 DEF D!Handlers, D!Keep, D!Download

LEMMA ShopInvStep ==
  ASSUME ShopInv, [ShopNext]_shopVars, Overlap = FALSE
  PROVE  /\ ShopInv'
         /\ \A o \in returned, p \in Products :
              logs'[<<o, p>>] = logs[<<o, p>>] /\ copies'[<<o, p>>] = copies[<<o, p>>]
<1>1. SerialInv'
  BY SerialStep DEF ShopInv, ShopNext, OrderStep, FileStep, shopVars
<1>2. CASE D!Handlers /\ UNCHANGED vars
  <2>1. UNCHANGED <<status, returned>>
    BY <1>2 DEF vars, orderVars
  <2>2. RefundIsFinal /\ returned \subseteq Orders
    BY DEF ShopInv, SerialInv, SafetyInv, TypeOK
  <2> QED
    BY <1>1, <1>2, <2>1, <2>2, FilesForPaid DEF ShopInv
<1>3. CASE /\ UNCHANGED <<logs, copies, at, task>>
           /\ D!Quiet \/ UNCHANGED status
  <2>1. ServesPaid'
    BY <1>3 DEF ShopInv, ServesPaid, Serving, D!Quiet, D!Active, D!Working
  <2> QED
    BY <1>1, <1>3, <2>1 DEF ShopInv, Tables
<1>4. CASE \E o \in Orders : D!Expire(o)
  BY <1>3, <1>4 DEF D!Expire, D!logVars
<1> QED
  BY <1>2, <1>3, <1>4 DEF ShopNext, OrderStep, FileStep, shopVars, vars, orderVars

(* RefundEndsDownloads: while requests do not overlap, an order whose money went
   back yields no further file and no further log, whatever fails in between. *)
THEOREM ShopRefundsEndDownloads ==
  ASSUME Overlap = FALSE
  PROVE  ShopSpec => RefundEndsDownloads
<1>1. ShopInit => ShopInv
  <2> SUFFICES ASSUME ShopInit PROVE ShopInv
    OBVIOUS
  <2>1. SerialInv
    BY InitSerial DEF ShopInit
  <2>2. Tables /\ ServesPaid
    BY DEF ShopInit, D!Init, Tables, ServesPaid, Serving
  <2> QED
    BY <2>1, <2>2 DEF ShopInv
<1>2. ShopInv /\ [ShopNext]_shopVars
        => /\ ShopInv'
           /\ [\A o \in returned, p \in Products :
                 logs'[<<o, p>>] = logs[<<o, p>>]
                 /\ copies'[<<o, p>>] = copies[<<o, p>>]]_shopVars
  BY ShopInvStep
<1> QED
  BY <1>1, <1>2, PTL DEF ShopSpec, RefundEndsDownloads
=============================================================================
