--------------------------- MODULE Payments_proofs ---------------------------
(***************************************************************************)
(* Proofs about orders and payments, for any number of products, orders,   *)
(* payments and overlapping requests.  What a payment request found under  *)
(* the payment's row lock stays true because the lock is exclusive; what   *)
(* two payments must not share is decided by the unique indexes, for which *)
(* a flushed success counts like a committed one; and money, once taken,   *)
(* is never given back, so that a status read long ago still proves it.    *)
(***************************************************************************)
EXTENDS Payments, Inventory_proofs

USE DEF InventoryRequests, Finished, InStock

-----------------------------------------------------------------------------
(* Orders: types and row locks.                                            *)

(* Inside its transaction a request has an order, and a line to stage.     *)
OrderAtHand ==
    \A r \in OrderRequests :
        /\ ord[r].pc = "new" => ord[r].staged = NothingStaged /\ ord[r].line = 1
        /\ ord[r].pc \in {"stage", "commit", "publish"} => ord[r].order \in OrderIds
        /\ ord[r].pc = "stage" => ord[r].line \in 1 .. Len(Lines[ord[r].order])

OrdInv == InvTypeOK /\ OrdTypeOK /\ OrderAtHand /\ OrderLockDiscipline

LEMMA RuleTypes ==
    ASSUME NEW rule \in TRANSITIONS \cup {NoRule}
    PROVE  rule.effect \in {-1, 0, 1} /\ rule.to \in OrderStatus \ {"NONE"}
BY DEF TRANSITIONS, NoRule, Rule, OrderStatus, HoldingStates, PaidStates

LEMMA NothingStagedType == NothingStaged \in [Products -> Seq(Ledger!Movement)]
BY DEF NothingStaged

LEMMA InitOrders == OrdersInit => OrdInv
<1> SUFFICES ASSUME OrdersInit
             PROVE  OrdInv
  OBVIOUS
<1>1. InvTypeOK
  BY InitTypeOK DEF OrdersInit
<1>2. /\ status \in [OrderIds -> OrderStatus]
      /\ taken \in [OrderIds -> Int]
      /\ lifecycle \subseteq Lifecycle
  BY DEF OrdersInit, OrdInit, OrderStatus, HoldingStates, PaidStates
<1>3. [pc |-> "new", order |-> NoOrder, rule |-> NoRule, line |-> 1,
       staged |-> NothingStaged, low |-> {}] \in OrdState
  BY NothingStagedType DEF OrdState
<1>4. OrdTypeOK
  BY <1>2, <1>3 DEF OrdersInit, OrdInit, OrdTypeOK
<1>5. OrderAtHand
  BY DEF OrdersInit, OrdInit, OrderAtHand
<1>6. OrderLockDiscipline
  BY InventoryAssumption, OrdersAssumption
     DEF OrdersInit, OrdInit, InvInit, StockInit, OrderLockDiscipline, Requests
<1> QED
  BY <1>1, <1>4, <1>5, <1>6 DEF OrdInv

(* The inventory's own requests neither take nor free a lock of an order.  *)
LEMMA AdjLeavesOrders ==
    ASSUME OrdInv, AdjNext, UNCHANGED ordVars
    PROVE  OrdInv'
<1>1. PICK r \in InventoryRequests : BeginAdj(r) \/ ContinueAdj(r) \/ CrashAdj(r)
  BY DEF AdjNext
<1>2. InvTypeOK'
  BY AdjNextTypeOK DEF OrdInv
<1>3. /\ r \notin OtherRequests /\ NoRequest \notin OtherRequests
      /\ OrderRequests \subseteq OtherRequests
      /\ adj[r].product \in Products
  BY InventoryAssumption, OrdersAssumption
     DEF Requests, OrdInv, InvTypeOK, AdjTypeOK, AdjState
<1>4. /\ rows \subseteq rows'
      /\ \/ rowLock' = rowLock
         \/ rowLock' = Released(r)
         \/ /\ rowLock[adj[r].product] = NoRequest
            /\ rowLock' = [rowLock EXCEPT ![adj[r].product] = r]
  BY <1>1 DEF BeginAdj, BeginCreate, BeginThreshold, BeginAdjust, BeginAdjustByProduct,
              ContinueAdj, InsertRow, SetThreshold, LockRow, LockHeldRow, ApplyAdjustment,
              CommitAdjustment, RefuseAdjustment, PublishLowStock, CrashAdj, stockVars,
              Unlocked
<1>5. \A p \in Products, s \in OrderRequests : rowLock'[p] = s <=> rowLock[p] = s
  BY <1>3, <1>4 DEF Released, OrdInv, InvTypeOK, StockTypeOK
<1>6. OrderLockDiscipline'
  BY <1>4, <1>5 DEF OrdInv, OrderLockDiscipline, ordVars
<1> QED
  BY <1>2, <1>6 DEF OrdInv, OrdTypeOK, OrderAtHand, ordVars, tableVars

(* A step of order request r: what it leaves behind in its own state a,    *)
(* and in what it shares with the others.                                  *)
OrderStep(r, a) ==
    /\ a \in OrdState /\ ord' = [ord EXCEPT ![r] = a]
    /\ InvTypeOK'
    /\ status' \in [OrderIds -> OrderStatus] /\ taken' \in [OrderIds -> Int]
    /\ lifecycle' \subseteq Lifecycle
    /\ rows' = rows
    /\ a.pc # "new"
    /\ a.pc \in {"stage", "commit", "publish"} => a.order \in OrderIds
    /\ a.pc = "stage" => a.line \in 1 .. Len(Lines[a.order])

LocksOfOthersKept(r) ==
    \A p \in Products, s \in OrderRequests \ {r} : rowLock'[p] = s <=> rowLock[p] = s

LocksWhatItStages(r, a) ==
    \A p \in Products :
        /\ rowLock'[p] = r => a.pc \in {"stage", "commit"}
        /\ a.pc \in {"stage", "commit"} /\ a.staged[p] # <<>> =>
             p \in rows /\ rowLock'[p] = r

LEMMA OrderStepKeeps ==
    ASSUME OrdInv, NEW r \in OrderRequests, NEW a,
           OrderStep(r, a), LocksOfOthersKept(r), LocksWhatItStages(r, a)
    PROVE  OrdInv'
<1>0. /\ a \in OrdState /\ rows' = rows /\ InvTypeOK'
      /\ a.pc # "new"
  BY DEF OrderStep
<1>1. /\ ord'[r] = a /\ ord' \in [OrderRequests -> OrdState]
      /\ \A s \in OrderRequests \ {r} : ord'[s] = ord[s]
  BY <1>0 DEF OrdInv, OrdTypeOK, OrderStep
<1>2. OrdTypeOK'
  BY <1>1 DEF OrdTypeOK, OrderStep
<1>3. OrderAtHand'
  BY <1>0, <1>1 DEF OrdInv, OrderAtHand, OrderStep
<1>4. \A p \in Products, s \in OrderRequests \ {r} : rowLock'[p] = s <=> rowLock[p] = s
  BY DEF LocksOfOthersKept
<1>5. \A p \in Products : rowLock'[p] \in OrderRequests =>
        ord'[rowLock'[p]].pc \in {"stage", "commit"}
  <2> SUFFICES ASSUME NEW p \in Products, rowLock'[p] \in OrderRequests
               PROVE  ord'[rowLock'[p]].pc \in {"stage", "commit"}
    OBVIOUS
  <2>1. CASE rowLock'[p] = r
    BY <1>1, <2>1 DEF LocksWhatItStages
  <2>2. CASE rowLock'[p] # r
    BY <1>1, <1>4, <2>2 DEF OrdInv, OrderLockDiscipline
  <2> QED
    BY <2>1, <2>2
<1>6. \A s \in OrderRequests, p \in Products :
        ord'[s].pc \in {"stage", "commit"} /\ ord'[s].staged[p] # <<>> =>
            p \in rows' /\ rowLock'[p] = s
  BY <1>0, <1>1, <1>4 DEF OrdInv, OrderLockDiscipline, LocksWhatItStages
<1>7. OrderLockDiscipline'
  BY <1>5, <1>6 DEF OrderLockDiscipline
<1> QED
  BY <1>0, <1>2, <1>3, <1>7 DEF OrdInv


(* A request that has not begun, or has ended its transaction, has no lock.*)
LEMMA NoLocksOutside ==
    ASSUME OrdInv, NEW r \in OrderRequests, ord[r].pc \notin {"stage", "commit"},
           NEW p \in Products
    PROVE  rowLock[p] # r
BY DEF OrdInv, OrderLockDiscipline

LEMMA BeginOrderKeeps ==
    ASSUME OrdInv, NEW r \in OrderRequests, NEW o \in OrderIds,
           CreateOrder(r, o) \/ (\E event \in ClientEvent : ReadOrder(r, o, event)
                                                        \/ RefuseTransition(r, o, event))
    PROVE  OrdInv'
<1>0. /\ ord[r] \in OrdState /\ ord[r].pc = "new"
      /\ ord[r].staged = NothingStaged /\ ord[r].line = 1
  BY DEF OrdInv, OrdTypeOK, OrderAtHand, CreateOrder, ReadOrder, RefuseTransition
<1>1. /\ invVars' = invVars /\ taken' = taken /\ lifecycle' = lifecycle
      /\ status' \in [OrderIds -> OrderStatus]
  BY DEF OrdInv, OrdTypeOK, CreateOrder, ReadOrder, RefuseTransition, tableVars, OrderStatus
<1>2. InvTypeOK'
  BY <1>1 DEF OrdInv, InvTypeOK, StockTypeOK, AdjTypeOK, invVars, stockVars
<1>3. Len(Lines[o]) \in Nat \ {0}
  BY OrdersAssumption
<1> DEFINE Becomes(a) ==
      /\ ord' = [ord EXCEPT ![r] = a]
      /\ a.pc \in {"stage", "commit", "publish", "failed"}
      /\ a.order = o /\ a.staged = NothingStaged /\ a.line = 1
<1>4. \E a \in OrdState : Becomes(a)
  <2>1. CASE CreateOrder(r, o)
    <3> DEFINE a == [ord[r] EXCEPT !.pc = "publish", !.order = o]
    <3>1. a \in OrdState /\ a.pc = "publish" /\ a.order = o
          /\ a.staged = NothingStaged /\ a.line = 1
      BY <1>0 DEF OrdState
    <3> QED
      BY <2>1, <3>1 DEF CreateOrder
  <2>2. ASSUME NEW event \in ClientEvent, ReadOrder(r, o, event)
        PROVE  \E a \in OrdState : Becomes(a)
    <3>1. PICK rule \in TRANSITIONS :
            ord' = [ord EXCEPT ![r] =
              [ord[r] EXCEPT !.pc = IF rule.effect = 0 THEN "commit" ELSE "stage",
                             !.order = o, !.rule = rule]]
      BY <2>2 DEF ReadOrder
    <3> DEFINE a == [ord[r] EXCEPT !.pc = IF rule.effect = 0 THEN "commit" ELSE "stage",
                                   !.order = o, !.rule = rule]
    <3>2. /\ a \in OrdState /\ a.pc \in {"stage", "commit"} /\ a.order = o
          /\ a.staged = NothingStaged /\ a.line = 1
      BY <1>0 DEF OrdState
    <3> QED
      BY <3>1, <3>2
  <2>3. ASSUME NEW event \in ClientEvent, RefuseTransition(r, o, event)
        PROVE  \E a \in OrdState : Becomes(a)
    <3> DEFINE a == [ord[r] EXCEPT !.pc = "failed", !.order = o]
    <3>1. a \in OrdState /\ a.pc = "failed" /\ a.order = o
          /\ a.staged = NothingStaged /\ a.line = 1
      BY <1>0 DEF OrdState
    <3>2. ord' = [ord EXCEPT ![r] = a]
      BY <2>3 DEF RefuseTransition
    <3> HIDE DEF a
    <3> QED
      BY <3>1, <3>2
  <2> QED
    BY <2>1, <2>2, <2>3
<1>5. PICK a \in OrdState : Becomes(a)
  BY <1>4
<1>6. \A p \in Products : rowLock'[p] = rowLock[p] /\ rowLock[p] # r
  BY <1>0, <1>1, NoLocksOutside DEF invVars, stockVars
<1>7. \A p \in Products : a.staged[p] = <<>>
  BY <1>5 DEF NothingStaged
<1>8. taken' \in [OrderIds -> Int] /\ lifecycle' \subseteq Lifecycle /\ rows' = rows
  BY <1>1 DEF OrdInv, OrdTypeOK, invVars, stockVars
<1>9. /\ a.pc # "new"
      /\ a.pc \in {"stage", "commit", "publish"} => a.order \in OrderIds
      /\ a.pc = "stage" => a.line \in 1 .. Len(Lines[a.order])
      /\ ord' = [ord EXCEPT ![r] = a]
  BY <1>3, <1>5
<1> HIDE DEF Becomes
<1>10. OrderStep(r, a)
  BY <1>1, <1>2, <1>8, <1>9 DEF OrderStep
<1>11. LocksOfOthersKept(r) /\ LocksWhatItStages(r, a)
  BY <1>6, <1>7 DEF LocksOfOthersKept, LocksWhatItStages
<1> QED
  BY <1>10, <1>11, OrderStepKeeps

(* Every way out of a transaction that changes no table.                   *)
LEMMA RollbackKeeps ==
    ASSUME OrdInv, NEW r \in OrderRequests, NEW label \in {"failed", "crashed"},
           rowLock' = Released(r), ord' = [ord EXCEPT ![r] = [@ EXCEPT !.pc = label]],
           UNCHANGED <<rows, quantity, threshold, opening, movements, lowStock, adj,
                       tableVars, lifecycle>>
    PROVE  OrdInv'
<1> DEFINE a == [ord[r] EXCEPT !.pc = label]
<1>1. a \in OrdState /\ a.pc = label
  BY DEF OrdInv, OrdTypeOK, OrdState
<1>2. InvTypeOK'
  BY ReleasedType DEF OrdInv, InvTypeOK, StockTypeOK, AdjTypeOK
<1>3. \A p \in Products : rowLock'[p] = IF rowLock[p] = r THEN NoRequest ELSE rowLock[p]
  BY DEF Released
<1>4. NoRequest \notin OrderRequests
  BY InventoryAssumption, OrdersAssumption DEF Requests
<1>5. /\ status' \in [OrderIds -> OrderStatus] /\ taken' \in [OrderIds -> Int]
      /\ lifecycle' \subseteq Lifecycle
  BY DEF OrdInv, OrdTypeOK, tableVars
<1> HIDE DEF a
<1>6. ord' = [ord EXCEPT ![r] = a]
  BY DEF a
<1>7. OrderStep(r, a)
  BY <1>1, <1>2, <1>5, <1>6 DEF OrderStep
<1>8. LocksOfOthersKept(r) /\ LocksWhatItStages(r, a)
  BY <1>1, <1>3, <1>4 DEF LocksOfOthersKept, LocksWhatItStages
<1> QED
  BY <1>7, <1>8, OrderStepKeeps

LEMMA OwnQuantityType ==
    ASSUME OrdInv, NEW r \in OrderRequests, NEW p \in Products
    PROVE  OwnQuantity(r, p) \in Quantity
<1>1. ord[r].staged[p] \in Seq(Ledger!Movement) /\ quantity[p] \in Quantity
  BY DEF OrdInv, OrdTypeOK, OrdState, InvTypeOK, StockTypeOK
<1>2. CASE ord[r].staged[p] = <<>>
  BY <1>1, <1>2 DEF OwnQuantity, Ledger!After
<1>3. CASE ord[r].staged[p] # <<>>
  <2> DEFINE m == ord[r].staged[p]
  <2>1. Len(m) \in 1 .. Len(m)
    BY <1>1, <1>3
  <2>2. m[Len(m)] \in Ledger!Movement
    BY <1>1, <2>1
  <2> QED
    BY <1>3, <2>2 DEF OwnQuantity, Ledger!After, Ledger!Movement, Ledger!Quantity, Quantity
<1> QED
  BY <1>2, <1>3

LEMMA StageLineKeeps ==
    ASSUME OrdInv, NEW r \in OrderRequests, StageLine(r)
    PROVE  OrdInv'
<1> DEFINE p == NextLine(r).product
           new == OwnQuantity(r, p) + LineDelta(r)
           e == [delta |-> LineDelta(r), resulting |-> new]
           o == ord[r].order
           more == ord[r].line < Len(Lines[o])
           low == IF new <= threshold[p]
                  THEN ord[r].low \cup {[product |-> p, quantity |-> new,
                                        threshold |-> threshold[p]]}
                  ELSE ord[r].low
<1>0. /\ ord[r] \in OrdState /\ ord[r].pc = "stage" /\ o \in OrderIds
      /\ ord[r].line \in 1 .. Len(Lines[o])
  BY DEF OrdInv, OrdTypeOK, OrderAtHand, StageLine
<1>1. NextLine(r) \in Line /\ Len(Lines[o]) \in Nat
  <2>1. Lines[o] \in Seq(Line)
    BY <1>0, OrdersAssumption
  <2> QED
    BY <1>0, <2>1 DEF NextLine
<1>2. p \in Products /\ NextLine(r).quantity \in Nat
  BY <1>1 DEF Line
<1>3. ord[r].rule.effect \in {-1, 0, 1}
  BY <1>0, RuleTypes DEF OrdState
<1>4. LineDelta(r) \in Int
  BY <1>2, <1>3 DEF LineDelta
<1>5. /\ p \in rows /\ new \in Quantity /\ rowLock[p] \in {NoRequest, r}
      /\ rowLock' = [rowLock EXCEPT ![p] = r]
  BY DEF StageLine, Feasible, MayLock
<1>6. e \in Ledger!Movement
  BY <1>4, <1>5 DEF Ledger!Movement, Ledger!Quantity, Quantity
<1>7. low \in SUBSET LowStockEvent
  BY <1>0, <1>2, <1>5 DEF OrdState, LowStockEvent, OrdInv, InvTypeOK, StockTypeOK
<1> DEFINE a == [ord[r] EXCEPT !.pc = IF more THEN "stage" ELSE "commit",
                               !.line = @ + 1,
                               !.staged[p] = Append(@, e),
                               !.low = IF new <= threshold[p]
                                       THEN @ \cup {[product |-> p, quantity |-> new,
                                                     threshold |-> threshold[p]]}
                                       ELSE @]
<1>8. ord' = [ord EXCEPT ![r] = a]
  BY DEF StageLine
<1>9. ord[r].staged \in [Products -> Seq(Ledger!Movement)] /\ ord[r].line \in Nat
  BY <1>0 DEF OrdState
<1> DEFINE st == [ord[r].staged EXCEPT ![p] = Append(ord[r].staged[p], e)]
<1>10. /\ st \in [Products -> Seq(Ledger!Movement)]
       /\ \A q \in Products : q # p => st[q] = ord[r].staged[q]
  <2>1. Append(ord[r].staged[p], e) \in Seq(Ledger!Movement)
    BY <1>2, <1>6, <1>9
  <2> QED
    BY <1>9, <2>1
<1> HIDE DEF p, new, e, low, st
<1>11. /\ a \in OrdState
       /\ a.pc = IF more THEN "stage" ELSE "commit"
       /\ a.line = ord[r].line + 1 /\ a.order = o /\ a.staged = st
  <2>1. a = [ord[r] EXCEPT !.pc = IF more THEN "stage" ELSE "commit",
                           !.line = ord[r].line + 1, !.staged = st, !.low = low]
    BY <1>0 DEF OrdState, st, low
  <2> HIDE DEF a, more
  <2>2. ord[r].line + 1 \in Nat
    BY <1>9
  <2> QED
    BY <1>0, <1>7, <1>10, <2>1, <2>2 DEF OrdState
<1> HIDE DEF a
<1>12. InvTypeOK'
  <2>1. rowLock' \in [Products -> Requests \cup {NoRequest}]
    BY <1>2, <1>5, OrdersAssumption DEF OrdInv, InvTypeOK, StockTypeOK, Requests
  <2> QED
    BY <2>1 DEF StageLine, OrdInv, InvTypeOK, StockTypeOK, AdjTypeOK
<1>13. /\ status' \in [OrderIds -> OrderStatus] /\ taken' \in [OrderIds -> Int]
       /\ lifecycle' \subseteq Lifecycle /\ rows' = rows
  BY DEF StageLine, OrdInv, OrdTypeOK, tableVars
<1>14. \A q \in Products : rowLock'[q] = IF q = p THEN r ELSE rowLock[q]
  BY <1>2, <1>5 DEF OrdInv, InvTypeOK, StockTypeOK
<1>15. \A q \in Products : st[q] # <<>> => q \in rows /\ rowLock'[q] = r
  BY <1>0, <1>5, <1>10, <1>14 DEF OrdInv, OrderLockDiscipline
<1>16. a.pc = "stage" => a.line \in 1 .. Len(Lines[a.order])
  BY <1>0, <1>1, <1>11
<1>17. OrderStep(r, a)
  BY <1>0, <1>8, <1>11, <1>12, <1>13, <1>16 DEF OrderStep
<1>18. NoRequest \notin OrderRequests
  BY InventoryAssumption, OrdersAssumption DEF Requests
<1>19. LocksOfOthersKept(r) /\ LocksWhatItStages(r, a)
  BY <1>0, <1>5, <1>11, <1>14, <1>15, <1>18 DEF LocksOfOthersKept, LocksWhatItStages
<1> QED
  BY <1>17, <1>19, OrderStepKeeps

LEMMA CommitTransitionKeeps ==
    ASSUME OrdInv, NEW r \in OrderRequests, CommitTransition(r)
    PROVE  OrdInv'
<1> DEFINE o == ord[r].order
           a == [ord[r] EXCEPT !.pc = "publish"]
<1>0. ord[r] \in OrdState /\ o \in OrderIds
  BY DEF OrdInv, OrdTypeOK, OrderAtHand, CommitTransition
<1>1. a \in OrdState /\ a.pc = "publish" /\ a.order = o
  BY <1>0 DEF OrdState
<1>2. ord[r].rule.effect \in {-1, 0, 1} /\ ord[r].rule.to \in OrderStatus
  BY <1>0, RuleTypes DEF OrdState
<1>3. status' \in [OrderIds -> OrderStatus] /\ taken' \in [OrderIds -> Int]
  BY <1>0, <1>2 DEF CommitTransition, OrdInv, OrdTypeOK
<1>4. quantity' \in [Products -> Quantity]
  BY OwnQuantityType DEF CommitTransition
<1>5. movements' \in [Products -> Seq(Ledger!Movement)]
  <2>1. \A p \in Products : movements[p] \o ord[r].staged[p] \in Seq(Ledger!Movement)
    BY <1>0 DEF OrdState, OrdInv, InvTypeOK, StockTypeOK
  <2> QED
    BY <2>1 DEF CommitTransition
<1>6. InvTypeOK'
  BY <1>4, <1>5, ReleasedType DEF CommitTransition, OrdInv, InvTypeOK, StockTypeOK, AdjTypeOK
<1>7. \A p \in Products : rowLock'[p] = IF rowLock[p] = r THEN NoRequest ELSE rowLock[p]
  BY DEF CommitTransition, Released
<1>8. NoRequest \notin OrderRequests
  BY InventoryAssumption, OrdersAssumption DEF Requests
<1>9. /\ lifecycle' \subseteq Lifecycle /\ rows' = rows /\ ord' = [ord EXCEPT ![r] = a]
  BY DEF CommitTransition, OrdInv, OrdTypeOK
<1> HIDE DEF a
<1>10. OrderStep(r, a)
  BY <1>0, <1>1, <1>3, <1>6, <1>9 DEF OrderStep
<1>11. LocksOfOthersKept(r) /\ LocksWhatItStages(r, a)
  BY <1>1, <1>7, <1>8 DEF LocksOfOthersKept, LocksWhatItStages
<1> QED
  BY <1>10, <1>11, OrderStepKeeps

LEMMA PublishOrderKeeps ==
    ASSUME OrdInv, NEW r \in OrderRequests, PublishOrder(r)
    PROVE  OrdInv'
<1> DEFINE a == [ord[r] EXCEPT !.pc = "done"]
<1>0. ord[r] \in OrdState /\ ord[r].order \in OrderIds /\ ord[r].pc = "publish"
  BY DEF OrdInv, OrdTypeOK, OrderAtHand, PublishOrder
<1>1. a \in OrdState /\ a.pc = "done"
  BY <1>0 DEF OrdState
<1>2. lifecycle' \subseteq Lifecycle
  <2>1. \A to : LifecycleEvent(to) \subseteq {"OrderCreated", "OrderConfirmed", "OrderCancelled"}
    BY DEF LifecycleEvent
  <2> QED
    BY <1>0, <2>1 DEF PublishOrder, OrdInv, OrdTypeOK, Lifecycle
<1>3. InvTypeOK'
  <2>1. lowStock' \subseteq LowStockEvent
    BY <1>0 DEF PublishOrder, OrdState, OrdInv, InvTypeOK, StockTypeOK
  <2> QED
    BY <2>1 DEF PublishOrder, OrdInv, InvTypeOK, StockTypeOK, AdjTypeOK, stockVars
<1>4. \A p \in Products : rowLock'[p] = rowLock[p] /\ rowLock[p] # r
  BY <1>0, NoLocksOutside DEF PublishOrder, stockVars
<1>5. /\ status' \in [OrderIds -> OrderStatus] /\ taken' \in [OrderIds -> Int]
      /\ rows' = rows /\ ord' = [ord EXCEPT ![r] = a]
  BY DEF PublishOrder, OrdInv, OrdTypeOK, tableVars, stockVars
<1> HIDE DEF a
<1>6. OrderStep(r, a)
  BY <1>1, <1>2, <1>3, <1>5 DEF OrderStep
<1>7. LocksOfOthersKept(r) /\ LocksWhatItStages(r, a)
  BY <1>1, <1>4 DEF LocksOfOthersKept, LocksWhatItStages
<1> QED
  BY <1>6, <1>7, OrderStepKeeps

LEMMA OrdNextKeeps ==
    ASSUME OrdInv, OrdNext
    PROVE  OrdInv'
<1>1. PICK r \in OrderRequests : BeginOrder(r) \/ ContinueOrder(r) \/ CrashOrder(r)
  BY DEF OrdNext
<1>2. CASE BeginOrder(r)
  BY <1>2, BeginOrderKeeps DEF BeginOrder
<1>3. CASE RefuseLine(r) \/ AbortDeadlock(r) \/ CrashOrder(r)
  BY <1>3, RollbackKeeps DEF RefuseLine, AbortDeadlock, CrashOrder
<1> QED
  BY <1>1, <1>2, <1>3, StageLineKeeps, CommitTransitionKeeps, PublishOrderKeeps
     DEF ContinueOrder

LEMMA OrdStutters ==
    ASSUME OrdInv, UNCHANGED ordersVars
    PROVE  OrdInv'
<1>1. InvTypeOK'
  BY DEF OrdInv, InvTypeOK, StockTypeOK, AdjTypeOK, ordersVars, invVars, stockVars
<1> QED
  BY <1>1 DEF OrdInv, OrdTypeOK, OrderAtHand, OrderLockDiscipline, ordersVars, invVars,
              stockVars, ordVars, tableVars

(* Whatever an order's transaction has staged it has locked, and it locks  *)
(* nothing outside its transaction, for any orders, lines and requests.    *)
THEOREM OrderLocksAreDisciplined == OrdersSpec => []OrderLockDiscipline
<1>1. OrdInv /\ [OrdersNext]_ordersVars => OrdInv'
  BY AdjLeavesOrders, OrdNextKeeps, OrdStutters DEF OrdersNext
<1>2. OrdInv => OrderLockDiscipline
  BY DEF OrdInv
<1> QED
  BY <1>1, <1>2, InitOrders, PTL DEF OrdersSpec


-----------------------------------------------------------------------------
(* Payments.                                                               *)

(* What a request has found out about its payment and its order: it goes   *)
(* on only with an order it has seen CONFIRMED, which has a rule for PAY.  *)
(* When it has flushed a success the unique indexes have refused nothing,  *)
(* and will let no other success pass that collides with it.               *)
PayCallOK(r) ==
    /\ preq[r].pc \in {"check", "key", "insert"} => preq[r].order \in OrderIds
    /\ preq[r].pc \in Holding \cup {"lock", "publish"} =>
         preq[r].payment \in stored /\ pay[preq[r].payment].order = preq[r].order
    /\ r \in stored => preq[r].pc = "done"
    /\ preq[r].pc \in {"gateway", "flush", "commit"} => preq[r].seen = "CONFIRMED"
    /\ preq[r].pc = "commit" => \A y \in PaymentIds : Succeeded(y) => ~Collides(r, y)

FlushedApart(r, s) ==
    preq[r].pc = "commit" /\ preq[s].pc = "commit" =>
        /\ preq[r].order # preq[s].order
        /\ preq[r].ref # NoRef => preq[r].ref # preq[s].ref

PayRows == OneSuccessPerOrder /\ RefBacksOnePayment /\ KeyNamesOnePayment

PayInv ==
    /\ PayTypeOK
    /\ PaymentLockDiscipline
    /\ \A r \in PaymentRequests : PayCallOK(r)
    /\ \A r, s \in PaymentRequests : r # s => FlushedApart(r, s)
    /\ PayRows

(* Rows: none is removed, and a settled one does not change.               *)
PayRowsKept ==
    /\ stored \subseteq stored'
    /\ \A x \in stored : pay[x].status \in TERMINAL => pay'[x] = pay[x]
    /\ \A x \in stored : pay'[x].order = pay[x].order

LEMMA PayAssumptions ==
    /\ NoRequest \notin PaymentRequests
    /\ PaymentRequests \subseteq PaymentIds
    /\ \A r \in PaymentRequests : r \notin OldPayments
BY PaymentsAssumption DEF PaymentIds

LEMMA InitPayments == Init => PayInv
<1> SUFFICES ASSUME Init
             PROVE  PayInv
  OBVIOUS
<1>1. PICK f \in [OldPayments -> OrderIds \X Method], o \in OrderIds :
        pay = [x \in PaymentIds |->
             [order |-> IF x \in OldPayments THEN f[x][1] ELSE o,
              method |-> IF x \in OldPayments THEN f[x][2] ELSE "COD",
              status |-> "CREATED", key |-> NoKey, ref |-> NoRef]]
  BY DEF Init, PayInit
<1>2. pay \in [PaymentIds -> Payment]
  BY <1>1 DEF Payment, Method, PaymentStatus
<1>3. \A x \in PaymentIds : pay[x].status = "CREATED" /\ pay[x].key = NoKey
  BY <1>1
<1>4. /\ stored = OldPayments /\ payLock = [x \in PaymentIds |-> NoRequest]
      /\ outcomes = {}
      /\ preq = [r \in PaymentRequests |->
                 [pc |-> "new", order |-> NoOrder, payment |-> NoPayment,
                  method |-> "COD", key |-> NoKey, ref |-> NoRef, seen |-> "NONE"]]
  BY DEF Init, PayInit
<1>5. preq \in [PaymentRequests -> PayState]
  BY <1>4 DEF PayState, Method, OrderStatus
<1>6. PayTypeOK
  BY <1>2, <1>4, <1>5 DEF PayTypeOK, PaymentIds
<1>7. \A r \in PaymentRequests : preq[r].pc = "new"
  BY <1>4
<1>8. PaymentLockDiscipline
  BY <1>4, <1>7 DEF PaymentLockDiscipline, Holding
<1>9. \A r \in PaymentRequests : PayCallOK(r)
  BY <1>4, <1>7, PayAssumptions DEF PayCallOK, Holding
<1>10. \A r, s \in PaymentRequests : FlushedApart(r, s)
  BY <1>7 DEF FlushedApart
<1>11. PayRows
  BY <1>3, <1>4 DEF PayRows, OneSuccessPerOrder, RefBacksOnePayment, KeyNamesOnePayment,
                    Succeeded, PaymentIds
<1> QED
  BY <1>6, <1>8, <1>9, <1>10, <1>11 DEF PayInv

(* A step of request r: its own state, and the locks.                      *)
PayStep(r) ==
    /\ preq' \in [PaymentRequests -> PayState]
    /\ \A s \in PaymentRequests \ {r} : preq'[s] = preq[s]
    /\ payLock' \in [PaymentIds -> PaymentRequests \cup {NoRequest}]
    /\ outcomes' \subseteq Outcome
    /\ \A x \in PaymentIds, s \in PaymentRequests \ {r} : payLock'[x] = s <=> payLock[x] = s
    /\ \A x \in PaymentIds :
         payLock'[x] = r => preq'[r].pc \in Holding /\ preq'[r].payment = x
    /\ preq'[r].pc \in Holding => payLock'[preq'[r].payment] = r

(* ... one that writes no payment row.                                     *)
LEMMA PayStepKeeps ==
    ASSUME PayInv, NEW r \in PaymentRequests, PayStep(r), UNCHANGED <<stored, pay>>,
           PayCallOK(r)',
           preq'[r].pc \in Holding => pay[preq'[r].payment].status \in VERIFIABLE_FROM,
           \A s \in PaymentRequests \ {r} : FlushedApart(r, s)'
    PROVE  PayInv' /\ PayRowsKept
<1>1. PayTypeOK'
  BY DEF PayInv, PayTypeOK, PayStep
<1>2. PaymentLockDiscipline'
  <2>1. ASSUME NEW s \in PaymentRequests, preq'[s].pc \in Holding
        PROVE  /\ preq'[s].payment \in stored'
               /\ payLock'[preq'[s].payment] = s
               /\ pay'[preq'[s].payment].order = preq'[s].order
               /\ pay'[preq'[s].payment].status \in VERIFIABLE_FROM
    <3>1. CASE s = r
      BY <2>1, <3>1 DEF PayStep, PayCallOK
    <3>2. CASE s # r
      BY <2>1, <3>2 DEF PayStep, PayInv, PaymentLockDiscipline, PayTypeOK
    <3> QED
      BY <3>1, <3>2
  <2>2. ASSUME NEW x \in PaymentIds, payLock'[x] # NoRequest
        PROVE  preq'[payLock'[x]].pc \in Holding /\ preq'[payLock'[x]].payment = x
    <3>1. payLock'[x] \in PaymentRequests
      BY <2>2 DEF PayStep
    <3>2. CASE payLock'[x] = r
      BY <3>2 DEF PayStep
    <3>3. CASE payLock'[x] # r
      <4>1. payLock[x] = payLock'[x]
        BY <3>1, <3>3 DEF PayStep
      <4> QED
        BY <2>2, <3>1, <3>3, <4>1 DEF PayStep, PayInv, PaymentLockDiscipline
    <3> QED
      BY <3>2, <3>3
  <2> QED
    BY <2>1, <2>2 DEF PaymentLockDiscipline
<1>3. ASSUME NEW s \in PaymentRequests
      PROVE  PayCallOK(s)'
  <2>1. CASE s # r
    BY <2>1 DEF PayInv, PayStep, PayCallOK, Succeeded, Collides
  <2> QED
    BY <2>1
<1>4. ASSUME NEW s \in PaymentRequests, NEW t \in PaymentRequests, s # t
      PROVE  FlushedApart(s, t)'
  BY <1>4 DEF PayInv, PayStep, FlushedApart
<1>5. PayRows'
  BY DEF PayInv, PayRows, OneSuccessPerOrder, RefBacksOnePayment, KeyNamesOnePayment, Succeeded
<1>6. PayRowsKept
  BY DEF PayRowsKept
<1> QED
  BY <1>1, <1>2, <1>3, <1>4, <1>5, <1>6 DEF PayInv

(* A request moves on, and neither takes nor gives back a lock.            *)
LEMMA PayMoveKeeps ==
    ASSUME PayInv, NEW r \in PaymentRequests, NEW label,
           preq' = [preq EXCEPT ![r] = [@ EXCEPT !.pc = label]],
           preq[r].pc \notin Finished,
           UNCHANGED payTables, outcomes' \subseteq Outcome,
           \/ /\ label \in {"key", "insert", "failed", "done"}
              /\ preq[r].pc \in {"check", "key", "insert", "lock", "publish"}
           \/ preq[r].pc = "gateway" /\ label = "flush",
           label \in {"key", "insert"} => preq[r].pc \in {"check", "key"}
    PROVE  PayInv' /\ PayRowsKept
<1> DEFINE a == [preq[r] EXCEPT !.pc = label]
<1>0. /\ preq[r] \in PayState /\ preq \in [PaymentRequests -> PayState]
      /\ PaymentLockDiscipline /\ PayCallOK(r) /\ r \notin stored
  BY DEF PayInv, PayTypeOK, PayCallOK
<1>1. /\ a \in PayState /\ a.pc = label /\ a.seen = preq[r].seen
      /\ a.order = preq[r].order /\ a.payment = preq[r].payment
  BY <1>0 DEF PayState
<1> HIDE DEF a
<1>2. /\ preq'[r] = a /\ preq' \in [PaymentRequests -> PayState]
      /\ \A s \in PaymentRequests \ {r} : preq'[s] = preq[s]
  BY <1>0, <1>1 DEF a
<1>3. label # "commit" /\ (label \in Holding <=> preq[r].pc \in Holding)
  BY DEF Holding
<1>4. PayStep(r)
  BY <1>0, <1>1, <1>2, <1>3, PayAssumptions
     DEF PayStep, payTables, PayInv, PayTypeOK, PaymentLockDiscipline
<1>5. PayCallOK(r)'
  BY <1>0, <1>1, <1>2, <1>3 DEF PayCallOK, payTables, Holding
<1>6. preq'[r].pc \in Holding => pay[preq'[r].payment].status \in VERIFIABLE_FROM
  BY <1>0, <1>1, <1>2, <1>3 DEF PaymentLockDiscipline
<1>7. \A s \in PaymentRequests \ {r} : FlushedApart(r, s)'
  BY <1>1, <1>2, <1>3 DEF FlushedApart
<1> QED
  BY <1>4, <1>5, <1>6, <1>7, PayStepKeeps DEF payTables

(* A request ends without having written anything, and without its lock.   *)
LEMMA PayEndKeeps ==
    ASSUME PayInv, NEW r \in PaymentRequests, NEW label \in {"failed", "crashed"},
           preq' = [preq EXCEPT ![r] = [@ EXCEPT !.pc = label]],
           preq[r].pc \notin Finished, payLock' = PayReleased(r),
           UNCHANGED <<stored, pay, outcomes>>
    PROVE  PayInv' /\ PayRowsKept
<1> DEFINE a == [preq[r] EXCEPT !.pc = label]
<1>0. /\ preq[r] \in PayState /\ preq \in [PaymentRequests -> PayState]
      /\ PayCallOK(r) /\ r \notin stored
  BY DEF PayInv, PayTypeOK, PayCallOK
<1>1. a \in PayState /\ a.pc = label
  BY <1>0 DEF PayState
<1> HIDE DEF a
<1>2. /\ preq'[r] = a /\ preq' \in [PaymentRequests -> PayState]
      /\ \A s \in PaymentRequests \ {r} : preq'[s] = preq[s]
  BY <1>0, <1>1 DEF a
<1>3. \A x \in PaymentIds : payLock'[x] = IF payLock[x] = r THEN NoRequest ELSE payLock[x]
  BY DEF PayReleased
<1>4. payLock' \in [PaymentIds -> PaymentRequests \cup {NoRequest}]
  BY DEF PayReleased, PayInv, PayTypeOK
<1>5. PayStep(r)
  BY <1>1, <1>2, <1>3, <1>4, PayAssumptions DEF PayStep, PayInv, PayTypeOK, Holding
<1>6. PayCallOK(r)' /\ preq'[r].pc \notin Holding
  BY <1>0, <1>1, <1>2 DEF PayCallOK, Holding
<1>7. \A s \in PaymentRequests \ {r} : FlushedApart(r, s)'
  BY <1>1, <1>2 DEF FlushedApart
<1> QED
  BY <1>5, <1>6, <1>7, PayStepKeeps

LEMMA BeginPaymentKeeps ==
    ASSUME PayInv, NEW r \in PaymentRequests, BeginPayment(r)
    PROVE  PayInv' /\ PayRowsKept
<1>0. /\ preq[r] \in PayState /\ preq \in [PaymentRequests -> PayState]
      /\ PaymentLockDiscipline /\ PayCallOK(r) /\ preq[r].pc = "new" /\ r \notin stored
  BY DEF PayInv, PayTypeOK, PayCallOK, BeginPayment, BeginInitiate, BeginVerify
<1> DEFINE Becomes(a) ==
      /\ preq' = [preq EXCEPT ![r] = a]
      /\ a.pc \in {"check", "lock", "failed"} /\ a.order \in OrderIds
      /\ a.pc = "lock" => a.payment \in stored /\ pay[a.payment].order = a.order
<1>1. \E a \in PayState : Becomes(a)
  <2>1. ASSUME NEW o \in OrderIds, NEW m \in Method, NEW k \in Keys \cup {NoKey},
               BeginInitiate(r, o, m, k)
        PROVE  \E a \in PayState : Becomes(a)
    <3> DEFINE a == [preq[r] EXCEPT !.pc = IF Payable(o) THEN "check" ELSE "failed",
                                    !.order = o, !.method = m, !.key = k]
    <3>1. a \in PayState /\ a.pc \in {"check", "failed"} /\ a.order = o
      BY <1>0 DEF PayState
    <3>2. preq' = [preq EXCEPT ![r] = a]
      BY <2>1 DEF BeginInitiate
    <3> HIDE DEF a
    <3> QED
      BY <3>1, <3>2
  <2>2. ASSUME NEW x \in PaymentIds, NEW m \in Method, NEW ref \in Refs \cup {NoRef},
               BeginVerify(r, x, m, ref)
        PROVE  \E a \in PayState : Becomes(a)
    <3> DEFINE a == [preq[r] EXCEPT !.pc = IF x \in stored THEN "lock" ELSE "failed",
                                    !.order = pay[x].order, !.payment = x,
                                    !.method = m, !.ref = ref]
    <3>1. pay[x].order \in OrderIds
      BY DEF PayInv, PayTypeOK, Payment
    <3>2. /\ a \in PayState /\ a.pc \in {"lock", "failed"} /\ a.order = pay[x].order
          /\ a.payment = x
          /\ a.pc = "lock" => x \in stored
      BY <1>0, <3>1 DEF PayState
    <3>3. preq' = [preq EXCEPT ![r] = a]
      BY <2>2 DEF BeginVerify
    <3> HIDE DEF a
    <3> QED
      BY <3>1, <3>2, <3>3
  <2> HIDE DEF Becomes
  <2> QED
    BY <2>1, <2>2 DEF BeginPayment
<1>2. PICK a \in PayState : Becomes(a)
  BY <1>1
<1>3. /\ preq'[r] = a /\ preq' \in [PaymentRequests -> PayState]
      /\ \A s \in PaymentRequests \ {r} : preq'[s] = preq[s]
  BY <1>0, <1>2
<1>4. UNCHANGED <<stored, pay, payLock, outcomes>>
  BY DEF BeginPayment, BeginInitiate, BeginVerify, payTables
<1>5. /\ a.pc \in {"check", "lock", "failed"} /\ a.order \in OrderIds
      /\ a.pc = "lock" => a.payment \in stored /\ pay[a.payment].order = a.order
  BY <1>2
<1> HIDE DEF Becomes
<1>6. PayStep(r)
  BY <1>0, <1>3, <1>4, <1>5, PayAssumptions
     DEF PayStep, PayInv, PayTypeOK, Holding, PaymentLockDiscipline
<1>7. PayCallOK(r)' /\ preq'[r].pc \notin Holding
  BY <1>0, <1>3, <1>4, <1>5 DEF PayCallOK, Holding
<1>8. \A s \in PaymentRequests \ {r} : FlushedApart(r, s)'
  BY <1>3, <1>5 DEF FlushedApart
<1> QED
  BY <1>4, <1>6, <1>7, <1>8, PayStepKeeps

(* An online payment, or cash, takes the lock or is turned away.           *)
LEMMA LockPaymentKeeps ==
    ASSUME PayInv, NEW r \in PaymentRequests, LockPayment(r)
    PROVE  PayInv' /\ PayRowsKept
<1> DEFINE x == preq[r].payment
           locks == pay[x].method = preq[r].method /\ pay[x].status \in VERIFIABLE_FROM
           a == [preq[r] EXCEPT !.pc = "order"]
<1>0. /\ preq[r] \in PayState /\ preq \in [PaymentRequests -> PayState]
      /\ PaymentLockDiscipline /\ PayCallOK(r) /\ r \notin stored
      /\ preq[r].pc = "lock" /\ PaymentUnlocked(x)
      /\ UNCHANGED <<stored, pay, outcomes>>
  BY DEF PayInv, PayTypeOK, PayCallOK, LockPayment
<1>1. x \in stored /\ pay[x].order = preq[r].order /\ x \in PaymentIds
  BY <1>0 DEF PayCallOK, PayInv, PayTypeOK
<1>2. CASE ~locks
  <2>1. \E label \in {"done", "failed"} :
          preq' = [preq EXCEPT ![r] = [@ EXCEPT !.pc = label]]
    BY <1>2 DEF LockPayment, PayGoto
  <2>2. UNCHANGED payLock
    BY <1>2 DEF LockPayment
  <2> QED
    BY <1>0, <2>1, <2>2, PayMoveKeeps DEF payTables, PayInv, PayTypeOK
<1>3. CASE locks
  <2>1. /\ preq' = [preq EXCEPT ![r] = a] /\ payLock' = [payLock EXCEPT ![x] = r]
    BY <1>3 DEF LockPayment, PayGoto
  <2>2. a \in PayState /\ a.pc = "order" /\ a.payment = x /\ a.order = preq[r].order
    BY <1>0 DEF PayState
  <2> HIDE DEF a, x
  <2>3. /\ preq'[r] = a /\ preq' \in [PaymentRequests -> PayState]
        /\ \A s \in PaymentRequests \ {r} : preq'[s] = preq[s]
    BY <1>0, <2>1, <2>2
  <2>4. payLock[x] = NoRequest
    BY <1>0 DEF PaymentUnlocked
  <2>5. /\ payLock' \in [PaymentIds -> PaymentRequests \cup {NoRequest}]
        /\ \A y \in PaymentIds : payLock'[y] = IF y = x THEN r ELSE payLock[y]
        /\ \A y \in PaymentIds : payLock[y] # r
    BY <1>0, <1>1, <2>1, PayAssumptions DEF PayInv, PayTypeOK, PaymentLockDiscipline, Holding
  <2>6. PayStep(r)
    BY <1>0, <1>1, <2>2, <2>3, <2>4, <2>5, PayAssumptions
       DEF PayStep, PayInv, PayTypeOK, Holding
  <2>7. PayCallOK(r)'
    BY <1>0, <1>1, <2>2, <2>3 DEF PayCallOK
  <2>8. pay[preq'[r].payment].status \in VERIFIABLE_FROM
    BY <1>3, <2>2, <2>3 DEF x
  <2>9. \A s \in PaymentRequests \ {r} : FlushedApart(r, s)'
    BY <2>2, <2>3 DEF FlushedApart
  <2> QED
    BY <1>0, <2>6, <2>7, <2>8, <2>9, PayStepKeeps
<1> QED
  BY <1>2, <1>3

(* A payable order was seen CONFIRMED; of any other the request is refused.*)
LEMMA CheckOrderKeeps ==
    ASSUME PayInv, status \in [OrderIds -> OrderStatus],
           NEW r \in PaymentRequests, CheckOrder(r)
    PROVE  PayInv' /\ PayRowsKept
<1>0. /\ preq[r] \in PayState /\ preq \in [PaymentRequests -> PayState]
      /\ PaymentLockDiscipline /\ PayCallOK(r) /\ r \notin stored
      /\ preq[r].pc = "order" /\ UNCHANGED <<stored, pay, outcomes>>
  BY DEF PayInv, PayTypeOK, PayCallOK, CheckOrder
<1>1. CASE ~Payable(preq[r].order)
  BY <1>0, <1>1, PayEndKeeps DEF CheckOrder, PayGoto
<1>2. CASE Payable(preq[r].order)
  <2> DEFINE label == IF preq[r].method = "ONLINE" THEN "gateway" ELSE "flush"
             a == [preq[r] EXCEPT !.pc = label, !.seen = status[preq[r].order]]
  <2>1. preq' = [preq EXCEPT ![r] = a] /\ payLock' = payLock
    BY <1>2 DEF CheckOrder
  <2>2. /\ a \in PayState /\ a.pc \in {"gateway", "flush"} /\ a.seen = "CONFIRMED"
        /\ a.payment = preq[r].payment /\ a.order = preq[r].order
    BY <1>0, <1>2 DEF PayState, Payable, OrderStatus, HoldingStates
  <2> HIDE DEF a
  <2>3. /\ preq'[r] = a /\ preq' \in [PaymentRequests -> PayState]
        /\ \A s \in PaymentRequests \ {r} : preq'[s] = preq[s]
    BY <1>0, <2>1, <2>2
  <2>4. PayStep(r)
    BY <1>0, <2>1, <2>2, <2>3, PayAssumptions
       DEF PayStep, PayInv, PayTypeOK, Holding, PaymentLockDiscipline
  <2>5. PayCallOK(r)'
    BY <1>0, <2>2, <2>3 DEF PayCallOK, Holding
  <2>6. pay[preq'[r].payment].status \in VERIFIABLE_FROM
    BY <1>0, <2>2, <2>3 DEF PaymentLockDiscipline, Holding
  <2>7. \A s \in PaymentRequests \ {r} : FlushedApart(r, s)'
    BY <2>2, <2>3 DEF FlushedApart
  <2> QED
    BY <1>0, <2>4, <2>5, <2>6, <2>7, PayStepKeeps
<1> QED
  BY <1>1, <1>2

(* The unique indexes let a success through to its commit.                 *)
LEMMA FlushSuccessKeeps ==
    ASSUME PayInv, NEW r \in PaymentRequests, FlushSuccess(r)
    PROVE  PayInv' /\ PayRowsKept
<1> DEFINE a == [preq[r] EXCEPT !.pc = "commit"]
           refused == \E y \in PaymentIds : Succeeded(y) /\ Collides(r, y)
<1>0. /\ preq[r] \in PayState /\ preq \in [PaymentRequests -> PayState]
      /\ PaymentLockDiscipline /\ PayCallOK(r) /\ r \notin stored
      /\ preq[r].pc = "flush" /\ ~MustWait(r)
      /\ UNCHANGED <<stored, pay, outcomes>>
  BY DEF PayInv, PayTypeOK, PayCallOK, FlushSuccess
<1>1. CASE refused
  BY <1>0, <1>1, PayEndKeeps DEF FlushSuccess, PayGoto
<1>2. CASE ~refused
  <2>1. preq' = [preq EXCEPT ![r] = a] /\ payLock' = payLock
    BY <1>2 DEF FlushSuccess, PayGoto
  <2>2. /\ a \in PayState /\ a.pc = "commit" /\ a.payment = preq[r].payment
        /\ a.order = preq[r].order /\ a.ref = preq[r].ref /\ a.seen = preq[r].seen
    BY <1>0 DEF PayState
  <2> HIDE DEF a
  <2>3. /\ preq'[r] = a /\ preq' \in [PaymentRequests -> PayState]
        /\ \A s \in PaymentRequests \ {r} : preq'[s] = preq[s]
    BY <1>0, <2>1, <2>2
  <2>4. PayStep(r)
    BY <1>0, <2>1, <2>2, <2>3, PayAssumptions
       DEF PayStep, PayInv, PayTypeOK, Holding, PaymentLockDiscipline
  <2>5. \A y \in PaymentIds : Succeeded(y) => ~Collides(r, y)
    BY <1>2
  <2>6. \A y \in PaymentIds : Succeeded(y)' => ~Collides(r, y)'
    BY <1>0, <2>2, <2>3, <2>5 DEF Succeeded, Collides
  <2>7. PayCallOK(r)'
    BY <1>0, <2>2, <2>3, <2>6 DEF PayCallOK, Holding
  <2>8. pay[preq'[r].payment].status \in VERIFIABLE_FROM
    BY <1>0, <2>2, <2>3 DEF PaymentLockDiscipline, Holding
  <2>9. \A s \in PaymentRequests \ {r} : FlushedApart(r, s)'
    BY <1>0, <2>2, <2>3 DEF FlushedApart, MustWait
  <2> QED
    BY <1>0, <2>4, <2>7, <2>8, <2>9, PayStepKeeps
<1> QED
  BY <1>1, <1>2

(* Under its lock a request writes its payment, and gives the lock back:   *)
(* the only step that makes a payment a success is a commit.               *)
LEMMA PayWriteKeeps ==
    ASSUME PayInv, NEW r \in PaymentRequests, NEW label \in {"done", "publish"},
           NEW v \in Payment,
           preq[r].pc \in {"gateway", "commit"},
           preq' = [preq EXCEPT ![r] = [@ EXCEPT !.pc = label]],
           pay' = [pay EXCEPT ![preq[r].payment] = v],
           v.order = preq[r].order, v.key = pay[preq[r].payment].key,
           v.status = "SUCCESS" => preq[r].pc = "commit" /\ v.ref = preq[r].ref,
           payLock' = PayReleased(r),
           UNCHANGED <<stored, outcomes>>
    PROVE  PayInv' /\ PayRowsKept
<1> DEFINE a == [preq[r] EXCEPT !.pc = label]
<1>0. /\ preq[r] \in PayState /\ preq \in [PaymentRequests -> PayState]
      /\ PaymentLockDiscipline /\ PayCallOK(r) /\ r \notin stored
      /\ pay \in [PaymentIds -> Payment] /\ PayRows
  BY DEF PayInv, PayTypeOK, PayCallOK
<1>p. PICK x : x = preq[r].payment
  OBVIOUS
<1>1. /\ x \in stored /\ x \in PaymentIds /\ payLock[x] = r
      /\ pay[x].order = preq[r].order /\ pay[x].status \in VERIFIABLE_FROM
  BY <1>0, <1>p DEF PaymentLockDiscipline, Holding, PayInv, PayTypeOK
<1>2. a \in PayState /\ a.pc = label /\ a.payment = x /\ a.order = preq[r].order
  BY <1>0, <1>p DEF PayState
<1> HIDE DEF a
<1>3. /\ preq'[r] = a /\ preq' \in [PaymentRequests -> PayState]
      /\ \A s \in PaymentRequests \ {r} : preq'[s] = preq[s]
  BY <1>0, <1>2 DEF a
<1>4. /\ pay' \in [PaymentIds -> Payment] /\ pay'[x] = v
      /\ \A y \in PaymentIds : y # x => pay'[y] = pay[y]
  BY <1>0, <1>1, <1>p
<1>5. \A y \in PaymentIds : pay'[y].order = pay[y].order /\ pay'[y].key = pay[y].key
  BY <1>1, <1>4, <1>p
<1>6. /\ \A y \in PaymentIds : payLock'[y] = IF payLock[y] = r THEN NoRequest ELSE payLock[y]
      /\ payLock' \in [PaymentIds -> PaymentRequests \cup {NoRequest}]
  BY DEF PayReleased, PayInv, PayTypeOK
<1>7. \A y \in PaymentIds : y # x => (Succeeded(y)' <=> Succeeded(y))
  BY <1>4 DEF Succeeded
<1>8. Succeeded(x)' => preq[r].pc = "commit" /\ pay'[x].ref = preq[r].ref
  BY <1>4 DEF Succeeded
<1>9. ~Succeeded(x) /\ stored \subseteq PaymentIds
  BY <1>1 DEF Succeeded, VERIFIABLE_FROM, PayInv, PayTypeOK
<1>10. PayTypeOK'
  BY <1>3, <1>4, <1>6 DEF PayTypeOK, PayInv
<1>11. PaymentLockDiscipline'
  <2>1. ASSUME NEW s \in PaymentRequests, preq'[s].pc \in Holding
        PROVE  /\ preq'[s].payment \in stored'
               /\ payLock'[preq'[s].payment] = s
               /\ pay'[preq'[s].payment].order = preq'[s].order
               /\ pay'[preq'[s].payment].status \in VERIFIABLE_FROM
    <3>1. s # r
      BY <1>2, <1>3, <2>1 DEF Holding
    <3>2. /\ preq[s].payment \in stored /\ payLock[preq[s].payment] = s
          /\ pay[preq[s].payment].order = preq[s].order
          /\ pay[preq[s].payment].status \in VERIFIABLE_FROM
      BY <1>0, <1>3, <2>1, <3>1 DEF PaymentLockDiscipline
    <3>3. preq[s].payment # x /\ preq[s].payment \in PaymentIds
      BY <1>1, <1>9, <3>1, <3>2
    <3> QED
      BY <1>3, <1>4, <1>6, <3>1, <3>2, <3>3
  <2>2. ASSUME NEW y \in PaymentIds, payLock'[y] # NoRequest
        PROVE  preq'[payLock'[y]].pc \in Holding /\ preq'[payLock'[y]].payment = y
    <3>1. payLock'[y] = payLock[y] /\ payLock[y] # r /\ payLock[y] \in PaymentRequests
      BY <1>6, <2>2
    <3> QED
      BY <1>0, <1>3, <2>2, <3>1 DEF PaymentLockDiscipline
  <2> QED
    BY <2>1, <2>2 DEF PaymentLockDiscipline
<1>12. ASSUME NEW s \in PaymentRequests
       PROVE  PayCallOK(s)'
  <2>1. CASE s = r
    BY <1>0, <1>1, <1>2, <1>3, <1>5, <2>1 DEF PayCallOK, Holding
  <2>2. CASE s # r
    <3>1. preq'[s] = preq[s] /\ PayCallOK(s) /\ FlushedApart(r, s) /\ FlushedApart(s, r)
      BY <1>3, <2>2 DEF PayInv
    <3>2. ASSUME preq[s].pc = "commit", NEW y \in PaymentIds, Succeeded(y)'
          PROVE  ~Collides(s, y)'
      <4>1. CASE y = x
        <5>1. preq[r].pc = "commit" /\ pay'[x].ref = preq[r].ref /\ pay'[x].order = preq[r].order
          BY <1>1, <1>5, <1>8, <3>2, <4>1
        <5> QED
          BY <3>1, <3>2, <4>1, <5>1 DEF FlushedApart, Collides
      <4>2. CASE y # x
        BY <1>4, <1>7, <3>1, <3>2, <4>2 DEF PayCallOK, Collides
      <4> QED
        BY <4>1, <4>2
    <3>3. preq[s].pc \in Holding \cup {"lock", "publish"} =>
            pay'[preq[s].payment].order = pay[preq[s].payment].order
      BY <1>5, <1>9, <3>1 DEF PayCallOK
    <3>4. preq[s].pc = "commit" =>
            \A y \in PaymentIds : Succeeded(y)' => ~Collides(s, y)'
      BY <3>2
    <3>5. preq'[s].pc \in {"check", "key", "insert"} => preq'[s].order \in OrderIds
      BY <3>1 DEF PayCallOK
    <3>6. preq'[s].pc \in Holding \cup {"lock", "publish"} =>
            preq'[s].payment \in stored' /\ pay'[preq'[s].payment].order = preq'[s].order
      <4>1. preq[s].pc \in Holding \cup {"lock", "publish"} =>
              preq[s].payment \in stored /\ pay[preq[s].payment].order = preq[s].order
        BY <3>1 DEF PayCallOK
      <4>2. preq[s].pc \in Holding \cup {"lock", "publish"} =>
              preq[s].payment \in stored /\ pay'[preq[s].payment].order = preq[s].order
        BY <3>3, <4>1
      <4>3. preq'[s] = preq[s] /\ stored' = stored
        BY <3>1
      <4> QED
        BY <4>2, <4>3
    <3>7. s \in stored' => preq'[s].pc = "done"
      BY <3>1 DEF PayCallOK
    <3>8. preq'[s].pc = "commit" =>
            \A y \in PaymentIds : Succeeded(y)' => ~Collides(s, y)'
      BY <3>1, <3>4
    <3>9. preq'[s].pc \in {"gateway", "flush", "commit"} => preq'[s].seen = "CONFIRMED"
      BY <3>1 DEF PayCallOK
    <3> QED
      BY <3>5, <3>6, <3>7, <3>8, <3>9 DEF PayCallOK
  <2> QED
    BY <2>1, <2>2
<1>13. ASSUME NEW s \in PaymentRequests, NEW t \in PaymentRequests, s # t
       PROVE  FlushedApart(s, t)'
  BY <1>2, <1>3, <1>13 DEF PayInv, FlushedApart
<1>14. PayRows'
  <2>1. ASSUME Succeeded(x)', NEW y \in PaymentIds, y # x, Succeeded(y)'
        PROVE  /\ pay'[x].order # pay'[y].order
               /\ pay'[x].ref # NoRef => pay'[x].ref # pay'[y].ref
    <3>1. Succeeded(y) /\ preq[r].pc = "commit"
      BY <1>7, <1>8, <2>1
    <3>2. ~Collides(r, y)
      BY <1>0, <3>1 DEF PayCallOK
    <3> QED
      BY <1>p, <1>1, <1>4, <1>5, <1>8, <2>1, <3>2 DEF Collides
  <2>2. OneSuccessPerOrder'
    BY <1>0, <1>4, <1>7, <2>1 DEF OneSuccessPerOrder, PayRows
  <2>3. RefBacksOnePayment'
    BY <1>0, <1>4, <1>7, <2>1 DEF RefBacksOnePayment, PayRows
  <2>4. KeyNamesOnePayment'
    BY <1>0, <1>5, <1>9 DEF KeyNamesOnePayment, PayRows
  <2> QED
    BY <2>2, <2>3, <2>4 DEF PayRows
<1>15. PayRowsKept
  BY <1>1, <1>4, <1>5, <1>9 DEF PayRowsKept, VERIFIABLE_FROM, TERMINAL
<1> QED
  BY <1>10, <1>11, <1>12, <1>13, <1>14, <1>15 DEF PayInv

(* The new row is its request's own, and only one call gets past the       *)
(* unique index on the idempotency key.                                    *)
LEMMA InsertPaymentKeeps ==
    ASSUME PayInv, NEW r \in PaymentRequests, InsertPayment(r)
    PROVE  PayInv' /\ PayRowsKept
<1> DEFINE new == [order |-> preq[r].order, method |-> preq[r].method,
                   status |-> "CREATED", key |-> preq[r].key, ref |-> NoRef]
<1>0. /\ preq[r] \in PayState /\ preq \in [PaymentRequests -> PayState]
      /\ PaymentLockDiscipline /\ PayCallOK(r) /\ r \notin stored
      /\ preq[r].pc = "insert" /\ r \in PaymentIds
      /\ preq' = [preq EXCEPT ![r] = [@ EXCEPT !.pc = "done"]]
      /\ UNCHANGED <<payLock, outcomes>>
      /\ pay \in [PaymentIds -> Payment] /\ stored \subseteq PaymentIds
  BY PayAssumptions DEF PayInv, PayTypeOK, PayCallOK, InsertPayment, PayGoto
<1>1. CASE KeyUsed(preq[r].key)
  BY <1>0, <1>1, PayMoveKeeps DEF InsertPayment, payTables, PayInv, PayTypeOK
<1>2. CASE ~KeyUsed(preq[r].key)
  <2>1. stored' = stored \cup {r} /\ pay' = [pay EXCEPT ![r] = new]
    BY <1>2 DEF InsertPayment
  <2>2. new \in Payment /\ new.key = preq[r].key /\ new.status = "CREATED"
    BY <1>0 DEF Payment, PayState, PayCallOK, PaymentStatus
  <2> HIDE DEF new
  <2>3. /\ pay' \in [PaymentIds -> Payment] /\ pay'[r] = new
        /\ \A x \in stored : pay'[x] = pay[x]
        /\ \A x \in PaymentIds : x # r => pay'[x] = pay[x]
    BY <1>0, <2>1, <2>2
  <2>4. /\ preq'[r] \in PayState /\ preq'[r].pc = "done"
        /\ preq' \in [PaymentRequests -> PayState]
        /\ \A s \in PaymentRequests \ {r} : preq'[s] = preq[s]
    BY <1>0 DEF PayState
  <2>5. \A x \in PaymentIds : Succeeded(x)' <=> Succeeded(x)
    BY <1>0, <2>1, <2>2, <2>3 DEF Succeeded
  <2>6. \A x \in PaymentIds : Succeeded(x) => pay'[x] = pay[x]
    BY <2>3 DEF Succeeded
  <2>7. PayTypeOK'
    BY <1>0, <2>1, <2>3, <2>4 DEF PayTypeOK, PayInv
  <2>8. PaymentLockDiscipline'
    <3>1. ASSUME NEW s \in PaymentRequests, preq'[s].pc \in Holding
          PROVE  /\ preq'[s].payment \in stored'
                 /\ payLock'[preq'[s].payment] = s
                 /\ pay'[preq'[s].payment].order = preq'[s].order
                 /\ pay'[preq'[s].payment].status \in VERIFIABLE_FROM
      <4>1. s # r
        BY <2>4, <3>1 DEF Holding
      <4>2. preq'[s] = preq[s]
        BY <2>4, <4>1
      <4>3. /\ preq[s].payment \in stored /\ payLock[preq[s].payment] = s
            /\ pay[preq[s].payment].order = preq[s].order
            /\ pay[preq[s].payment].status \in VERIFIABLE_FROM
        BY <1>0, <3>1, <4>2 DEF PaymentLockDiscipline
      <4> QED
        BY <1>0, <2>1, <2>3, <4>2, <4>3
    <3>2. ASSUME NEW y \in PaymentIds, payLock'[y] # NoRequest
          PROVE  preq'[payLock'[y]].pc \in Holding /\ preq'[payLock'[y]].payment = y
      <4>1. payLock[y] \in PaymentRequests /\ payLock'[y] = payLock[y]
        BY <1>0, <3>2 DEF PayInv, PayTypeOK
      <4>2. preq[payLock[y]].pc \in Holding /\ preq[payLock[y]].payment = y
        BY <1>0, <3>2, <4>1 DEF PaymentLockDiscipline
      <4>3. payLock[y] # r
        BY <1>0, <4>2 DEF Holding
      <4> QED
        BY <2>4, <4>1, <4>2, <4>3
    <3> QED
      BY <3>1, <3>2 DEF PaymentLockDiscipline
  <2>9. ASSUME NEW s \in PaymentRequests
        PROVE  PayCallOK(s)'
    <3>1. CASE s = r
      BY <2>4, <3>1 DEF PayCallOK, Holding
    <3>2. CASE s # r
      <4>1. preq'[s] = preq[s] /\ PayCallOK(s)
        BY <2>4, <3>2 DEF PayInv
      <4>2. preq[s].pc \in {"check", "key", "insert"} => preq[s].order \in OrderIds
        BY <4>1 DEF PayCallOK
      <4>3. preq[s].pc \in Holding \cup {"lock", "publish"} =>
              /\ preq[s].payment \in stored
              /\ pay[preq[s].payment].order = preq[s].order
        BY <4>1 DEF PayCallOK
      <4>4. preq[s].pc \in Holding \cup {"lock", "publish"} =>
              /\ preq[s].payment \in stored'
              /\ pay'[preq[s].payment].order = preq[s].order
        BY <2>1, <2>3, <4>3
      <4>5. s \in stored' => preq[s].pc = "done"
        BY <2>1, <3>2, <4>1 DEF PayCallOK
      <4>6. preq[s].pc = "commit" =>
              \A y \in PaymentIds : Succeeded(y)' => ~Collides(s, y)'
        BY <2>5, <2>6, <4>1 DEF PayCallOK, Collides
      <4>7. preq'[s] = preq[s]
        BY <4>1
      <4>8. preq[s].pc \in {"gateway", "flush", "commit"} => preq[s].seen = "CONFIRMED"
        BY <4>1 DEF PayCallOK
      <4> QED
        BY <4>2, <4>4, <4>5, <4>6, <4>7, <4>8 DEF PayCallOK
    <3> QED
      BY <3>1, <3>2
  <2>10. ASSUME NEW s \in PaymentRequests, NEW t \in PaymentRequests, s # t
         PROVE  FlushedApart(s, t)'
    BY <2>4, <2>10 DEF PayInv, FlushedApart
  <2>11. PayRows'
    <3>1. OneSuccessPerOrder' /\ RefBacksOnePayment'
      BY <2>5, <2>6 DEF PayInv, PayRows, OneSuccessPerOrder, RefBacksOnePayment
    <3>2. new.key = NoKey \/ \A x \in stored : pay[x].key # new.key
      BY <1>2, <2>2 DEF KeyUsed
    <3>3. KeyNamesOnePayment'
      BY <2>1, <2>3, <3>2 DEF PayInv, PayRows, KeyNamesOnePayment
    <3> QED
      BY <3>1, <3>3 DEF PayRows
  <2>12. PayRowsKept
    BY <2>1, <2>3 DEF PayRowsKept
  <2> QED
    BY <2>7, <2>8, <2>9, <2>10, <2>11, <2>12 DEF PayInv
<1> QED
  BY <1>1, <1>2

(* A gateway's answer that is written at once.                             *)
LEMMA GatewayAnswerKeeps ==
    ASSUME PayInv, NEW r \in PaymentRequests, GatewayPending(r) \/ GatewayRejects(r)
    PROVE  PayInv' /\ PayRowsKept
<1> DEFINE x == preq[r].payment
           outcome == IF GatewayPending(r) THEN "PENDING" ELSE "FAILED"
           v == [pay[x] EXCEPT !.status = outcome]
<1>0. preq[r].pc = "gateway" /\ PaymentLockDiscipline /\ pay \in [PaymentIds -> Payment]
      /\ stored \subseteq PaymentIds
  BY DEF GatewayPending, GatewayRejects, PayInv, PayTypeOK
<1>1. x \in PaymentIds /\ pay[x] \in Payment /\ pay[x].order = preq[r].order
  BY <1>0 DEF PaymentLockDiscipline, Holding
<1>2. /\ v \in Payment /\ v.order = preq[r].order /\ v.key = pay[x].key
      /\ v.status # "SUCCESS"
  BY <1>1 DEF Payment, PaymentStatus
<1>3. /\ pay' = [pay EXCEPT ![x] = v] /\ payLock' = PayReleased(r)
      /\ UNCHANGED <<stored, outcomes>>
      /\ \E label \in {"done", "publish"} :
           preq' = [preq EXCEPT ![r] = [@ EXCEPT !.pc = label]]
  <2>1. CASE GatewayPending(r)
    BY <2>1 DEF GatewayPending, PayGoto
  <2>2. CASE ~GatewayPending(r)
    BY <2>2 DEF GatewayRejects, PayGoto
  <2> QED
    BY <2>1, <2>2
<1> HIDE DEF v
<1> QED
  BY <1>0, <1>2, <1>3, PayWriteKeeps

(* The session saw the order CONFIRMED, so transition(PAY) has its rule.   *)
LEMMA CommitSuccessPays ==
    ASSUME PayInv, NEW r \in PaymentRequests, CommitSuccess(r)
    PROVE  /\ PayGoto(r, "publish")
           /\ pay' = [pay EXCEPT ![preq[r].payment] =
                        [@ EXCEPT !.status = "SUCCESS", !.ref = preq[r].ref]]
           /\ status' = [status EXCEPT ![preq[r].order] = "PAID"]
           /\ payLock' = PayReleased(r)
           /\ UNCHANGED <<invVars, taken, lifecycle, ord, stored, outcomes>>
<1>1. preq[r].seen = "CONFIRMED"
  BY DEF PayInv, PayCallOK, CommitSuccess
<1>2. PayRules("CONFIRMED") = {Rule("CONFIRMED", "PAY", "PAID", 0)}
  BY DEF PayRules, TRANSITIONS, Rule
<1>3. \A rule \in PayRules(preq[r].seen) : rule.to = "PAID"
  BY <1>1, <1>2 DEF Rule
<1>4. PayRules(preq[r].seen) # {}
  BY <1>1, <1>2
<1> QED
  BY <1>3, <1>4 DEF CommitSuccess

LEMMA CommitSuccessKeeps ==
    ASSUME PayInv, NEW r \in PaymentRequests, CommitSuccess(r)
    PROVE  /\ PayInv' /\ PayRowsKept
           /\ preq[r].order \in OrderIds
           /\ \E x \in PaymentIds : Succeeded(x)' /\ pay'[x].order = preq[r].order
<1> DEFINE x == preq[r].payment
           v == [pay[x] EXCEPT !.status = "SUCCESS", !.ref = preq[r].ref]
<1>0. /\ preq[r].pc = "commit" /\ PaymentLockDiscipline /\ pay \in [PaymentIds -> Payment]
      /\ stored \subseteq PaymentIds /\ preq[r] \in PayState
  BY DEF CommitSuccess, PayInv, PayTypeOK
<1>1. x \in PaymentIds /\ x \in stored /\ pay[x] \in Payment /\ pay[x].order = preq[r].order
  BY <1>0 DEF PaymentLockDiscipline, Holding
<1>2. /\ v \in Payment /\ v.order = preq[r].order /\ v.key = pay[x].key
      /\ v.status = "SUCCESS" /\ v.ref = preq[r].ref
  BY <1>0, <1>1 DEF Payment, PaymentStatus, PayState
<1>3. /\ pay' = [pay EXCEPT ![x] = v] /\ payLock' = PayReleased(r)
      /\ UNCHANGED <<stored, outcomes>>
      /\ preq' = [preq EXCEPT ![r] = [@ EXCEPT !.pc = "publish"]]
  BY CommitSuccessPays DEF PayGoto
<1>4. v.order \in OrderIds
  BY <1>2 DEF Payment
<1> HIDE DEF v
<1>5. PayInv' /\ PayRowsKept
  BY <1>0, <1>2, <1>3, PayWriteKeeps
<1>6. pay'[x] = v /\ x \in stored' /\ x \in PaymentIds
  BY <1>0, <1>1, <1>3
<1>7. PICK y : y = x
  OBVIOUS
<1>8. y \in PaymentIds /\ Succeeded(y)' /\ pay'[y].order = preq[r].order
  BY <1>2, <1>6, <1>7 DEF Succeeded
<1> QED
  BY <1>2, <1>4, <1>5, <1>8

LEMMA PublishPaymentKeeps ==
    ASSUME PayInv, NEW r \in PaymentRequests, PublishPayment(r)
    PROVE  PayInv' /\ PayRowsKept
<1>1. preq[r].pc = "publish" /\ preq[r].payment \in PaymentIds
  BY DEF PublishPayment, PayInv, PayTypeOK, PayCallOK
<1>2. outcomes' \subseteq Outcome
  BY <1>1 DEF PublishPayment, PayInv, PayTypeOK, Outcome
<1> QED
  BY <1>1, <1>2, PayMoveKeeps DEF PublishPayment, PayGoto

LEMMA PayNextKeeps ==
    ASSUME PayInv, status \in [OrderIds -> OrderStatus], NEW r \in PaymentRequests,
           BeginPayment(r) \/ ContinuePayment(r) \/ CrashPayment(r)
    PROVE  PayInv' /\ PayRowsKept
<1>0. outcomes \subseteq Outcome
  BY DEF PayInv, PayTypeOK
<1>1. CASE CheckNoSuccess(r)
  BY <1>0, <1>1, PayMoveKeeps DEF CheckNoSuccess, PayGoto
<1>2. CASE LookUpKey(r)
  BY <1>0, <1>2, PayMoveKeeps DEF LookUpKey, PayGoto
<1>3. CASE GatewayRefusesCreate(r)
  BY <1>0, <1>3, PayMoveKeeps DEF GatewayRefusesCreate, PayGoto
<1>4. CASE CheckOrder(r)
  BY <1>4, CheckOrderKeeps
<1>5. CASE GatewayFails(r)
  BY <1>5, PayEndKeeps DEF GatewayFails, PayGoto
<1>6. CASE GatewayConfirms(r)
  BY <1>0, <1>6, PayMoveKeeps DEF GatewayConfirms, PayGoto
<1>7. CASE CrashPayment(r)
  BY <1>7, PayEndKeeps DEF CrashPayment, PayGoto
<1> QED
  BY <1>1, <1>2, <1>3, <1>4, <1>5, <1>6, <1>7, BeginPaymentKeeps, InsertPaymentKeeps,
     LockPaymentKeeps, GatewayAnswerKeeps, FlushSuccessKeeps, CommitSuccessKeeps,
     PublishPaymentKeeps DEF ContinuePayment

-----------------------------------------------------------------------------
(* Payments and orders together.                                           *)

HasMoney(o) == \E x \in PaymentIds : Succeeded(x) /\ pay[x].order = o

(* A transition that will write a paid status has found one, and was not   *)
(* PAY: its order had money then, and money once taken stays.              *)
MoneyBehindTransitions ==
    \A r \in OrderRequests :
        ord[r].pc \in {"stage", "commit"} /\ ord[r].rule.to \in PaidStates =>
            HasMoney(ord[r].order)

ShopInv == OrdInv /\ PayInv /\ PaidOrdersHaveMoney /\ MoneyBehindTransitions

LEMMA InitShop == Init => ShopInv
<1> SUFFICES ASSUME Init
             PROVE  ShopInv
  OBVIOUS
<1>1. OrdInv /\ PayInv
  BY InitOrders, InitPayments DEF Init
<1>2. PaidOrdersHaveMoney
  BY DEF Init, OrdersInit, OrdInit, PaidOrdersHaveMoney, PaidStates
<1>3. MoneyBehindTransitions
  BY DEF Init, OrdersInit, OrdInit, MoneyBehindTransitions
<1> QED
  BY <1>1, <1>2, <1>3 DEF ShopInv

LEMMA MoneyStays ==
    ASSUME PayInv, PayRowsKept, NEW o, HasMoney(o)
    PROVE  HasMoney(o)'
<1>1. PICK x \in PaymentIds : Succeeded(x) /\ pay[x].order = o
  BY DEF HasMoney
<1>2. x \in stored' /\ pay'[x] = pay[x]
  BY <1>1 DEF PayRowsKept, Succeeded, TERMINAL
<1>3. Succeeded(x)' /\ pay'[x].order = o
  BY <1>1, <1>2 DEF Succeeded
<1> QED
  BY <1>3 DEF HasMoney

LEMMA PaymentsUnmoved ==
    ASSUME PayInv, UNCHANGED payVars
    PROVE  PayInv' /\ PayRowsKept
BY DEF PayInv, PayTypeOK, PaymentLockDiscipline, PayCallOK, FlushedApart, PayRows,
       OneSuccessPerOrder, RefBacksOnePayment, KeyNamesOnePayment, Succeeded, Collides,
       PayRowsKept, payVars, payTables

(* Only PAY leads to a paid status from one that is not, and the endpoint  *)
(* refuses PAY.                                                            *)
LEMMA ClientRulesNeedMoney ==
    ASSUME NEW rule \in TRANSITIONS, rule.event \in ClientEvent, rule.to \in PaidStates
    PROVE  rule.from \in PaidStates
BY DEF TRANSITIONS, Rule, ClientEvent, PaidStates

(* What a step leaves alone, or finds already paid, keeps its money.       *)
LEMMA MoneyKept ==
    ASSUME ShopInv, PayRowsKept,
           \A o \in OrderIds : status'[o] \in PaidStates => HasMoney(o) \/ HasMoney(o)',
           \A r \in OrderRequests :
             ord'[r].pc \in {"stage", "commit"} /\ ord'[r].rule.to \in PaidStates =>
                HasMoney(ord'[r].order)
    PROVE  PaidOrdersHaveMoney' /\ MoneyBehindTransitions'
<1>1. ASSUME NEW o \in OrderIds, status'[o] \in PaidStates
      PROVE  HasMoney(o)'
  BY <1>1, MoneyStays DEF ShopInv
<1>2. ASSUME NEW r \in OrderRequests, ord'[r].pc \in {"stage", "commit"},
             ord'[r].rule.to \in PaidStates
      PROVE  HasMoney(ord[r].order)'
  <2>1. PICK o : o = ord'[r].order
    OBVIOUS
  <2>2. HasMoney(o)
    BY <1>2, <2>1
  <2>3. HasMoney(o)'
    BY <2>2, MoneyStays DEF ShopInv
  <2> QED
    BY <2>1, <2>3 DEF HasMoney
<1>3. PaidOrdersHaveMoney'
  BY <1>1 DEF PaidOrdersHaveMoney, HasMoney
<1>4. MoneyBehindTransitions'
  BY <1>2 DEF MoneyBehindTransitions
<1> QED
  BY <1>3, <1>4

LEMMA OrdNextNeedsMoney ==
    ASSUME ShopInv, OrdNext
    PROVE  /\ \A o \in OrderIds : status'[o] \in PaidStates => HasMoney(o)
           /\ \A r \in OrderRequests :
                ord'[r].pc \in {"stage", "commit"} /\ ord'[r].rule.to \in PaidStates =>
                   HasMoney(ord'[r].order)
<1>0. /\ ord \in [OrderRequests -> OrdState] /\ status \in [OrderIds -> OrderStatus]
      /\ \A o \in OrderIds : status[o] \in PaidStates => HasMoney(o)
      /\ \A r \in OrderRequests :
           ord[r].pc \in {"stage", "commit"} /\ ord[r].rule.to \in PaidStates =>
              HasMoney(ord[r].order)
  BY DEF ShopInv, OrdInv, OrdTypeOK, PaidOrdersHaveMoney, MoneyBehindTransitions, HasMoney
<1>1. PICK r \in OrderRequests : BeginOrder(r) \/ ContinueOrder(r) \/ CrashOrder(r)
  BY DEF OrdNext
<1>2. ASSUME NEW o \in OrderIds, CreateOrder(r, o)
      PROVE  /\ \A p \in OrderIds : status'[p] \in PaidStates => status[p] \in PaidStates
             /\ \A s \in OrderRequests \ {r} : ord'[s] = ord[s]
             /\ ord'[r].pc = "publish"
  BY <1>0, <1>2 DEF CreateOrder, PaidStates, OrdState
<1>3. ASSUME NEW o \in OrderIds, NEW event \in ClientEvent, ReadOrder(r, o, event)
      PROVE  /\ status' = status
             /\ \A s \in OrderRequests \ {r} : ord'[s] = ord[s]
             /\ ord'[r].rule.to \in PaidStates => HasMoney(ord'[r].order)
  <2>1. PICK rule \in TRANSITIONS :
          /\ rule.from = status[o] /\ rule.event = event
          /\ ord' = [ord EXCEPT ![r] =
               [@ EXCEPT !.pc = IF rule.effect = 0 THEN "commit" ELSE "stage",
                         !.order = o, !.rule = rule]]
    BY <1>3 DEF ReadOrder
  <2>2. /\ ord'[r].order = o /\ ord'[r].rule = rule
        /\ \A s \in OrderRequests \ {r} : ord'[s] = ord[s]
    BY <1>0, <2>1 DEF OrdState
  <2>3. rule.to \in PaidStates => HasMoney(o)
    BY <1>0, <2>1, ClientRulesNeedMoney
  <2> QED
    BY <1>3, <2>2, <2>3 DEF ReadOrder, tableVars
<1>4. CASE BeginOrder(r)
  <2>1. ASSUME NEW o \in OrderIds, NEW event \in ClientEvent, RefuseTransition(r, o, event)
        PROVE  /\ status' = status
               /\ \A s \in OrderRequests \ {r} : ord'[s] = ord[s]
               /\ ord'[r].pc = "failed"
    BY <1>0, <2>1 DEF RefuseTransition, tableVars, OrdState
  <2> QED
    BY <1>0, <1>2, <1>3, <1>4, <2>1 DEF BeginOrder
<1>5. CASE RefuseLine(r) \/ AbortDeadlock(r) \/ CrashOrder(r) \/ PublishOrder(r)
  <2>1. /\ status' = status
        /\ \A s \in OrderRequests \ {r} : ord'[s] = ord[s]
        /\ ord'[r].pc \in Finished
    BY <1>0, <1>5 DEF RefuseLine, AbortDeadlock, CrashOrder, PublishOrder, tableVars, OrdState
  <2> QED
    BY <1>0, <2>1
<1>6. CASE StageLine(r)
  <2>1. ord[r].pc = "stage" /\ status' = status
    BY <1>6 DEF StageLine, tableVars
  <2>2. /\ ord'[r].rule = ord[r].rule /\ ord'[r].order = ord[r].order
        /\ \A s \in OrderRequests \ {r} : ord'[s] = ord[s]
    BY <1>0, <1>6 DEF StageLine, OrdState
  <2> QED
    BY <1>0, <2>1, <2>2
<1>7. CASE CommitTransition(r)
  <2>1. /\ ord[r].pc = "commit" /\ ord[r].order \in OrderIds
        /\ status' = [status EXCEPT ![ord[r].order] = ord[r].rule.to]
    BY <1>7 DEF CommitTransition, ShopInv, OrdInv, OrderAtHand
  <2>2. /\ ord'[r].pc = "publish"
        /\ \A s \in OrderRequests \ {r} : ord'[s] = ord[s]
    BY <1>0, <1>7 DEF CommitTransition, OrdState
  <2>3. \A o \in OrderIds : status'[o] = IF o = ord[r].order THEN ord[r].rule.to ELSE status[o]
    BY <1>0, <2>1
  <2> QED
    BY <1>0, <2>1, <2>2, <2>3
<1> QED
  BY <1>1, <1>4, <1>5, <1>6, <1>7 DEF ContinueOrder

LEMMA ShopStepKeeps ==
    ASSUME ShopInv, [Next]_vars
    PROVE  ShopInv' /\ PayRowsKept
<1>0. OrdInv /\ PayInv
  BY DEF ShopInv
<1>1. /\ \A o \in OrderIds : status[o] \in PaidStates => HasMoney(o)
      /\ \A r \in OrderRequests :
           ord[r].pc \in {"stage", "commit"} /\ ord[r].rule.to \in PaidStates =>
              HasMoney(ord[r].order)
  BY DEF ShopInv, PaidOrdersHaveMoney, MoneyBehindTransitions, HasMoney
<1>2. CASE AdjNext /\ UNCHANGED <<ordVars, payVars>>
  <2>1. OrdInv' /\ PayInv' /\ PayRowsKept
    BY <1>0, <1>2, AdjLeavesOrders, PaymentsUnmoved
  <2>2. status' = status /\ ord' = ord
    BY <1>2 DEF ordVars, tableVars
  <2> QED
    BY <1>1, <2>1, <2>2, MoneyKept DEF ShopInv
<1>3. CASE OrdNext /\ UNCHANGED payVars
  <2>1. OrdInv' /\ PayInv' /\ PayRowsKept
    BY <1>0, <1>3, OrdNextKeeps, PaymentsUnmoved
  <2> QED
    BY <1>3, <2>1, OrdNextNeedsMoney, MoneyKept DEF ShopInv
<1>4. CASE PayNext
  <2>1. PICK r \in PaymentRequests : BeginPayment(r) \/ ContinuePayment(r) \/ CrashPayment(r)
    BY <1>4 DEF PayNext
  <2>2. PayInv' /\ PayRowsKept
    BY <1>0, <2>1, PayNextKeeps DEF OrdInv, OrdTypeOK
  <2>3. CASE UNCHANGED ordersVars
    <3>1. OrdInv' /\ status' = status /\ ord' = ord
      BY <1>0, <2>3, OrdStutters DEF ordersVars, ordVars, tableVars
    <3> QED
      BY <1>1, <2>2, <3>1, MoneyKept DEF ShopInv
  <2>4. CASE CommitSuccess(r)
    <3>1. /\ status' = [status EXCEPT ![preq[r].order] = "PAID"]
          /\ UNCHANGED <<invVars, taken, lifecycle, ord>>
      BY <1>0, <2>4, CommitSuccessPays
    <3>2. /\ preq[r].order \in OrderIds
          /\ \E x \in PaymentIds : Succeeded(x)' /\ pay'[x].order = preq[r].order
      BY <1>0, <2>4, CommitSuccessKeeps
    <3>3. /\ status' \in [OrderIds -> OrderStatus]
          /\ \A o \in OrderIds : o # preq[r].order => status'[o] = status[o]
      BY <1>0, <3>1 DEF OrdInv, OrdTypeOK, OrderStatus, HoldingStates, PaidStates
    <3>4. OrdInv'
      BY <1>0, <3>1, <3>3
         DEF OrdInv, OrdTypeOK, OrderAtHand, OrderLockDiscipline, InvTypeOK, StockTypeOK,
             AdjTypeOK, invVars, stockVars
    <3>5. PICK o : o = preq[r].order
      OBVIOUS
    <3>6. HasMoney(o)'
      BY <3>2, <3>5 DEF HasMoney
    <3>7. \A p \in OrderIds : status'[p] \in PaidStates => HasMoney(p) \/ HasMoney(p)'
      BY <1>1, <3>3, <3>5, <3>6
    <3> QED
      BY <1>1, <2>2, <3>1, <3>4, <3>7, MoneyKept DEF ShopInv
  <2> QED
    BY <2>1, <2>3, <2>4
       DEF BeginPayment, ContinuePayment, CrashPayment, BeginInitiate, BeginVerify,
           CheckNoSuccess, LookUpKey, GatewayRefusesCreate, InsertPayment, LockPayment,
           CheckOrder, GatewayFails, GatewayPending, GatewayRejects, GatewayConfirms,
           FlushSuccess, PublishPayment
<1>5. CASE UNCHANGED vars
  <2>1. OrdInv' /\ PayInv' /\ PayRowsKept
    BY <1>0, <1>5, OrdStutters, PaymentsUnmoved DEF vars
  <2>2. status' = status /\ ord' = ord
    BY <1>5 DEF vars, ordersVars, ordVars, tableVars
  <2> QED
    BY <1>1, <2>1, <2>2, MoneyKept DEF ShopInv
<1> QED
  BY <1>2, <1>3, <1>4, <1>5 DEF Next

-----------------------------------------------------------------------------
(* The inductive invariant of stock, orders and payments together.         *)
THEOREM ShopCorrect == Spec => []ShopInv
<1>1. ShopInv /\ [Next]_vars => ShopInv'
  BY ShopStepKeeps
<1> QED
  BY <1>1, InitShop, PTL DEF Spec

(* Every variable keeps its type, whatever the three modules do together.  *)
THEOREM ShopTypeCorrect == Spec => []TypeOK
<1>1. ShopInv => TypeOK
  BY DEF ShopInv, OrdInv, PayInv, TypeOK
<1> QED
  BY <1>1, ShopCorrect, PTL

(* A payment that is being verified belongs to one request, is unsettled,  *)
(* and is let go on every way out, for any number of verifications.        *)
THEOREM PaymentLocksAreDisciplined == Spec => []PaymentLockDiscipline
<1>1. ShopInv => PaymentLockDiscipline
  BY DEF ShopInv, PayInv
<1> QED
  BY <1>1, ShopCorrect, PTL

(* No order is paid for twice, however many attempts the gateway confirms. *)
THEOREM OrdersArePaidOnce == Spec => []OneSuccessPerOrder
<1>1. ShopInv => OneSuccessPerOrder
  BY DEF ShopInv, PayInv, PayRows
<1> QED
  BY <1>1, ShopCorrect, PTL

(* One gateway payment settles at most one of our payments.                *)
THEOREM RefsBackOnePayment == Spec => []RefBacksOnePayment
<1>1. ShopInv => RefBacksOnePayment
  BY DEF ShopInv, PayInv, PayRows
<1> QED
  BY <1>1, ShopCorrect, PTL

(* Calls that race with one idempotency key leave one payment.             *)
THEOREM KeysNameOnePayment == Spec => []KeyNamesOnePayment
<1>1. ShopInv => KeyNamesOnePayment
  BY DEF ShopInv, PayInv, PayRows
<1> QED
  BY <1>1, ShopCorrect, PTL

(* Goods never move on without money, although transitions act on the      *)
(* status they read before their row locks.                                *)
THEOREM GoodsFollowMoney == Spec => []PaidOrdersHaveMoney
<1>1. ShopInv => PaidOrdersHaveMoney
  BY DEF ShopInv
<1> QED
  BY <1>1, ShopCorrect, PTL

(* A payment in a terminal status is never written again.                  *)
THEOREM SettledStaysSettled == Spec => SettledIsFinal
<1>1. ShopInv /\ [Next]_vars =>
        [\A x \in stored :
            pay[x].status \in TERMINAL => pay'[x] = pay[x]]_vars
  BY ShopStepKeeps DEF PayRowsKept
<1> QED
  BY <1>1, ShopCorrect, PTL DEF Spec, SettledIsFinal

-----------------------------------------------------------------------------
(* The promise to those who read an order's status without a lock.         *)

(* Only the commit of a success makes an order one that has money.         *)
LEMMA NoNewMoney ==
    ASSUME PayInv, PayRowsKept,
           \A x \in PaymentIds : Succeeded(x)' => Succeeded(x)
    PROVE  PaidFor' = PaidFor
<1>1. \A x \in PaymentIds : Succeeded(x) => Succeeded(x)' /\ pay'[x] = pay[x]
  BY DEF PayRowsKept, Succeeded, TERMINAL
<1>2. \A o \in OrderIds :
        (\E x \in PaymentIds : Succeeded(x)' /\ pay'[x].order = o) <=>
        (\E x \in PaymentIds : Succeeded(x) /\ pay[x].order = o)
  BY <1>1
<1> QED
  BY <1>2 DEF PaidFor

LEMMA OtherPaymentStepsEarnNothing ==
    ASSUME PayInv, NEW r \in PaymentRequests,
           BeginPayment(r) \/ ContinuePayment(r) \/ CrashPayment(r), ~CommitSuccess(r)
    PROVE  UNCHANGED ordersVars /\ \A x \in PaymentIds : Succeeded(x)' => Succeeded(x)
<1>0. pay \in [PaymentIds -> Payment] /\ r \in PaymentIds
  BY PayAssumptions DEF PayInv, PayTypeOK
<1>1. CASE InsertPayment(r)
  <2>1. \A x \in PaymentIds : x # r => pay'[x] = pay[x] /\ (x \in stored' <=> x \in stored)
    BY <1>0, <1>1 DEF InsertPayment
  <2>2. CASE UNCHANGED <<stored, pay>>
    BY <1>1, <2>2 DEF InsertPayment, Succeeded
  <2>3. CASE pay'[r].status = "CREATED"
    BY <1>1, <2>1, <2>3 DEF InsertPayment, Succeeded
  <2> QED
    BY <1>0, <1>1, <2>2, <2>3 DEF InsertPayment
<1>2. CASE GatewayPending(r) \/ GatewayRejects(r)
  <2>1. \E v \in {"PENDING", "FAILED"} :
          pay' = [pay EXCEPT ![preq[r].payment] = [@ EXCEPT !.status = v]]
    BY <1>2 DEF GatewayPending, GatewayRejects
  <2>2. \A x \in PaymentIds : pay'[x].status \in {pay[x].status, "PENDING", "FAILED"}
    BY <1>0, <2>1 DEF Payment
  <2>3. UNCHANGED <<ordersVars, stored>>
    BY <1>2 DEF GatewayPending, GatewayRejects
  <2> QED
    BY <2>2, <2>3 DEF Succeeded
<1>3. CASE UNCHANGED <<ordersVars, stored, pay>>
  BY <1>3 DEF Succeeded
<1> QED
  BY <1>1, <1>2, <1>3
     DEF BeginPayment, ContinuePayment, CrashPayment, BeginInitiate, BeginVerify,
         CheckNoSuccess, LookUpKey, GatewayRefusesCreate, LockPayment, CheckOrder,
         GatewayFails, GatewayConfirms, FlushSuccess, PublishPayment, payTables

LEMMA CommitIsPay ==
    ASSUME PayInv, NEW r \in PaymentRequests, CommitSuccess(r)
    PROVE  Promise!Pay(preq[r].order) /\ preq[r].order \in OrderIds
<1> DEFINE v == [pay[preq[r].payment] EXCEPT !.status = "SUCCESS", !.ref = preq[r].ref]
<1>p. PICK o, z : o = preq[r].order /\ z = preq[r].payment
  OBVIOUS
<1>1. /\ PayRowsKept /\ o \in OrderIds
      /\ \E x \in PaymentIds : Succeeded(x)' /\ pay'[x].order = o
  BY <1>p, CommitSuccessKeeps
<1>2. /\ pay \in [PaymentIds -> Payment] /\ pay[z].order = o /\ z \in PaymentIds
      /\ stored \subseteq PaymentIds
  BY <1>p DEF PayInv, PayTypeOK, PaymentLockDiscipline, Holding, CommitSuccess
<1>3. pay' = [pay EXCEPT ![z] = v] /\ stored' = stored
  BY <1>p, CommitSuccessPays
<1>4. \A x \in PaymentIds : x # z => pay'[x] = pay[x]
  BY <1>2, <1>3
<1>5. pay'[z].order = o
  BY <1>1, <1>2 DEF PayRowsKept, PayInv, PaymentLockDiscipline, Holding, CommitSuccess
<1>6. \A x \in PaymentIds : Succeeded(x) => Succeeded(x)' /\ pay'[x] = pay[x]
  BY <1>1 DEF PayRowsKept, Succeeded, TERMINAL
<1>7. \A p \in OrderIds :
        (\E x \in PaymentIds : Succeeded(x)' /\ pay'[x].order = p) <=>
        p = o \/ \E x \in PaymentIds : Succeeded(x) /\ pay[x].order = p
  <2> SUFFICES ASSUME NEW p \in OrderIds, p # o
               PROVE  (\E x \in PaymentIds : Succeeded(x)' /\ pay'[x].order = p) <=>
                      (\E x \in PaymentIds : Succeeded(x) /\ pay[x].order = p)
    BY <1>1
  <2>1. \A x \in PaymentIds : Succeeded(x)' /\ pay'[x].order = p => Succeeded(x)
    BY <1>3, <1>4, <1>5 DEF Succeeded
  <2> QED
    BY <1>4, <1>5, <1>6, <2>1
<1>8. PaidFor' = PaidFor \cup {o}
  BY <1>1, <1>7 DEF PaidFor
<1>9. status' = [status EXCEPT ![o] = "PAID"]
  BY <1>p, CommitSuccessPays
<1> QED
  BY <1>p, <1>1, <1>8, <1>9 DEF Promise!Pay

(* A step of orders writes at most one status, and a paid one only if its  *)
(* order has money.                                                        *)
LEMMA OrderStepsWrite ==
    ASSUME ShopInv, OrdNext, UNCHANGED payVars, ~(status' = status)
    PROVE  \E o \in OrderIds, s \in OrderStatus \ {"NONE"} : Promise!Write(o, s)
<1>0. PaidFor' = PaidFor /\ status \in [OrderIds -> OrderStatus]
  <2>1. PayInv /\ PayRowsKept
    BY PaymentsUnmoved DEF ShopInv
  <2>2. \A x \in PaymentIds : Succeeded(x)' => Succeeded(x)
    BY DEF payVars, payTables, Succeeded
  <2> QED
    BY <2>1, <2>2, NoNewMoney DEF ShopInv, OrdInv, OrdTypeOK
<1>1. PICK r \in OrderRequests : BeginOrder(r) \/ ContinueOrder(r) \/ CrashOrder(r)
  BY DEF OrdNext
<1>2. ASSUME NEW o \in OrderIds, NEW s \in OrderStatus \ {"NONE"},
             status' = [status EXCEPT ![o] = s]
      PROVE  Promise!Write(o, s)
  <2>1. s \in PaidStates => HasMoney(o)
    BY <1>0, <1>2, OrdNextNeedsMoney
  <2>2. s \in PaidStates => o \in PaidFor
    BY <2>1 DEF HasMoney, PaidFor
  <2> QED
    BY <1>0, <1>2, <2>2 DEF Promise!Write, Promise!PaidStates, PaidStates
<1>3. CASE BeginOrder(r)
  <2>1. \E o \in OrderIds : status' = [status EXCEPT ![o] = "CREATED"]
    BY <1>3 DEF BeginOrder, CreateOrder, ReadOrder, RefuseTransition, tableVars
  <2> QED
    BY <1>2, <2>1 DEF OrderStatus
<1>4. CASE CommitTransition(r)
  <2>1. /\ status' = [status EXCEPT ![ord[r].order] = ord[r].rule.to]
        /\ ord[r].order \in OrderIds /\ ord[r] \in OrdState
    BY <1>4 DEF CommitTransition, ShopInv, OrdInv, OrdTypeOK, OrderAtHand
  <2>2. ord[r].rule.to \in OrderStatus \ {"NONE"}
    BY <2>1, RuleTypes DEF OrdState
  <2> QED
    BY <1>2, <2>1, <2>2
<1> QED
  BY <1>1, <1>3, <1>4
     DEF ContinueOrder, StageLine, RefuseLine, AbortDeadlock, PublishOrder, CrashOrder, tableVars

(* Payments, with orders and stock, keeps the promise the invoices rely    *)
(* on, however the requests about one order overlap: a paid status has its *)
(* money, and money that has been taken stays.                             *)
THEOREM PaymentsKeepThePromise == Spec => PromiseSpec
<1>1. Init => Promise!Init
  <2> SUFFICES ASSUME Init
               PROVE  Promise!Init
    OBVIOUS
  <2>1. \A x \in PaymentIds : ~Succeeded(x)
    BY DEF Init, PayInit, Succeeded
  <2>2. PaidFor = {}
    BY <2>1 DEF PaidFor
  <2> QED
    BY <2>2 DEF Promise!Init, Init, OrdersInit, OrdInit
<1>2. ShopInv /\ [Next]_vars => [Promise!Next]_(Promise!vars)
  <2> SUFFICES ASSUME ShopInv, [Next]_vars
               PROVE  Promise!Next \/ (status' = status /\ PaidFor' = PaidFor)
    BY DEF Promise!vars
  <2>0. PayInv /\ PayRowsKept
    BY ShopStepKeeps DEF ShopInv
  <2>1. CASE UNCHANGED payVars /\ ~PayNext
    <3>1. \A x \in PaymentIds : Succeeded(x)' => Succeeded(x)
      BY <2>1 DEF payVars, payTables, Succeeded
    <3>2. PaidFor' = PaidFor
      BY <2>0, <3>1, NoNewMoney
    <3>3. CASE status' = status
      BY <3>2, <3>3
    <3>4. CASE status' # status
      <4>1. OrdNext
        BY <3>4, <2>1 DEF Next, ordVars, tableVars, vars, ordersVars
      <4>2. \E o \in OrderIds, s \in OrderStatus \ {"NONE"} : Promise!Write(o, s)
        BY <2>1, <3>4, <4>1, OrderStepsWrite
      <4> QED
        BY <4>2 DEF Promise!Next, Promise!OrderStatus, OrderStatus, Promise!HoldingStates,
                    HoldingStates, Promise!PaidStates, PaidStates
    <3> QED
      BY <3>3, <3>4
  <2>2. ASSUME NEW r \in PaymentRequests,
               BeginPayment(r) \/ ContinuePayment(r) \/ CrashPayment(r)
        PROVE  Promise!Next \/ (status' = status /\ PaidFor' = PaidFor)
    <3>1. CASE CommitSuccess(r)
      BY <2>0, <3>1, CommitIsPay DEF Promise!Next
    <3>2. CASE ~CommitSuccess(r)
      <4>1. UNCHANGED ordersVars /\ \A x \in PaymentIds : Succeeded(x)' => Succeeded(x)
        BY <2>0, <2>2, <3>2, OtherPaymentStepsEarnNothing
      <4> QED
        BY <2>0, <4>1, NoNewMoney DEF ordersVars, ordVars, tableVars
    <3> QED
      BY <3>1, <3>2
  <2> QED
    BY <2>1, <2>2 DEF Next, PayNext, vars
<1> QED
  BY <1>1, <1>2, ShopCorrect, PTL DEF Spec, PromiseSpec, Promise!Spec

=============================================================================
