----------------------------- MODULE Shop_proofs -----------------------------
(***************************************************************************)
(* Proofs that orders and payments, stepping statement by statement,       *)
(* implement what they promise: the atomic ledger of the stock, and, while *)
(* transitions of an order overlap no other request about it, the atomic   *)
(* lifecycle of the order.                                                 *)
(***************************************************************************)
EXTENDS Payments_proofs

USE DEF InventoryRequests, Finished, InStock

-----------------------------------------------------------------------------
(* The ledger.                                                             *)

(* What a transaction has staged for a product continues from the row as   *)
(* it is committed: nobody else can move a row that an order has touched.  *)
StagedChains ==
    \A r \in OrderRequests, p \in Products :
        ord[r].pc \in {"stage", "commit"} =>
            Ledger!Chained(quantity[p], ord[r].staged[p], 1)

BooksInv == OrdInv /\ LockDiscipline /\ HistoryInv /\ CurrentInv /\ StagedChains

LEMMA InitBooks == OrdersInit => BooksInv
<1> SUFFICES ASSUME OrdersInit
             PROVE  BooksInv
  OBVIOUS
<1>1. LockDiscipline /\ HistoryInv /\ CurrentInv
  BY InitLock, InitHistory, InitCurrent DEF OrdersInit
<1>2. StagedChains
  BY DEF OrdersInit, OrdInit, StagedChains
<1> QED
  BY <1>1, <1>2, InitOrders DEF BooksInv

LEMMA RequestsApart ==
    /\ OrderRequests \cap InventoryRequests = {}
    /\ NoRequest \notin OrderRequests \cup InventoryRequests
BY InventoryAssumption, OrdersAssumption DEF Requests

LEMMA StagedType ==
    ASSUME OrdInv, NEW r \in OrderRequests, NEW p \in Products
    PROVE  /\ ord[r].staged[p] \in Seq(Ledger!Movement)
           /\ movements[p] \in Seq(Ledger!Movement)
           /\ quantity[p] \in Int
BY DEF OrdInv, OrdTypeOK, OrdState, InvTypeOK, StockTypeOK, Quantity

LEMMA NothingChained == \A q : Ledger!Chained(q, <<>>, 1)
BY DEF Ledger!Chained

(* Adjustments leave the rows alone that an order's transaction has        *)
(* touched.                                                                *)
LEMMA AdjLeavesTouched ==
    ASSUME OrdInv, LockDiscipline, AdjNext, NEW s \in OrderRequests, NEW p \in Products,
           ord[s].pc \in {"stage", "commit"}, ord[s].staged[p] # <<>>
    PROVE  quantity'[p] = quantity[p]
<1>1. PICK r \in InventoryRequests : BeginAdj(r) \/ ContinueAdj(r) \/ CrashAdj(r)
  BY DEF AdjNext
<1>2. adj[r].product \in Products /\ quantity \in [Products -> Quantity]
  BY DEF OrdInv, InvTypeOK, StockTypeOK, AdjTypeOK, AdjState
<1>3. p \in rows /\ rowLock[p] = s
  BY DEF OrdInv, OrderLockDiscipline
<1>4. CASE InsertRow(r)
  BY <1>2, <1>3, <1>4 DEF InsertRow
<1>5. CASE ApplyAdjustment(r)
  <2>1. rowLock[adj[r].product] = r
    BY <1>5 DEF ApplyAdjustment, CommitAdjustment, RefuseAdjustment, LockDiscipline
  <2> QED
    BY <1>2, <1>3, <1>5, <2>1, RequestsApart
       DEF ApplyAdjustment, CommitAdjustment, RefuseAdjustment
<1>6. CASE ~InsertRow(r) /\ ~ApplyAdjustment(r)
  BY <1>1, <1>6 DEF BeginAdj, BeginCreate, BeginThreshold, BeginAdjust, BeginAdjustByProduct,
                    ContinueAdj, SetThreshold, LockRow, LockHeldRow, PublishLowStock,
                    CrashAdj, stockVars
<1> QED
  BY <1>4, <1>5, <1>6

LEMMA AdjLeavesStaged ==
    ASSUME BooksInv, AdjNext, UNCHANGED ordVars
    PROVE  StagedChains'
<1>1. ASSUME NEW s \in OrderRequests, NEW p \in Products, ord[s].pc \in {"stage", "commit"}
      PROVE  Ledger!Chained(quantity'[p], ord[s].staged[p], 1)
  <2>1. CASE ord[s].staged[p] = <<>>
    BY <2>1, NothingChained
  <2>2. CASE ord[s].staged[p] # <<>>
    <3>1. quantity'[p] = quantity[p]
      BY <1>1, <2>2, AdjLeavesTouched DEF BooksInv
    <3> QED
      BY <1>1, <3>1 DEF BooksInv, StagedChains
  <2> QED
    BY <2>1, <2>2
<1>2. ord' = ord
  BY DEF ordVars
<1> QED
  BY <1>1, <1>2 DEF StagedChains

(* What an order's request does to stock, seen from everybody else.        *)
LEMMA OrderStepShares ==
    ASSUME OrdInv, NEW r \in OrderRequests,
           BeginOrder(r) \/ ContinueOrder(r) \/ CrashOrder(r)
    PROVE  /\ UNCHANGED <<rows, threshold, opening, adj>>
           /\ \A p \in Products, s \in InventoryRequests : rowLock'[p] = s <=> rowLock[p] = s
           /\ ~CommitTransition(r) => UNCHANGED <<quantity, movements>>
           /\ \A s \in OrderRequests \ {r} : ord'[s] = ord[s]
<1>1. /\ UNCHANGED <<rows, threshold, opening, adj>>
      /\ ~CommitTransition(r) => UNCHANGED <<quantity, movements>>
      /\ \/ rowLock' = rowLock
         \/ rowLock' = Released(r)
         \/ StageLine(r)
      /\ \A s \in OrderRequests \ {r} : ord'[s] = ord[s]
  BY DEF BeginOrder, CreateOrder, ReadOrder, RefuseTransition, ContinueOrder, StageLine,
         RefuseLine, AbortDeadlock, CommitTransition, PublishOrder, CrashOrder, invVars,
         stockVars, OrdInv, OrdTypeOK
<1>2. \A p \in Products, s \in InventoryRequests : rowLock'[p] = s <=> rowLock[p] = s
  <2>1. CASE StageLine(r)
    <3>1. \E p \in Products : MayLock(r, p) /\ rowLock' = [rowLock EXCEPT ![p] = r]
      BY <2>1 DEF StageLine, Feasible, OrdInv, InvTypeOK, StockTypeOK
    <3> QED
      BY <3>1, RequestsApart DEF MayLock, OrdInv, InvTypeOK, StockTypeOK
  <2>2. CASE rowLock' = Released(r)
    BY <2>2, RequestsApart DEF Released
  <2> QED
    BY <1>1, <2>1, <2>2
<1> QED
  BY <1>1, <1>2

(* Neither does another order's request move what an order has touched.    *)
LEMMA OrdersLeaveTouched ==
    ASSUME OrdInv, NEW r \in OrderRequests,
           BeginOrder(r) \/ ContinueOrder(r) \/ CrashOrder(r),
           NEW s \in OrderRequests \ {r}, NEW p \in Products,
           ord[s].pc \in {"stage", "commit"}, ord[s].staged[p] # <<>>
    PROVE  quantity'[p] = quantity[p]
<1>1. CASE ~CommitTransition(r)
  BY <1>1, OrderStepShares
<1>2. CASE CommitTransition(r)
  <2>1. rowLock[p] = s
    BY DEF OrdInv, OrderLockDiscipline
  <2>2. ord[r].pc = "commit" /\ quantity'[p] = OwnQuantity(r, p)
    BY <1>2 DEF CommitTransition
  <2>3. ord[r].staged[p] = <<>>
    BY <2>1, <2>2 DEF OrdInv, OrderLockDiscipline
  <2> QED
    BY <2>2, <2>3 DEF OwnQuantity, Ledger!After
<1> QED
  BY <1>1, <1>2

LEMMA OrdersKeepDiscipline ==
    ASSUME OrdInv, LockDiscipline, OrdNext
    PROVE  LockDiscipline'
<1>1. PICK r \in OrderRequests : BeginOrder(r) \/ ContinueOrder(r) \/ CrashOrder(r)
  BY DEF OrdNext
<1>2. /\ adj' = adj
      /\ \A p \in Products, s \in InventoryRequests : rowLock'[p] = s <=> rowLock[p] = s
  BY <1>1, OrderStepShares
<1>3. \A x \in InventoryRequests : adj[x].product \in Products
  BY DEF OrdInv, InvTypeOK, AdjTypeOK, AdjState
<1> QED
  BY <1>2, <1>3 DEF LockDiscipline

LEMMA LineDeltaType ==
    ASSUME OrdInv, NEW r \in OrderRequests, ord[r].pc = "stage"
    PROVE  LineDelta(r) \in Int
<1>1. ord[r].order \in OrderIds /\ ord[r].line \in 1 .. Len(Lines[ord[r].order])
  BY DEF OrdInv, OrderAtHand
<1>2. Lines[ord[r].order] \in Seq(Line)
  BY <1>1, OrdersAssumption
<1>3. NextLine(r) \in Line
  BY <1>1, <1>2 DEF NextLine
<1>4. ord[r].rule.effect \in {-1, 0, 1}
  BY RuleTypes DEF OrdInv, OrdTypeOK, OrdState
<1> QED
  BY <1>3, <1>4 DEF LineDelta, Line

(* A transaction stages, or ends, and what it has staged continues.        *)
LEMMA OrderStagesChained ==
    ASSUME OrdInv, StagedChains, NEW r \in OrderRequests,
           BeginOrder(r) \/ ContinueOrder(r) \/ CrashOrder(r), ~CommitTransition(r),
           NEW p \in Products, ord'[r].pc \in {"stage", "commit"}
    PROVE  Ledger!Chained(quantity[p], ord'[r].staged[p], 1)
<1>0. ord[r] \in OrdState /\ ord \in [OrderRequests -> OrdState]
  BY DEF OrdInv, OrdTypeOK
<1>1. CASE BeginOrder(r)
  <2>1. ord[r].pc = "new"
    BY <1>1 DEF BeginOrder, CreateOrder, ReadOrder, RefuseTransition
  <2>b. ord'[r].staged = ord[r].staged
    <3>1. PICK o \in OrderIds : \/ CreateOrder(r, o)
                               \/ \E event \in ClientEvent : ReadOrder(r, o, event)
                               \/ \E e \in ClientEvent : RefuseTransition(r, o, e)
      BY <1>1 DEF BeginOrder
    <3>2. CASE CreateOrder(r, o)
      BY <1>0, <3>2 DEF CreateOrder, OrdState
    <3>3. CASE \E event \in ClientEvent : ReadOrder(r, o, event)
      <4>1. PICK rule \in TRANSITIONS :
              ord' = [ord EXCEPT ![r] =
                [@ EXCEPT !.pc = IF rule.effect = 0 THEN "commit" ELSE "stage",
                          !.order = o, !.rule = rule]]
        BY <3>3 DEF ReadOrder
      <4> QED
        BY <1>0, <4>1 DEF OrdState
    <3>4. CASE \E event \in ClientEvent : RefuseTransition(r, o, event)
      BY <1>0, <3>4 DEF RefuseTransition, OrdState
    <3> QED
      BY <3>1, <3>2, <3>3, <3>4
  <2>2. ord'[r].staged[p] = <<>>
    BY <2>1, <2>b DEF OrdInv, OrderAtHand, NothingStaged
  <2> QED
    BY <2>2, NothingChained
<1>2. CASE StageLine(r)
  <2> DEFINE x == NextLine(r).product
             new == OwnQuantity(r, x) + LineDelta(r)
             e == [delta |-> LineDelta(r), resulting |-> new]
  <2>1. ord[r].pc = "stage"
    BY <1>2 DEF StageLine
  <2>2. Ledger!Chained(quantity[p], ord[r].staged[p], 1)
    BY <2>1 DEF StagedChains
  <2>3. ord'[r].staged = [ord[r].staged EXCEPT ![x] = Append(@, e)]
    BY <1>0, <1>2 DEF StageLine, OrdState
  <2>4. CASE p # x
    BY <1>0, <2>2, <2>3, <2>4 DEF OrdState
  <2>5. CASE p = x
    <3>1. ord'[r].staged[p] = Append(ord[r].staged[p], e)
      BY <1>0, <2>3, <2>5 DEF OrdState
    <3>2. e \in Ledger!Movement
      <4>1. new \in Quantity
        BY <1>2 DEF StageLine, Feasible
      <4>2. LineDelta(r) \in Int
        BY <2>1, LineDeltaType
      <4> QED
        BY <4>1, <4>2 DEF Ledger!Movement, Ledger!Quantity, Quantity
    <3>3. e.resulting = Ledger!After(quantity[p], ord[r].staged[p]) + e.delta
      BY <2>5 DEF OwnQuantity
    <3> HIDE DEF e
    <3> QED
      BY <2>2, <3>1, <3>2, <3>3, StagedType, AppendChained
  <2> QED
    BY <2>4, <2>5
<1>3. CASE RefuseLine(r) \/ AbortDeadlock(r) \/ PublishOrder(r) \/ CrashOrder(r)
  <2>1. ord'[r].pc \in {"failed", "done", "crashed"}
    BY <1>0, <1>3 DEF RefuseLine, AbortDeadlock, PublishOrder, CrashOrder, OrdState
  <2> QED
    BY <2>1
<1> QED
  BY <1>1, <1>2, <1>3 DEF ContinueOrder

(* The commit of a confirmation or a cancellation is one posting, of all   *)
(* the movements it has staged.                                            *)
LEMMA CommitIsPost ==
    ASSUME OrdInv, HistoryInv, StagedChains, NEW r \in OrderRequests, CommitTransition(r)
    PROVE  /\ Ledger!Post
           /\ \A p \in Products :
                /\ quantity'[p] = Ledger!After(opening[p], movements'[p])
                /\ ord[r].staged[p] = <<>> =>
                     quantity'[p] = quantity[p] /\ movements'[p] = movements[p]
<1>1. /\ ord[r].pc = "commit" /\ UNCHANGED <<rows, opening>>
      /\ quantity' = [p \in Products |-> OwnQuantity(r, p)]
      /\ movements' = [p \in Products |-> movements[p] \o ord[r].staged[p]]
  BY DEF CommitTransition
<1>2. ASSUME NEW p \in Products
      PROVE  /\ Ledger!Extends(movements[p], movements'[p])
             /\ Ledger!Chained(opening[p], movements'[p], Len(movements[p]) + 1)
             /\ quantity'[p] = Ledger!After(opening[p], movements'[p])
             /\ movements'[p] # movements[p] => p \in rows
             /\ movements'[p] \in Seq(Ledger!Movement)
             /\ ord[r].staged[p] = <<>> =>
                  quantity'[p] = quantity[p] /\ movements'[p] = movements[p]
  <2> DEFINE h == movements[p]
             m == ord[r].staged[p]
  <2>1. h \in Seq(Ledger!Movement) /\ m \in Seq(Ledger!Movement)
    BY StagedType
  <2>2. quantity[p] = Ledger!After(opening[p], h)
    BY DEF HistoryInv, LastMovementIsQuantity
  <2>3. Ledger!Chained(quantity[p], m, 1)
    BY <1>1 DEF StagedChains
  <2>4. /\ Ledger!Extends(h, h \o m)
        /\ Ledger!Chained(opening[p], h \o m, Len(h) + 1)
        /\ Ledger!After(opening[p], h \o m) = Ledger!After(quantity[p], m)
        /\ h \o m # h => m # <<>>
    <3>1. Ledger!Chained(Ledger!After(opening[p], h), m, 1)
      BY <2>2, <2>3
    <3> HIDE DEF h, m
    <3>2. /\ Ledger!Extends(h, h \o m)
          /\ Ledger!Chained(opening[p], h \o m, Len(h) + 1)
          /\ Ledger!After(opening[p], h \o m) = Ledger!After(Ledger!After(opening[p], h), m)
          /\ h \o m # h => m # <<>>
      BY <2>1, <3>1, JoinedMovements
    <3> QED
      BY <2>2, <3>2
  <2>5. m # <<>> => p \in rows
    BY <1>1 DEF OrdInv, OrderLockDiscipline
  <2>6. m = <<>> => Ledger!After(quantity[p], m) = quantity[p]
    BY DEF Ledger!After
  <2>7. h \o m \in Seq(Ledger!Movement)
    BY <2>1
  <2>8. movements'[p] = h \o m /\ quantity'[p] = Ledger!After(quantity[p], m)
    BY <1>1 DEF OwnQuantity
  <2> HIDE DEF h, m
  <2> QED
    BY <2>4, <2>5, <2>6, <2>7, <2>8 DEF h, m
<1>3. quantity' = [p \in Products |-> Ledger!After(opening[p], movements'[p])]
  BY <1>1, <1>2
<1>4. movements' \in [Products -> Seq(Ledger!Movement)]
  BY <1>1, <1>2
<1> QED
  BY <1>1, <1>2, <1>3, <1>4 DEF Ledger!Post

LEMMA OrdNextBooks ==
    ASSUME BooksInv, OrdNext
    PROVE  BooksInv' /\ (Ledger!Next \/ UNCHANGED Ledger!vars)
<1>0. OrdInv /\ LockDiscipline /\ HistoryInv /\ CurrentInv /\ StagedChains /\ OrdInv'
  BY OrdNextKeeps DEF BooksInv
<1>1. PICK r \in OrderRequests : BeginOrder(r) \/ ContinueOrder(r) \/ CrashOrder(r)
  BY DEF OrdNext
<1>2. /\ UNCHANGED <<rows, threshold, opening, adj>>
      /\ \A p \in Products, s \in InventoryRequests : rowLock'[p] = s <=> rowLock[p] = s
      /\ ~CommitTransition(r) => UNCHANGED <<quantity, movements>>
      /\ \A s \in OrderRequests \ {r} : ord'[s] = ord[s]
  BY <1>0, <1>1, OrderStepShares
<1>3. \A x \in InventoryRequests : adj[x].product \in Products
  BY <1>0 DEF OrdInv, InvTypeOK, AdjTypeOK, AdjState
<1>4. LockDiscipline'
  BY <1>0, OrdersKeepDiscipline
<1>5. CASE ~CommitTransition(r)
  <2>1. UNCHANGED <<quantity, movements>>
    BY <1>2, <1>5
  <2>2. HistoryInv' /\ CurrentInv'
    BY <1>0, <1>2, <2>1
       DEF HistoryInv, LastMovementIsQuantity, CurrentInv, LockedCopyIsCurrent
  <2>3. \A p \in Products : ord'[r].pc \in {"stage", "commit"} =>
          Ledger!Chained(quantity[p], ord'[r].staged[p], 1)
    BY <1>0, <1>1, <1>5, OrderStagesChained
  <2>4. StagedChains'
    BY <1>0, <1>2, <2>1, <2>3 DEF StagedChains
  <2> QED
    BY <1>0, <1>2, <1>4, <2>1, <2>2, <2>4 DEF BooksInv, Ledger!vars
<1>6. CASE CommitTransition(r)
  <2>1. /\ Ledger!Post
        /\ \A p \in Products :
             /\ quantity'[p] = Ledger!After(opening[p], movements'[p])
             /\ ord[r].staged[p] = <<>> =>
                  quantity'[p] = quantity[p] /\ movements'[p] = movements[p]
    BY <1>0, <1>6, CommitIsPost
  <2>2. ord[r].pc = "commit" /\ ord'[r].pc = "publish"
    BY <1>0, <1>6 DEF CommitTransition, OrdInv, OrdTypeOK, OrdState
  <2>3. \A p \in Products : ord[r].staged[p] # <<>> => p \in rows /\ rowLock[p] = r
    BY <1>0, <2>2 DEF OrdInv, OrderLockDiscipline
  <2>4. HistoryInv'
    BY <1>0, <1>2, <2>1, <2>3 DEF HistoryInv, LastMovementIsQuantity
  <2>5. CurrentInv'
    <3>1. ASSUME NEW x \in InventoryRequests, adj[x].pc = "apply"
          PROVE  quantity'[adj[x].product] = quantity[adj[x].product]
      <4>1. rowLock[adj[x].product] = x
        BY <1>0, <3>1 DEF LockDiscipline
      <4> QED
        BY <1>3, <2>1, <2>3, <4>1, RequestsApart
    <3> QED
      BY <1>0, <1>2, <3>1 DEF CurrentInv, LockedCopyIsCurrent
  <2>6. StagedChains'
    <3>1. ASSUME NEW s \in OrderRequests, NEW p \in Products, ord'[s].pc \in {"stage", "commit"}
          PROVE  Ledger!Chained(quantity'[p], ord'[s].staged[p], 1)
      <4>1. s # r /\ ord'[s] = ord[s]
        BY <1>2, <2>2, <3>1
      <4>2. Ledger!Chained(quantity[p], ord[s].staged[p], 1)
        BY <1>0, <3>1, <4>1 DEF StagedChains
      <4>3. CASE ord[s].staged[p] = <<>>
        BY <4>1, <4>3, NothingChained
      <4>4. CASE ord[s].staged[p] # <<>>
        <5>1. quantity'[p] = quantity[p]
          BY <1>0, <1>1, <3>1, <4>1, <4>4, OrdersLeaveTouched
        <5> QED
          BY <4>1, <4>2, <5>1
      <4> QED
        BY <4>3, <4>4
    <3> QED
      BY <3>1 DEF StagedChains
  <2> QED
    BY <1>0, <1>4, <2>1, <2>4, <2>5, <2>6 DEF BooksInv, Ledger!Next
<1> QED
  BY <1>5, <1>6

LEMMA AdjNextBooks ==
    ASSUME ConversationRequests = {}, BooksInv, AdjNext, UNCHANGED ordVars
    PROVE  BooksInv' /\ (Ledger!Next \/ UNCHANGED Ledger!vars)
<1>1. OrdInv' /\ InvTypeOK
  BY AdjLeavesOrders DEF BooksInv, OrdInv
<1>2. LockDiscipline' /\ HistoryInv' /\ CurrentInv'
  BY <1>1, AdjNextLock, AdjNextHistory, AdjNextCurrent DEF BooksInv
<1>3. Ledger!Next \/ UNCHANGED Ledger!vars
  BY <1>1, AdjNextLedger DEF BooksInv, CurrentInv
<1> QED
  BY <1>1, <1>2, <1>3, AdjLeavesStaged DEF BooksInv

LEMMA BooksStutter ==
    ASSUME BooksInv, UNCHANGED <<invVars, ord>>, OrdInv'
    PROVE  BooksInv' /\ UNCHANGED Ledger!vars
BY DEF BooksInv, LockDiscipline, HistoryInv, LastMovementIsQuantity, CurrentInv,
       LockedCopyIsCurrent, StagedChains, invVars, stockVars, Ledger!vars

(* Orders and adjustments together implement the atomic ledger: the stock  *)
(* changes of a confirmation or a cancellation, staged line by line while  *)
(* others run, are posted in one go and explain the new quantities.        *)
THEOREM OrdersImplementLedger == ConversationRequests = {} => (OrdersSpec => LedgerSpec)
<1> SUFFICES ASSUME ConversationRequests = {}
             PROVE  OrdersSpec => LedgerSpec
  OBVIOUS
<1>1. OrdersInit => Ledger!Init
  BY InitLedger DEF OrdersInit
<1>2. BooksInv /\ [OrdersNext]_ordersVars => BooksInv' /\ [Ledger!Next]_(Ledger!vars)
  <2> SUFFICES ASSUME BooksInv, [OrdersNext]_ordersVars
               PROVE  BooksInv' /\ (Ledger!Next \/ UNCHANGED Ledger!vars)
    OBVIOUS
  <2>1. CASE UNCHANGED ordersVars
    <3>1. OrdInv' /\ UNCHANGED <<invVars, ord>>
      BY <2>1, OrdStutters DEF BooksInv, ordersVars, ordVars
    <3> QED
      BY <3>1, BooksStutter
  <2> QED
    BY <2>1, OrdNextBooks, AdjNextBooks DEF OrdersNext
<1> QED
  BY <1>1, <1>2, InitBooks, PTL DEF OrdersSpec, LedgerSpec, Ledger!Spec

LEMMA PaymentsMoveNoStock == PayNext => UNCHANGED <<invVars, ord>>
BY DEF PayNext, BeginPayment, ContinuePayment, CrashPayment, BeginInitiate, BeginVerify,
       CheckNoSuccess, LookUpKey, GatewayRefusesCreate, InsertPayment, LockPayment,
       CheckOrder, GatewayFails, GatewayPending, GatewayRejects, GatewayConfirms,
       FlushSuccess, CommitSuccess, PublishPayment, ordersVars, ordVars

(* ... and so do all three modules: payments move no stock.                *)
THEOREM ShopImplementsLedger == ConversationRequests = {} => (Spec => LedgerSpec)
<1> SUFFICES ASSUME ConversationRequests = {}
             PROVE  Spec => LedgerSpec
  OBVIOUS
<1>1. Init => Ledger!Init /\ BooksInv
  BY InitLedger, InitBooks DEF Init, OrdersInit
<1>2. ShopInv /\ BooksInv /\ [Next]_vars => BooksInv' /\ [Ledger!Next]_(Ledger!vars)
  <2> SUFFICES ASSUME ShopInv, BooksInv, [Next]_vars
               PROVE  BooksInv' /\ (Ledger!Next \/ UNCHANGED Ledger!vars)
    OBVIOUS
  <2>1. OrdInv'
    BY ShopStepKeeps DEF ShopInv
  <2>2. CASE UNCHANGED <<invVars, ord>>
    BY <2>1, <2>2, BooksStutter
  <2>3. PayNext => UNCHANGED <<invVars, ord>>
    BY PaymentsMoveNoStock
  <2>4. UNCHANGED vars => UNCHANGED <<invVars, ord>>
    BY DEF vars, ordersVars, ordVars
  <2> QED
    BY <2>2, <2>3, <2>4, OrdNextBooks, AdjNextBooks DEF Next
<1> QED
  BY <1>1, <1>2, ShopCorrect, PTL DEF Spec, LedgerSpec, Ledger!Spec

-----------------------------------------------------------------------------
(* What an order moves.                                                    *)

(* What line i of o asks for, and what the first n lines ask for together. *)
Share(o, p, i) == IF Lines[o][i].product = p THEN Lines[o][i].quantity ELSE 0

AddsUp(o, p, f, n) ==
    /\ f[0] = 0
    /\ \A i \in 1 .. n : f[i] = f[i - 1] + Share(o, p, i)

LEMMA ShareType ==
    ASSUME NEW o \in OrderIds, NEW p \in Products, NEW i \in 1 .. Len(Lines[o])
    PROVE  Share(o, p, i) \in Int
<1>1. Lines[o] \in Seq(Line)
  BY OrdersAssumption
<1>2. Lines[o][i] \in Line
  BY <1>1
<1> QED
  BY <1>2 DEF Share, Line

(* There is such a sum, by induction on the number of lines.               *)
LEMMA UnitsExist ==
    ASSUME NEW o \in OrderIds, NEW p \in Products
    PROVE  \A n \in 0 .. Len(Lines[o]) : \E f \in [0 .. n -> Int] : AddsUp(o, p, f, n)
<1> DEFINE S == {n \in Nat : n <= Len(Lines[o]) => \E f \in [0 .. n -> Int] : AddsUp(o, p, f, n)}
<1>0. Len(Lines[o]) \in Nat
  BY OrdersAssumption
<1>1. 0 \in S
  <2> DEFINE f == [i \in 0 .. 0 |-> 0]
  <2>1. f \in [0 .. 0 -> Int] /\ AddsUp(o, p, f, 0)
    BY DEF AddsUp
  <2> QED
    BY <2>1
<1>2. ASSUME NEW n \in Nat, n \in S
      PROVE  n + 1 \in S
  <2>1. CASE n + 1 <= Len(Lines[o])
    <3>1. PICK f \in [0 .. n -> Int] : AddsUp(o, p, f, n)
      BY <1>0, <1>2, <2>1
    <3>2. Share(o, p, n + 1) \in Int
      BY <1>0, <2>1, ShareType
    <3> DEFINE g == [i \in 0 .. n + 1 |-> IF i <= n THEN f[i] ELSE f[n] + Share(o, p, n + 1)]
    <3>3. g \in [0 .. n + 1 -> Int]
      BY <3>1, <3>2
    <3>4. AddsUp(o, p, g, n + 1)
      <4>1. g[0] = 0
        BY <3>1 DEF AddsUp
      <4>2. ASSUME NEW i \in 1 .. n + 1
            PROVE  g[i] = g[i - 1] + Share(o, p, i)
        <5>1. CASE i <= n
          BY <3>1, <5>1 DEF AddsUp
        <5>2. CASE i = n + 1
          BY <3>2, <5>2
        <5> QED
          BY <5>1, <5>2
      <4> HIDE DEF g
      <4> QED
        BY <4>1, <4>2 DEF AddsUp
    <3> HIDE DEF g
    <3> QED
      BY <3>3, <3>4
  <2>2. CASE ~(n + 1 <= Len(Lines[o]))
    BY <2>2
  <2> QED
    BY <2>1, <2>2
<1> HIDE DEF S
<1>3. Nat \subseteq S
  BY <1>1, <1>2, SetInduction
<1> QED
  BY <1>0, <1>3 DEF S

(* The sum that Demand goes by.                                            *)
Units(o, p) ==
    LET units[i \in 0 .. Len(Lines[o])] ==
          IF i = 0 THEN 0
          ELSE units[i - 1] +
               (IF Lines[o][i].product = p THEN Lines[o][i].quantity ELSE 0)
    IN  units

LEMMA UnitsAddUp ==
    ASSUME NEW o \in OrderIds, NEW p \in Products
    PROVE  /\ AddsUp(o, p, Units(o, p), Len(Lines[o]))
           /\ Units(o, p) \in [0 .. Len(Lines[o]) -> Int]
           /\ Demand(o, p) = Units(o, p)[Len(Lines[o])]
<1> DEFINE N == Len(Lines[o])
           Fits(f) == f = [i \in 0 .. N |->
                             IF i = 0 THEN 0
                             ELSE f[i - 1] +
                                  (IF Lines[o][i].product = p THEN Lines[o][i].quantity ELSE 0)]
<1>0. N \in Nat
  BY OrdersAssumption
<1>1. PICK f \in [0 .. N -> Int] : AddsUp(o, p, f, N)
  BY <1>0, UnitsExist
<1>2. Fits(f)
  BY <1>0, <1>1 DEF AddsUp, Share
<1>3. Units(o, p) = CHOOSE g : Fits(g)
  BY DEF Units
<1>4. Fits(Units(o, p))
  BY <1>2, <1>3
<1>5. AddsUp(o, p, Units(o, p), N)
  BY <1>0, <1>4 DEF AddsUp, Share
<1>6. Demand(o, p) = Units(o, p)[N]
  BY DEF Demand, Units
<1> DEFINE S == {n \in Nat : n <= N => Units(o, p)[n] \in Int}
<1>7. Nat \subseteq S
  <2>1. 0 \in S
    BY <1>5 DEF AddsUp
  <2>2. ASSUME NEW n \in Nat, n \in S
        PROVE  n + 1 \in S
    <3>1. CASE n + 1 <= N
      BY <1>0, <1>5, <2>2, <3>1, ShareType DEF AddsUp
    <3> QED
      BY <3>1
  <2> HIDE DEF S
  <2> QED
    BY <2>1, <2>2, SetInduction
<1>8. Units(o, p) = [i \in 0 .. N |-> Units(o, p)[i]]
  BY <1>4
<1> QED
  BY <1>0, <1>5, <1>6, <1>7, <1>8

(* What a transaction has staged moves the row by what the lines so far    *)
(* ask for; a transition that touches stock is committed after its last.   *)
StagedAsAsked ==
    \A r \in OrderRequests :
        ord[r].pc \in {"stage", "commit"} =>
            /\ ord[r].line \in 1 .. Len(Lines[ord[r].order]) + 1
            /\ ord[r].pc = "commit" =>
                 ord[r].rule.effect = 0 \/ ord[r].line = Len(Lines[ord[r].order]) + 1
            /\ \A p \in Products :
                 Ledger!After(quantity[p], ord[r].staged[p]) =
                   quantity[p] + ord[r].rule.effect * Units(ord[r].order, p)[ord[r].line - 1]

MovesInv == OrdInv /\ LockDiscipline /\ StagedAsAsked

LEMMA InitMoves == OrdersInit => MovesInv
<1> SUFFICES ASSUME OrdersInit
             PROVE  MovesInv
  OBVIOUS
<1>1. LockDiscipline
  BY InitLock DEF OrdersInit
<1>2. StagedAsAsked
  BY DEF OrdersInit, OrdInit, StagedAsAsked
<1> QED
  BY <1>1, <1>2, InitOrders DEF MovesInv

(* Stock that somebody else moves is not what r has staged.                *)
LEMMA OthersAsAsked ==
    ASSUME MovesInv, NEW s \in OrderRequests, ord'[s] = ord[s],
           ord[s].pc \in {"stage", "commit"}, NEW p \in Products,
           quantity'[p] \in Int,
           ord[s].staged[p] # <<>> => quantity'[p] = quantity[p]
    PROVE  Ledger!After(quantity'[p], ord'[s].staged[p]) =
             quantity'[p] + ord'[s].rule.effect * Units(ord'[s].order, p)[ord'[s].line - 1]
<1> DEFINE k == ord[s].rule.effect * Units(ord[s].order, p)[ord[s].line - 1]
<1>1. Ledger!After(quantity[p], ord[s].staged[p]) = quantity[p] + k
  BY DEF MovesInv, StagedAsAsked
<1>2. CASE ord[s].staged[p] = <<>>
  <2>1. quantity[p] = quantity[p] + k
    BY <1>1, <1>2 DEF Ledger!After
  <2>2. k \in Int
    <3>1. /\ ord[s].order \in OrderIds
          /\ ord[s].line \in 1 .. Len(Lines[ord[s].order]) + 1
          /\ ord[s].rule.effect \in {-1, 0, 1}
      BY RuleTypes DEF MovesInv, OrdInv, OrderAtHand, StagedAsAsked, OrdTypeOK, OrdState
    <3>2. ord[s].line - 1 \in 0 .. Len(Lines[ord[s].order])
      BY <3>1, OrdersAssumption
    <3>3. Units(ord[s].order, p)[ord[s].line - 1] \in Int
      BY <3>1, <3>2, UnitsAddUp
    <3> QED
      BY <3>1, <3>3
  <2>3. quantity[p] \in Int
    BY StagedType DEF MovesInv
  <2> HIDE DEF k
  <2>4. k = 0
    BY <2>1, <2>2, <2>3
  <2>5. Ledger!After(quantity'[p], ord[s].staged[p]) = quantity'[p]
    BY <1>2 DEF Ledger!After
  <2>6. Ledger!After(quantity'[p], ord[s].staged[p]) = quantity'[p] + k
    BY <2>4, <2>5
  <2> QED
    BY <2>6 DEF k
<1>3. CASE ord[s].staged[p] # <<>>
  BY <1>1, <1>3
<1> QED
  BY <1>2, <1>3

(* What r stages is what its next line asks for.                           *)
LEMMA StageAsAsked ==
    ASSUME MovesInv, NEW r \in OrderRequests, StageLine(r)
    PROVE  /\ ord'[r].line \in 1 .. Len(Lines[ord'[r].order]) + 1
           /\ ord'[r].pc = "commit" => ord'[r].line = Len(Lines[ord'[r].order]) + 1
           /\ \A p \in Products :
                Ledger!After(quantity[p], ord'[r].staged[p]) =
                  quantity[p] + ord'[r].rule.effect * Units(ord'[r].order, p)[ord'[r].line - 1]
<1> DEFINE o == ord[r].order
           i == ord[r].line
           x == NextLine(r).product
           new == OwnQuantity(r, x) + LineDelta(r)
           e == [delta |-> LineDelta(r), resulting |-> new]
           effect == ord[r].rule.effect
<1>0. ord[r] \in OrdState /\ ord \in [OrderRequests -> OrdState] /\ ord[r].pc = "stage"
  BY DEF MovesInv, OrdInv, OrdTypeOK, StageLine
<1>1. /\ o \in OrderIds /\ i \in 1 .. Len(Lines[o]) /\ Len(Lines[o]) \in Nat
      /\ effect \in {-1, 0, 1}
  BY <1>0, OrdersAssumption, RuleTypes DEF MovesInv, OrdInv, OrderAtHand, OrdState
<1>2. /\ ord'[r].order = o /\ ord'[r].line = i + 1 /\ ord'[r].rule = ord[r].rule
      /\ ord'[r].pc = IF i < Len(Lines[o]) THEN "stage" ELSE "commit"
      /\ ord'[r].staged = [ord[r].staged EXCEPT ![x] = Append(@, e)]
  BY <1>0 DEF StageLine, OrdState
<1>3. ASSUME NEW p \in Products
      PROVE  Ledger!After(quantity[p], ord'[r].staged[p]) =
               quantity[p] + effect * Units(o, p)[i]
  <2> DEFINE before == Units(o, p)[i - 1]
  <2>1. /\ Units(o, p)[i] = before + Share(o, p, i)
        /\ before \in Int /\ Share(o, p, i) \in Int
    <3>1. i - 1 \in 0 .. Len(Lines[o])
      BY <1>1
    <3> QED
      BY <1>1, <3>1, UnitsAddUp, ShareType DEF AddsUp
  <2>2. Ledger!After(quantity[p], ord[r].staged[p]) = quantity[p] + effect * before
    BY <1>0 DEF MovesInv, StagedAsAsked
  <2>3. quantity[p] \in Int
    BY StagedType DEF MovesInv
  <2>4. CASE p # x
    <3>1. ord'[r].staged[p] = ord[r].staged[p]
      BY <1>0, <1>2, <2>4 DEF OrdState
    <3>2. Share(o, p, i) = 0
      BY <2>4 DEF Share, NextLine
    <3> HIDE DEF before, o, i, effect
    <3> QED
      BY <2>1, <2>2, <3>1, <3>2
  <2>5. CASE p = x
    <3>1. ord'[r].staged[p] = Append(ord[r].staged[p], e)
      BY <1>0, <1>2, <2>5 DEF OrdState
    <3>2. ord[r].staged[p] \in Seq(Ledger!Movement)
      BY StagedType DEF MovesInv
    <3>3. Ledger!After(quantity[p], Append(ord[r].staged[p], e)) = e.resulting
      <4> HIDE DEF e
      <4> QED
        BY <3>2 DEF Ledger!After
    <3>4. e.resulting = quantity[p] + effect * before + effect * Share(o, p, i)
      BY <2>2, <2>5 DEF OwnQuantity, LineDelta, NextLine, Share
    <3> HIDE DEF before, o, i, effect, e
    <3>5. effect * Units(o, p)[i] = effect * before + effect * Share(o, p, i)
      BY <1>1, <2>1
    <3>6. effect * before \in Int /\ effect * Share(o, p, i) \in Int
      BY <1>1, <2>1
    <3> QED
      BY <2>3, <3>1, <3>3, <3>4, <3>5, <3>6
  <2> QED
    BY <2>4, <2>5
<1>4. ord'[r].line - 1 = i
  BY <1>1, <1>2
<1> QED
  BY <1>1, <1>2, <1>3, <1>4

(* A transition that has just been read has staged nothing, and the one    *)
(* that stages nothing has no effect on stock.                             *)
LEMMA ReadAsAsked ==
    ASSUME MovesInv, NEW r \in OrderRequests, NEW o \in OrderIds, NEW event \in ClientEvent,
           ReadOrder(r, o, event)
    PROVE  /\ ord'[r].line \in 1 .. Len(Lines[ord'[r].order]) + 1
           /\ ord'[r].pc = "commit" => ord'[r].rule.effect = 0
           /\ \A p \in Products :
                Ledger!After(quantity[p], ord'[r].staged[p]) =
                  quantity[p] + ord'[r].rule.effect * Units(ord'[r].order, p)[ord'[r].line - 1]
<1>1. PICK rule \in TRANSITIONS :
        ord' = [ord EXCEPT ![r] =
          [@ EXCEPT !.pc = IF rule.effect = 0 THEN "commit" ELSE "stage",
                    !.order = o, !.rule = rule]]
  BY DEF ReadOrder
<1>2. /\ ord[r] \in OrdState /\ ord \in [OrderRequests -> OrdState]
      /\ ord[r].staged = NothingStaged /\ ord[r].line = 1
  BY DEF MovesInv, OrdInv, OrdTypeOK, OrderAtHand, ReadOrder
<1>3. /\ ord'[r].order = o /\ ord'[r].rule = rule
      /\ ord'[r].line = 1 /\ ord'[r].staged = NothingStaged
      /\ ord'[r].pc = "commit" => rule.effect = 0
  BY <1>1, <1>2 DEF OrdState
<1>4. 1 \in 1 .. Len(Lines[o]) + 1
  BY OrdersAssumption
<1>5. ASSUME NEW p \in Products
      PROVE  Ledger!After(quantity[p], NothingStaged[p]) =
               quantity[p] + rule.effect * Units(o, p)[0]
  <2>1. Units(o, p)[0] = 0
    BY UnitsAddUp DEF AddsUp
  <2>2. rule.effect \in Int /\ quantity[p] \in Int
    BY RuleTypes, StagedType DEF MovesInv
  <2> QED
    BY <2>1, <2>2 DEF Ledger!After, NothingStaged
<1> QED
  BY <1>3, <1>4, <1>5

(* A step of r, and what it moves.                                         *)
LEMMA OrdNextMoves ==
    ASSUME MovesInv, NEW r \in OrderRequests,
           BeginOrder(r) \/ ContinueOrder(r) \/ CrashOrder(r)
    PROVE  /\ MovesInv'
           /\ \A p \in Products :
                quantity'[p] - quantity[p] =
                  IF ord[r].pc = "commit" /\ ord'[r].pc = "publish"
                  THEN ord[r].rule.effect * Demand(ord[r].order, p)
                  ELSE 0
<1>0. /\ OrdInv' /\ LockDiscipline'
      /\ ord[r] \in OrdState /\ ord \in [OrderRequests -> OrdState]
      /\ \A p \in Products : quantity[p] \in Int /\ quantity'[p] \in Int
  <2>1. OrdNext
    BY DEF OrdNext
  <2>2. OrdInv' /\ LockDiscipline'
    BY <2>1, OrdNextKeeps, OrdersKeepDiscipline DEF MovesInv
  <2> QED
    BY <2>2 DEF MovesInv, OrdInv, OrdTypeOK, InvTypeOK, StockTypeOK, Quantity
<1>1. /\ ~CommitTransition(r) => UNCHANGED quantity
      /\ \A s \in OrderRequests \ {r} : ord'[s] = ord[s]
  BY OrderStepShares DEF MovesInv
<1>2. ASSUME NEW s \in OrderRequests, s # r, ord'[s].pc \in {"stage", "commit"},
             NEW p \in Products
      PROVE  Ledger!After(quantity'[p], ord'[s].staged[p]) =
               quantity'[p] + ord'[s].rule.effect * Units(ord'[s].order, p)[ord'[s].line - 1]
  BY <1>0, <1>1, <1>2, OthersAsAsked, OrdersLeaveTouched DEF MovesInv
<1>3. ASSUME ord'[r].pc \in {"stage", "commit"} =>
               /\ ord'[r].line \in 1 .. Len(Lines[ord'[r].order]) + 1
               /\ ord'[r].pc = "commit" =>
                    ord'[r].rule.effect = 0 \/ ord'[r].line = Len(Lines[ord'[r].order]) + 1
               /\ \A p \in Products :
                    Ledger!After(quantity'[p], ord'[r].staged[p]) =
                      quantity'[p] +
                      ord'[r].rule.effect * Units(ord'[r].order, p)[ord'[r].line - 1]
      PROVE  MovesInv'
  <2>1. StagedAsAsked'
    BY <1>1, <1>2, <1>3 DEF MovesInv, StagedAsAsked
  <2> QED
    BY <1>0, <2>1 DEF MovesInv
<1>4. CASE CommitTransition(r)
  <2>1. /\ ord[r].pc = "commit" /\ ord'[r].pc = "publish"
        /\ \A p \in Products : quantity'[p] = OwnQuantity(r, p)
    BY <1>0, <1>4 DEF CommitTransition, OrdState
  <2>2. ASSUME NEW p \in Products
        PROVE  quantity'[p] - quantity[p] = ord[r].rule.effect * Demand(ord[r].order, p)
    <3> DEFINE o == ord[r].order
               effect == ord[r].rule.effect
               i == ord[r].line
    <3>1. /\ o \in OrderIds /\ i \in 1 .. Len(Lines[o]) + 1 /\ Len(Lines[o]) \in Nat
          /\ effect \in {-1, 0, 1}
          /\ effect = 0 \/ i = Len(Lines[o]) + 1
      BY <1>0, <2>1, OrdersAssumption, RuleTypes
         DEF MovesInv, OrdInv, OrderAtHand, StagedAsAsked, OrdState
    <3>2. quantity'[p] = quantity[p] + effect * Units(o, p)[i - 1]
      BY <2>1 DEF OwnQuantity, MovesInv, StagedAsAsked
    <3>3. /\ Demand(o, p) = Units(o, p)[Len(Lines[o])]
          /\ Units(o, p)[i - 1] \in Int /\ Demand(o, p) \in Int
      <4>1. i - 1 \in 0 .. Len(Lines[o]) /\ Len(Lines[o]) \in 0 .. Len(Lines[o])
        BY <3>1
      <4> QED
        BY <3>1, <4>1, UnitsAddUp
    <3> HIDE DEF o, effect, i
    <3>4. effect * Units(o, p)[i - 1] = effect * Demand(o, p)
      BY <3>1, <3>3
    <3>5. effect * Demand(o, p) \in Int
      BY <3>1, <3>3
    <3>6. quantity'[p] - quantity[p] = effect * Demand(o, p)
      BY <1>0, <3>2, <3>4, <3>5
    <3> QED
      BY <3>6 DEF o, effect
  <2> QED
    BY <1>3, <2>1, <2>2
<1>5. ASSUME ~CommitTransition(r), MovesInv'
      PROVE  /\ MovesInv'
             /\ \A p \in Products : quantity'[p] - quantity[p] =
                  IF ord[r].pc = "commit" /\ ord'[r].pc = "publish"
                  THEN ord[r].rule.effect * Demand(ord[r].order, p)
                  ELSE 0
  <2>1. ~(ord[r].pc = "commit" /\ ord'[r].pc = "publish")
    BY <1>0, <1>5 DEF BeginOrder, CreateOrder, ReadOrder, RefuseTransition, ContinueOrder,
                      StageLine, RefuseLine, AbortDeadlock, Deadlocked, WaitsFor,
                      PublishOrder, CrashOrder, OrdState
  <2> QED
    BY <1>0, <1>1, <1>5, <2>1
<1>6. CASE StageLine(r)
  <2>1. ~CommitTransition(r)
    BY <1>6 DEF StageLine, CommitTransition
  <2>2. MovesInv'
    BY <1>1, <1>3, <1>6, <2>1, StageAsAsked
  <2> QED
    BY <1>5, <2>1, <2>2
<1>7. CASE BeginOrder(r)
  <2>1. ~CommitTransition(r)
    BY <1>7 DEF BeginOrder, CreateOrder, ReadOrder, RefuseTransition, CommitTransition
  <2>2. PICK o \in OrderIds : \/ CreateOrder(r, o)
                             \/ \E event \in ClientEvent : ReadOrder(r, o, event)
                             \/ \E e \in ClientEvent : RefuseTransition(r, o, e)
    BY <1>7 DEF BeginOrder
  <2>3. CASE CreateOrder(r, o) \/ \E event \in ClientEvent : RefuseTransition(r, o, event)
    <3>1. ord'[r].pc \in {"publish", "failed"}
      BY <1>0, <2>3 DEF CreateOrder, RefuseTransition, OrdState
    <3> QED
      BY <1>3, <1>5, <2>1, <3>1
  <2>4. CASE \E event \in ClientEvent : ReadOrder(r, o, event)
    <3>1. MovesInv'
      BY <1>1, <1>3, <2>1, <2>4, ReadAsAsked
    <3> QED
      BY <1>5, <2>1, <3>1
  <2> QED
    BY <2>2, <2>3, <2>4
<1>8. CASE RefuseLine(r) \/ AbortDeadlock(r) \/ PublishOrder(r) \/ CrashOrder(r)
  <2>1. ord'[r].pc \in {"failed", "done", "crashed"}
    BY <1>0, <1>8 DEF RefuseLine, AbortDeadlock, PublishOrder, CrashOrder, OrdState
  <2>2. ~CommitTransition(r)
    BY <1>0, <2>1 DEF CommitTransition, OrdState
  <2> QED
    BY <1>3, <1>5, <2>1, <2>2
<1> QED
  BY <1>4, <1>6, <1>7, <1>8 DEF ContinueOrder

LEMMA MovesStutter ==
    ASSUME MovesInv, UNCHANGED <<invVars, ord>>, OrdInv'
    PROVE  MovesInv'
BY DEF MovesInv, LockDiscipline, StagedAsAsked, invVars, stockVars

LEMMA OrdersNextMoves ==
    ASSUME MovesInv, [OrdersNext]_ordersVars
    PROVE  /\ MovesInv'
           /\ \A r \in OrderRequests : ord'[r] # ord[r] =>
                \A p \in Products :
                  quantity'[p] - quantity[p] =
                    IF ord[r].pc = "commit" /\ ord'[r].pc = "publish"
                    THEN ord[r].rule.effect * Demand(ord[r].order, p)
                    ELSE 0
<1>1. CASE OrdNext
  <2>1. PICK r \in OrderRequests : BeginOrder(r) \/ ContinueOrder(r) \/ CrashOrder(r)
    BY <1>1 DEF OrdNext
  <2>2. \A s \in OrderRequests \ {r} : ord'[s] = ord[s]
    BY <2>1, OrderStepShares DEF MovesInv
  <2> QED
    BY <2>1, <2>2, OrdNextMoves
<1>2. CASE AdjNext /\ UNCHANGED ordVars
  <2>1. OrdInv' /\ LockDiscipline' /\ ord' = ord
    BY <1>2, AdjLeavesOrders, AdjNextLock DEF MovesInv, OrdInv, ordVars
  <2>2. \A p \in Products : quantity'[p] \in Int
    BY <2>1 DEF OrdInv, InvTypeOK, StockTypeOK, Quantity
  <2>3. ASSUME NEW s \in OrderRequests, ord[s].pc \in {"stage", "commit"}, NEW p \in Products
        PROVE  Ledger!After(quantity'[p], ord'[s].staged[p]) =
                 quantity'[p] + ord'[s].rule.effect * Units(ord'[s].order, p)[ord'[s].line - 1]
    BY <1>2, <2>1, <2>2, <2>3, AdjLeavesTouched, OthersAsAsked DEF MovesInv
  <2>4. StagedAsAsked'
    BY <2>1, <2>3 DEF MovesInv, StagedAsAsked
  <2> QED
    BY <2>1, <2>4 DEF MovesInv
<1>3. CASE UNCHANGED ordersVars
  <2>1. OrdInv'
    BY <1>3, OrdStutters DEF MovesInv
  <2>2. MovesInv' /\ ord' = ord
    BY <1>3, <2>1, MovesStutter DEF ordersVars, ordVars
  <2> QED
    BY <2>2
<1> QED
  BY <1>1, <1>2, <1>3 DEF OrdersNext

(* The steps WholeOrderMoves is about.                                     *)
WholeStep ==
    \A r \in OrderRequests :
       ord'[r] # ord[r] =>
          LET commits == ord[r].pc = "commit" /\ ord'[r].pc = "publish" IN
          \A p \in Products :
              quantity'[p] - quantity[p] =
                  IF commits
                  THEN ord[r].rule.effect * Demand(ord[r].order, p)
                  ELSE 0

LEMMA NextMovesWhole ==
    MovesInv /\ [OrdersNext]_ordersVars => MovesInv' /\ [WholeStep]_ordersVars
BY OrdersNextMoves DEF WholeStep

(* All or nothing: the commit of a confirmation or a cancellation moves    *)
(* every product by what all lines of the order ask for, however many      *)
(* lines name it, and no other step of an order's request moves stock.     *)
THEOREM OrdersMoveWhole == OrdersSpec => WholeOrderMoves
BY InitMoves, NextMovesWhole, PTL DEF OrdersSpec, WholeOrderMoves, WholeStep

(* ... also with payments beside it.                                       *)
THEOREM ShopMovesWhole == Spec => WholeOrderMoves
<1>1. Init => MovesInv
  BY InitMoves DEF Init
<1>2. ShopInv /\ MovesInv /\ [Next]_vars => MovesInv' /\ [WholeStep]_ordersVars
  <2> SUFFICES ASSUME ShopInv, MovesInv, [Next]_vars
               PROVE  MovesInv' /\ [WholeStep]_ordersVars
    OBVIOUS
  <2>1. OrdInv'
    BY ShopStepKeeps DEF ShopInv
  <2>2. CASE UNCHANGED <<invVars, ord>>
    <3>1. WholeStep
      BY <2>2 DEF WholeStep
    <3> QED
      BY <2>1, <2>2, <3>1, MovesStutter
  <2>3. UNCHANGED vars => UNCHANGED <<invVars, ord>>
    BY DEF vars, ordersVars, ordVars
  <2>4. CASE OrdNext
    BY <2>4, NextMovesWhole DEF OrdersNext
  <2>5. CASE AdjNext /\ UNCHANGED ordVars
    BY <2>5, NextMovesWhole DEF OrdersNext
  <2> QED
    BY <2>2, <2>3, <2>4, <2>5, PaymentsMoveNoStock DEF Next
<1> QED
  BY <1>1, <1>2, ShopCorrect, PTL DEF Spec, WholeOrderMoves, WholeStep

-----------------------------------------------------------------------------
(* The lifecycle.                                                          *)

(* While transitions overlap no other request about their order, the       *)
(* status a transition has found is still the order's when it writes, and  *)
(* an order that a payment has found CONFIRMED can only have been paid for *)
(* by another payment meanwhile.                                           *)
StatusAtHand ==
    /\ \A r \in OrderRequests :
         ord[r].pc \in {"stage", "commit"} =>
            /\ ord[r].rule \in TRANSITIONS
            /\ ord[r].rule.event # "PAY"
            /\ status[ord[r].order] = ord[r].rule.from
    /\ \A r \in PaymentRequests :
         preq[r].pc \in {"gateway", "flush", "commit"} =>
            status[preq[r].order] \in {"CONFIRMED", "PAID"}

LEMMA InitAtHand == Init => StatusAtHand
BY DEF Init, OrdersInit, OrdInit, PayInit, StatusAtHand

LEMMA RulesHaveOrders ==
    ASSUME NEW rule \in TRANSITIONS
    PROVE  rule.from # "NONE"
BY DEF TRANSITIONS, Rule

(* While an order request is inside its transaction, whoever else is in    *)
(* one is about another order; a payment keeps the transitions away.       *)
LEMMA OthersElsewhere ==
    ASSUME TransitionsAlone, ShopInv, NEW o \in OrderIds,
           NEW r \in OrderRequests \cup PaymentRequests,
           \/ /\ r \in OrderRequests
              /\ ord[r].pc \in {"stage", "commit"} /\ ord[r].order = o
           \/ /\ r \in PaymentRequests
              /\ preq[r].pc \in {"gateway", "flush", "commit"} /\ preq[r].order = o
    PROVE  /\ \A s \in OrderRequests \ {r} :
                ord[s].pc \in {"stage", "commit"} => ord[s].order # o
           /\ r \in OrderRequests =>
                \A s \in PaymentRequests \ {r} :
                   preq[s].pc \in {"gateway", "flush", "commit"} => preq[s].order # o
<1>1. r \in AboutOrder(o)
  BY DEF AboutOrder
<1>2. \A s \in AboutOrder(o) : s \in OrderRequests \/ r \in OrderRequests => s = r
  BY <1>1 DEF TransitionsAlone
<1> QED
  BY <1>2 DEF AboutOrder

LEMMA KindsApart == OrderRequests \cap PaymentRequests = {}
BY OrdersAssumption, PaymentsAssumption DEF Requests

(* A step of r that writes the status of one order, which no transition    *)
(* has at hand, and a payment only if it is the status after a payment.    *)
LEMMA WriteAtHand ==
    ASSUME ShopInv, StatusAtHand, NEW o \in OrderIds, NEW v \in OrderStatus,
           status' = [status EXCEPT ![o] = v],
           \A s \in OrderRequests : ord'[s].pc \in {"stage", "commit"} =>
              ord'[s] = ord[s] /\ ord[s].order # o,
           \A s \in PaymentRequests : preq'[s].pc \in {"gateway", "flush", "commit"} =>
              preq'[s] = preq[s] /\ (preq[s].order # o \/ v = "PAID")
    PROVE  StatusAtHand'
<1>1. status'[o] = v /\ \A x : x # o => status'[x] = status[x]
  <2>1. status \in [OrderIds -> OrderStatus]
    BY DEF ShopInv, OrdInv, OrdTypeOK
  <2> QED
    BY <2>1
<1> QED
  BY <1>1 DEF StatusAtHand

(* ... and one that writes none.                                           *)
LEMMA LookAtHand ==
    ASSUME StatusAtHand, status' = status,
           \A s \in OrderRequests : ord'[s].pc \in {"stage", "commit"} =>
              \/ /\ ord[s].pc \in {"stage", "commit"}
                 /\ ord'[s].rule = ord[s].rule /\ ord'[s].order = ord[s].order
              \/ /\ ord'[s].rule \in TRANSITIONS /\ ord'[s].rule.event # "PAY"
                 /\ status[ord'[s].order] = ord'[s].rule.from,
           \A s \in PaymentRequests : preq'[s].pc \in {"gateway", "flush", "commit"} =>
              \/ preq[s].pc \in {"gateway", "flush"} /\ preq'[s].order = preq[s].order
              \/ preq'[s] = preq[s]
              \/ status[preq'[s].order] = "CONFIRMED"
    PROVE  StatusAtHand'
BY DEF StatusAtHand

(* The commit of a transition is the step of the lifecycle its rule names. *)
LEMMA CommitIsMove ==
    ASSUME ShopInv, StatusAtHand, NEW r \in OrderRequests, CommitTransition(r),
           PaidFor' = PaidFor
    PROVE  Life!Next
<1>p. PICK o, rule : o = ord[r].order /\ rule = ord[r].rule
  OBVIOUS
<1>1. /\ o \in OrderIds /\ rule \in TRANSITIONS /\ rule.event # "PAY"
      /\ status[o] = rule.from
      /\ status' = [status EXCEPT ![o] = rule.to]
      /\ taken' = [taken EXCEPT ![o] = @ - rule.effect]
      /\ taken \in [OrderIds -> Int]
  BY <1>p DEF CommitTransition, StatusAtHand, ShopInv, OrdInv, OrderAtHand, OrdTypeOK
<1>2. Life!Move(o, rule.from, rule.to)
  BY <1>1 DEF Life!Move
<1>3. \/ rule = Rule("CREATED", "CONFIRM", "CONFIRMED", -1)
      \/ rule = Rule("CREATED", "CANCEL", "CANCELLED", 0)
      \/ rule = Rule("CONFIRMED", "CANCEL", "CANCELLED", 1)
      \/ rule = Rule("PAID", "PACK", "PACKED", 0)
      \/ rule = Rule("PACKED", "SHIP", "SHIPPED", 0)
      \/ rule = Rule("SHIPPED", "DELIVER", "DELIVERED", 0)
      \/ rule = Rule("DELIVERED", "CLOSE", "COMPLETED", 0)
  BY <1>1 DEF TRANSITIONS, Rule
<1>4. rule.effect = 0 => taken' = taken
  BY <1>1
<1>5. CASE rule = Rule("CREATED", "CONFIRM", "CONFIRMED", -1)
  <2>1. rule.effect = -1 /\ rule.from = "CREATED" /\ rule.to = "CONFIRMED"
    BY <1>5 DEF Rule
  <2>2. taken[o] - rule.effect = taken[o] + 1
    BY <1>1, <2>1
  <2>3. taken' = [taken EXCEPT ![o] = taken[o] + 1]
    BY <1>1, <2>2
  <2> QED
    BY <1>1, <1>2, <2>1, <2>3 DEF Life!Next, Life!Confirm
<1>6. CASE rule = Rule("CONFIRMED", "CANCEL", "CANCELLED", 1)
  BY <1>1, <1>2, <1>6 DEF Life!Next, Life!Cancel, Rule
<1>7. CASE rule = Rule("CREATED", "CANCEL", "CANCELLED", 0)
  BY <1>1, <1>2, <1>4, <1>7 DEF Life!Next, Life!Drop, Rule
<1>8. CASE rule = Rule("PAID", "PACK", "PACKED", 0)
  BY <1>1, <1>2, <1>4, <1>8 DEF Life!Next, Life!Deliver, Rule
<1>9. CASE rule = Rule("PACKED", "SHIP", "SHIPPED", 0)
  BY <1>1, <1>2, <1>4, <1>9 DEF Life!Next, Life!Deliver, Rule
<1>10. CASE rule = Rule("SHIPPED", "DELIVER", "DELIVERED", 0)
  BY <1>1, <1>2, <1>4, <1>10 DEF Life!Next, Life!Deliver, Rule
<1>11. CASE rule = Rule("DELIVERED", "CLOSE", "COMPLETED", 0)
  BY <1>1, <1>2, <1>4, <1>11 DEF Life!Next, Life!Deliver, Rule
<1> QED
  BY <1>3, <1>5, <1>6, <1>7, <1>8, <1>9, <1>10, <1>11

LEMMA OrdNextIsMove ==
    ASSUME ShopInv, StatusAtHand, TransitionsAlone, OrdNext, UNCHANGED payVars
    PROVE  StatusAtHand' /\ (Life!Next \/ UNCHANGED Life!vars)
<1>0. /\ PaidFor' = PaidFor /\ preq' = preq
      /\ status \in [OrderIds -> OrderStatus] /\ ord \in [OrderRequests -> OrdState]
  <2>1. PayInv /\ PayRowsKept
    BY PaymentsUnmoved DEF ShopInv
  <2>2. \A x \in PaymentIds : Succeeded(x)' => Succeeded(x)
    BY DEF payVars, payTables, Succeeded
  <2> QED
    BY <2>1, <2>2, NoNewMoney DEF ShopInv, OrdInv, OrdTypeOK, payVars
<1>1. PICK r \in OrderRequests : BeginOrder(r) \/ ContinueOrder(r) \/ CrashOrder(r)
  BY DEF OrdNext
<1>2. \A s \in OrderRequests \ {r} : ord'[s] = ord[s]
  BY <1>1, OrderStepShares DEF ShopInv
<1>3. ASSUME NEW o \in OrderIds, CreateOrder(r, o)
      PROVE  StatusAtHand' /\ Life!Next
  <2>1. /\ status[o] = "NONE" /\ status' = [status EXCEPT ![o] = "CREATED"]
        /\ taken' = taken /\ ord'[r].pc = "publish"
    BY <1>0, <1>3 DEF CreateOrder, OrdState
  <2>2. /\ \A s \in OrderRequests : ord[s].pc \in {"stage", "commit"} => ord[s].order # o
        /\ \A s \in PaymentRequests :
             preq[s].pc \in {"gateway", "flush", "commit"} => preq[s].order # o
    BY <2>1, RulesHaveOrders DEF StatusAtHand
  <2>4. \A s \in OrderRequests : ord'[s].pc \in {"stage", "commit"} =>
          ord'[s] = ord[s] /\ ord[s].order # o
    BY <1>2, <2>1, <2>2
  <2>5. \A s \in PaymentRequests : preq'[s].pc \in {"gateway", "flush", "commit"} =>
          preq'[s] = preq[s] /\ preq[s].order # o
    BY <1>0, <2>2
  <2>3. StatusAtHand'
    BY <2>1, <2>4, <2>5, WriteAtHand DEF OrderStatus
  <2> QED
    BY <1>0, <2>1, <2>3 DEF Life!Next, Life!Create, Life!Move
<1>4. CASE CommitTransition(r)
  <2>0. /\ ord[r].pc = "commit" /\ ord[r].order \in OrderIds
        /\ status' = [status EXCEPT ![ord[r].order] = ord[r].rule.to]
    BY <1>4 DEF CommitTransition, ShopInv, OrdInv, OrderAtHand
  <2>to. ord[r].rule.to \in OrderStatus
    BY <2>0 DEF StatusAtHand, TRANSITIONS, Rule, OrderStatus, HoldingStates, PaidStates
  <2>1. PICK o \in OrderIds, v \in OrderStatus :
          o = ord[r].order /\ status' = [status EXCEPT ![o] = v]
    BY <2>0, <2>to
  <2>2. ord[r].pc = "commit" /\ ord'[r].pc = "publish"
    BY <1>0, <1>4 DEF CommitTransition, OrdState
  <2>3. /\ \A s \in OrderRequests \ {r} : ord[s].pc \in {"stage", "commit"} => ord[s].order # o
        /\ \A s \in PaymentRequests \ {r} :
             preq[s].pc \in {"gateway", "flush", "commit"} => preq[s].order # o
    BY <2>1, <2>2, OthersElsewhere
  <2>4. \A s \in OrderRequests : ord'[s].pc \in {"stage", "commit"} =>
          ord'[s] = ord[s] /\ ord[s].order # o
    BY <1>2, <2>2, <2>3
  <2>5. \A s \in PaymentRequests : preq'[s].pc \in {"gateway", "flush", "commit"} =>
          preq'[s] = preq[s] /\ (preq[s].order # o \/ v = "PAID")
    BY <1>0, <2>3, KindsApart
  <2>6. StatusAtHand'
    BY <2>1, <2>4, <2>5, WriteAtHand
  <2> QED
    BY <1>0, <1>4, <2>6, CommitIsMove
<1>5. ASSUME status' = status, taken' = taken,
             ord'[r].pc \in {"stage", "commit"} =>
                \/ /\ ord[r].pc \in {"stage", "commit"}
                   /\ ord'[r].rule = ord[r].rule /\ ord'[r].order = ord[r].order
                \/ /\ ord'[r].rule \in TRANSITIONS /\ ord'[r].rule.event # "PAY"
                   /\ status[ord'[r].order] = ord'[r].rule.from
      PROVE  StatusAtHand' /\ UNCHANGED Life!vars
  BY <1>0, <1>2, <1>5, LookAtHand DEF Life!vars
<1>6. ASSUME NEW o \in OrderIds, NEW event \in ClientEvent, ReadOrder(r, o, event)
      PROVE  StatusAtHand' /\ UNCHANGED Life!vars
  <2>1. PICK rule \in TRANSITIONS :
          /\ rule.from = status[o] /\ rule.event = event
          /\ ord' = [ord EXCEPT ![r] =
               [@ EXCEPT !.pc = IF rule.effect = 0 THEN "commit" ELSE "stage",
                         !.order = o, !.rule = rule]]
    BY <1>6 DEF ReadOrder
  <2>2. ord'[r].order = o /\ ord'[r].rule = rule
    BY <1>0, <2>1 DEF OrdState
  <2>3. event # "PAY"
    BY DEF ClientEvent
  <2> QED
    BY <1>5, <1>6, <2>1, <2>2, <2>3 DEF ReadOrder, tableVars
<1>7. ASSUME NEW o \in OrderIds, NEW event \in ClientEvent, RefuseTransition(r, o, event)
      PROVE  StatusAtHand' /\ UNCHANGED Life!vars
  <2>1. ord'[r].pc = "failed"
    BY <1>0, <1>7 DEF RefuseTransition, OrdState
  <2> QED
    BY <1>5, <1>7, <2>1 DEF RefuseTransition, tableVars
<1>8. CASE StageLine(r)
  <2>1. ord[r].pc = "stage" /\ ord'[r].rule = ord[r].rule /\ ord'[r].order = ord[r].order
    BY <1>0, <1>8 DEF StageLine, OrdState
  <2> QED
    BY <1>5, <1>8, <2>1 DEF StageLine, tableVars
<1>9. CASE RefuseLine(r) \/ AbortDeadlock(r) \/ PublishOrder(r) \/ CrashOrder(r)
  <2>1. ord'[r].pc \in {"failed", "done", "crashed"}
    BY <1>0, <1>9 DEF RefuseLine, AbortDeadlock, PublishOrder, CrashOrder, OrdState
  <2> QED
    BY <1>5, <1>9, <2>1 DEF RefuseLine, AbortDeadlock, PublishOrder, CrashOrder, tableVars
<1> QED
  BY <1>1, <1>3, <1>4, <1>6, <1>7, <1>8, <1>9 DEF BeginOrder, ContinueOrder

(* A success that is flushed collides with no committed one, so when it is *)
(* committed nobody has paid for the order.                                *)
LEMMA PaysConfirmed ==
    ASSUME ShopInv, StatusAtHand, NEW r \in PaymentRequests, CommitSuccess(r),
           preq[r].order \in OrderIds
    PROVE  status[preq[r].order] = "CONFIRMED"
<1>1. /\ preq[r].pc = "commit"
      /\ \A y \in PaymentIds : Succeeded(y) => ~Collides(r, y)
      /\ pay[preq[r].payment].status # "SUCCESS"
  BY DEF CommitSuccess, ShopInv, PayInv, PayCallOK, PaymentLockDiscipline, Holding,
         VERIFIABLE_FROM
<1>2. \A y \in PaymentIds : Succeeded(y) => pay[y].order # preq[r].order
  BY <1>1 DEF Collides, Succeeded
<1>3. status[preq[r].order] # "PAID"
  BY <1>2 DEF ShopInv, PaidOrdersHaveMoney, PaidStates
<1> QED
  BY <1>1, <1>3 DEF StatusAtHand

LEMMA PayNextIsMove ==
    ASSUME ShopInv, StatusAtHand, TransitionsAlone, PayNext
    PROVE  StatusAtHand' /\ (Life!Next \/ UNCHANGED Life!vars)
<1>1. PICK r \in PaymentRequests : BeginPayment(r) \/ ContinuePayment(r) \/ CrashPayment(r)
  BY DEF PayNext
<1>0. /\ preq \in [PaymentRequests -> PayState] /\ ord \in [OrderRequests -> OrdState]
      /\ PayInv /\ PayRowsKept
  BY <1>1, PayNextKeeps DEF ShopInv, PayInv, PayTypeOK, OrdInv, OrdTypeOK
<1>2. CASE CommitSuccess(r)
  <2>1. PICK o \in OrderIds : o = preq[r].order /\ Promise!Pay(o)
    BY <1>0, <1>2, CommitIsPay
  <2>2. /\ status' = [status EXCEPT ![o] = "PAID"] /\ PaidFor' = PaidFor \cup {o}
        /\ taken' = taken /\ ord' = ord
    BY <1>2, <2>1 DEF Promise!Pay, CommitSuccess
  <2>8. status[o] = "CONFIRMED"
    BY <1>2, <2>1, PaysConfirmed
  <2>3. /\ preq[r].pc = "commit" /\ preq'[r].pc = "publish"
        /\ \A s \in PaymentRequests \ {r} : preq'[s] = preq[s]
    <3>1. preq[r].pc = "commit" /\ PayGoto(r, "publish")
      BY <1>0, <1>2, CommitSuccessPays DEF CommitSuccess
    <3> QED
      BY <1>0, <3>1 DEF PayGoto, PayState
  <2>4. \A s \in OrderRequests \ {r} : ord[s].pc \in {"stage", "commit"} => ord[s].order # o
    BY <2>1, <2>3, OthersElsewhere
  <2>5. \A s \in OrderRequests : ord'[s].pc \in {"stage", "commit"} =>
          ord'[s] = ord[s] /\ ord[s].order # o
    BY <2>2, <2>4, KindsApart
  <2>6. \A s \in PaymentRequests : preq'[s].pc \in {"gateway", "flush", "commit"} =>
          preq'[s] = preq[s]
    BY <2>3
  <2>7. StatusAtHand'
    BY <2>2, <2>5, <2>6, WriteAtHand DEF OrderStatus, HoldingStates, PaidStates
  <2> QED
    BY <2>2, <2>7, <2>8 DEF Life!Next, Life!Pay, Life!Move
<1>3. CASE ~CommitSuccess(r)
  <2>1. UNCHANGED ordersVars /\ PaidFor' = PaidFor
    BY <1>0, <1>1, <1>3, OtherPaymentStepsEarnNothing, NoNewMoney
  <2>2. status' = status /\ taken' = taken /\ ord' = ord
    BY <2>1 DEF ordersVars, ordVars, tableVars
  <2>3. ASSUME NEW s \in PaymentRequests, preq'[s].pc \in {"gateway", "flush", "commit"}
        PROVE  \/ preq[s].pc \in {"gateway", "flush"} /\ preq'[s].order = preq[s].order
               \/ preq'[s] = preq[s]
               \/ status[preq'[s].order] = "CONFIRMED"
    <3>1. CASE s # r
      BY <1>0, <1>1, <2>3, <3>1
         DEF BeginPayment, ContinuePayment, CrashPayment, BeginInitiate, BeginVerify,
             CheckNoSuccess, LookUpKey, GatewayRefusesCreate, InsertPayment, LockPayment,
             CheckOrder, GatewayFails, GatewayPending, GatewayRejects, GatewayConfirms,
             FlushSuccess, CommitSuccess, PublishPayment, PayGoto
    <3>2. CASE s = r
      <4>1. CASE CheckOrder(r)
        BY <1>0, <2>3, <3>2, <4>1 DEF CheckOrder, PayGoto, Payable, PayState
      <4>2. CASE GatewayConfirms(r) \/ FlushSuccess(r)
        BY <1>0, <2>3, <3>2, <4>2 DEF GatewayConfirms, FlushSuccess, PayGoto, PayState
      <4>3. ASSUME NEW o \in OrderIds, NEW m \in Method, NEW k \in Keys \cup {NoKey},
                   BeginInitiate(r, o, m, k)
            PROVE  FALSE
        BY <1>0, <2>3, <3>2, <4>3 DEF BeginInitiate, PayState
      <4>4. ASSUME NEW x \in PaymentIds, NEW m \in Method, NEW ref \in Refs \cup {NoRef},
                   BeginVerify(r, x, m, ref)
            PROVE  FALSE
        BY <1>0, <2>3, <3>2, <4>4 DEF BeginVerify, PayState
      <4>5. \A label : PayGoto(r, label) => preq'[r].pc = label
        BY <1>0 DEF PayGoto, PayState
      <4>6. ~(CheckNoSuccess(r) \/ LookUpKey(r) \/ GatewayRefusesCreate(r) \/ InsertPayment(r))
        BY <2>3, <3>2, <4>5
           DEF CheckNoSuccess, LookUpKey, GatewayRefusesCreate, InsertPayment
      <4>7. ~(GatewayFails(r) \/ GatewayPending(r) \/ GatewayRejects(r)
              \/ PublishPayment(r) \/ CrashPayment(r))
        BY <2>3, <3>2, <4>5
           DEF GatewayFails, GatewayPending, GatewayRejects, PublishPayment, CrashPayment
      <4>8. ~LockPayment(r)
        BY <2>3, <3>2, <4>5 DEF LockPayment
      <4> QED
        BY <1>1, <1>3, <4>1, <4>2, <4>3, <4>4, <4>6, <4>7, <4>8
           DEF BeginPayment, ContinuePayment
    <3> QED
      BY <3>1, <3>2
  <2>4. StatusAtHand'
    BY <2>2, <2>3, LookAtHand
  <2> QED
    BY <2>1, <2>2, <2>4 DEF Life!vars
<1> QED
  BY <1>2, <1>3

(* As long as transitions overlap no other request about their order,      *)
(* orders and payments implement the atomic lifecycle, however payments,   *)
(* requests about different orders and adjustments of stock interleave.    *)
THEOREM LoneTransitionsImplementLifecycle == Spec /\ []TransitionsAlone => LifecycleSpec
<1>1. Init => Life!Init
  <2> SUFFICES ASSUME Init
               PROVE  Life!Init
    OBVIOUS
  <2>1. \A x \in PaymentIds : ~Succeeded(x)
    BY DEF Init, PayInit, Succeeded
  <2>2. PaidFor = {}
    BY <2>1 DEF PaidFor
  <2> QED
    BY <2>2 DEF Life!Init, Init, OrdersInit, OrdInit
<1>2. ShopInv /\ StatusAtHand /\ TransitionsAlone /\ [Next]_vars =>
        StatusAtHand' /\ [Life!Next]_(Life!vars)
  <2> SUFFICES ASSUME ShopInv, StatusAtHand, TransitionsAlone, [Next]_vars
               PROVE  StatusAtHand' /\ (Life!Next \/ UNCHANGED Life!vars)
    OBVIOUS
  <2>1. CASE UNCHANGED <<ordVars, payVars>>
    <3>1. PaidFor' = PaidFor
      BY <2>1 DEF payVars, payTables, PaidFor, Succeeded
    <3>2. StatusAtHand'
      BY <2>1 DEF StatusAtHand, ordVars, tableVars, payVars
    <3> QED
      BY <2>1, <3>1, <3>2 DEF Life!vars, ordVars, tableVars
  <2>2. UNCHANGED vars => UNCHANGED <<ordVars, payVars>>
    BY DEF vars, ordersVars
  <2> QED
    BY <2>1, <2>2, OrdNextIsMove, PayNextIsMove DEF Next
<1> QED
  BY <1>1, <1>2, InitAtHand, ShopCorrect, PTL DEF Spec, LifecycleSpec, Life!Spec


-----------------------------------------------------------------------------
(* The atomic lifecycle itself.                                            *)

USE DEF Life!OrderStatus, Life!HoldingStates, Life!PaidStates

LifecycleInv == Life!TypeOK /\ Life!StockHeldOnce /\ Life!PaidMeansMoney

LEMMA InitLifecycle == Life!Init => LifecycleInv
BY DEF Life!Init, LifecycleInv, Life!TypeOK, Life!StockHeldOnce, Life!PaidMeansMoney

(* A move of o that changes neither what o holds nor whether it is paid.   *)
LEMMA PlainMove ==
    ASSUME LifecycleInv, NEW o \in OrderIds,
           NEW from \in Life!OrderStatus, NEW to \in Life!OrderStatus, Life!Move(o, from, to),
           from \in Life!HoldingStates <=> to \in Life!HoldingStates,
           from \in Life!PaidStates <=> to \in Life!PaidStates,
           UNCHANGED <<taken, PaidFor>>
    PROVE  LifecycleInv'
<1>1. /\ status' \in [OrderIds -> Life!OrderStatus]
      /\ status[o] = from /\ status'[o] = to
      /\ \A x \in OrderIds \ {o} : status'[x] = status[x]
  BY DEF Life!Move, LifecycleInv, Life!TypeOK
<1>2. Life!TypeOK'
  BY <1>1 DEF LifecycleInv, Life!TypeOK
<1>3. Life!StockHeldOnce'
  BY <1>1 DEF LifecycleInv, Life!StockHeldOnce
<1>4. Life!PaidMeansMoney'
  BY <1>1 DEF LifecycleInv, Life!PaidMeansMoney
<1> QED
  BY <1>2, <1>3, <1>4 DEF LifecycleInv

(* A move of o that takes its lines out of stock or puts them back.        *)
LEMMA StockMove ==
    ASSUME LifecycleInv, NEW o \in OrderIds,
           NEW from \in Life!OrderStatus \ Life!PaidStates, NEW to \in Life!OrderStatus \ Life!PaidStates,
           Life!Move(o, from, to), UNCHANGED PaidFor,
           taken' = [taken EXCEPT ![o] = IF to = "CONFIRMED" THEN 1 ELSE 0]
    PROVE  LifecycleInv'
<1>1. /\ status' \in [OrderIds -> Life!OrderStatus]
      /\ status[o] = from /\ status'[o] = to
      /\ \A x \in OrderIds \ {o} : status'[x] = status[x]
  BY DEF Life!Move, LifecycleInv, Life!TypeOK
<1>2. /\ taken'[o] = IF to = "CONFIRMED" THEN 1 ELSE 0
      /\ \A x \in OrderIds \ {o} : taken'[x] = taken[x]
  BY DEF LifecycleInv, Life!TypeOK
<1>3. Life!TypeOK'
  <2> DEFINE n == IF to = "CONFIRMED" THEN 1 ELSE 0
  <2>1. n \in Int
    OBVIOUS
  <2> HIDE DEF n
  <2>2. taken' = [taken EXCEPT ![o] = n]
    BY DEF n
  <2>3. taken' \in [OrderIds -> Int]
    BY <2>1, <2>2 DEF LifecycleInv, Life!TypeOK
  <2> QED
    BY <1>1, <2>3 DEF LifecycleInv, Life!TypeOK
<1>4. Life!StockHeldOnce'
  <2> SUFFICES ASSUME NEW x \in OrderIds
               PROVE  taken'[x] = IF status'[x] \in Life!HoldingStates THEN 1 ELSE 0
    BY DEF Life!StockHeldOnce
  <2>1. CASE x = o
    <3>1. to \in Life!HoldingStates <=> to = "CONFIRMED"
      OBVIOUS
    <3> QED
      BY <1>1, <1>2, <2>1, <3>1
  <2>2. CASE x # o
    BY <1>1, <1>2, <2>2 DEF LifecycleInv, Life!StockHeldOnce
  <2> QED
    BY <2>1, <2>2
<1>5. Life!PaidMeansMoney'
  BY <1>1 DEF LifecycleInv, Life!PaidMeansMoney
<1> QED
  BY <1>3, <1>4, <1>5 DEF LifecycleInv

LEMMA NextLifecycle == LifecycleInv /\ Life!Next => LifecycleInv'
<1> SUFFICES ASSUME LifecycleInv, NEW o \in OrderIds,
                    \/ Life!Create(o) \/ Life!Confirm(o) \/ Life!Drop(o)
                    \/ Life!Cancel(o) \/ Life!Pay(o) \/ Life!Deliver(o)
             PROVE  LifecycleInv'
  BY DEF Life!Next
<1>1. CASE Life!Create(o) \/ Life!Drop(o) \/ Life!Deliver(o)
  BY <1>1, PlainMove DEF Life!Create, Life!Drop, Life!Deliver
<1>2. CASE Life!Confirm(o)
  <2>1. taken[o] = 0
    BY <1>2 DEF Life!Confirm, Life!Move, LifecycleInv, Life!StockHeldOnce
  <2>2. taken' = [taken EXCEPT ![o] = 1]
    BY <1>2, <2>1 DEF Life!Confirm
  <2> QED
    BY <1>2, <2>2, StockMove DEF Life!Confirm
<1>3. CASE Life!Cancel(o)
  <2>1. taken[o] = 1
    BY <1>3 DEF Life!Cancel, Life!Move, LifecycleInv, Life!StockHeldOnce
  <2>2. taken' = [taken EXCEPT ![o] = 0]
    BY <1>3, <2>1 DEF Life!Cancel
  <2> QED
    BY <1>3, <2>2, StockMove DEF Life!Cancel
<1>4. CASE Life!Pay(o)
  <2>1. /\ status' \in [OrderIds -> Life!OrderStatus]
        /\ status[o] = "CONFIRMED" /\ status'[o] = "PAID"
        /\ \A x \in OrderIds \ {o} : status'[x] = status[x]
        /\ PaidFor' = PaidFor \cup {o} /\ UNCHANGED taken
    BY <1>4 DEF Life!Pay, Life!Move, LifecycleInv, Life!TypeOK
  <2>2. Life!TypeOK'
    BY <2>1 DEF LifecycleInv, Life!TypeOK
  <2>3. Life!StockHeldOnce'
    BY <2>1 DEF LifecycleInv, Life!StockHeldOnce
  <2>4. Life!PaidMeansMoney'
    BY <2>1 DEF LifecycleInv, Life!PaidMeansMoney
  <2> QED
    BY <2>2, <2>3, <2>4 DEF LifecycleInv
<1> QED
  BY <1>1, <1>2, <1>3, <1>4

(* In the atomic lifecycle the goods of an order are out of stock exactly  *)
(* once while it is confirmed or later, and its money is in exactly when   *)
(* it is paid or later: for any number of orders.                          *)
THEOREM LifecycleCorrect == Life!Spec => [](Life!StockHeldOnce /\ Life!PaidMeansMoney)
<1>1. LifecycleInv /\ UNCHANGED Life!vars => LifecycleInv'
  BY DEF LifecycleInv, Life!vars, Life!TypeOK, Life!StockHeldOnce, Life!PaidMeansMoney
<1>2. LifecycleInv /\ [Life!Next]_(Life!vars) => LifecycleInv'
  BY <1>1, NextLifecycle
<1>3. LifecycleInv => Life!StockHeldOnce /\ Life!PaidMeansMoney
  BY DEF LifecycleInv
<1> QED
  BY InitLifecycle, <1>2, <1>3, PTL DEF Life!Spec

(* Hence, without such overlaps, no cancellation restores stock twice, and *)
(* no money is taken for an order that is not PAID or later.               *)
THEOREM LoneTransitionsAreSound ==
    Spec /\ []TransitionsAlone => [](StockHeldOnce /\ MoneyMatchesStatus)
BY LoneTransitionsImplementLifecycle, LifecycleCorrect, PTL
   DEF LifecycleSpec, StockHeldOnce, MoneyMatchesStatus
=============================================================================
