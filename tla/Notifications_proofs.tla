------------------------ MODULE Notifications_proofs ------------------------
(***************************************************************************)
(* Proofs about notifications, for any number of threads: what a listener  *)
(* is told has been committed and is never undone, and whatever a thread   *)
(* has to tell is told, is still on its way, or was lost by a crash or a   *)
(* failed write of that very draft.                                        *)
(***************************************************************************)
EXTENDS Notifications, Shop_proofs

-----------------------------------------------------------------------------
(* What the drafts say.                                                    *)

(* A committed, or a staged, movement left q units of p.                   *)
Moved(p, q) == \E i \in 1 .. Len(movements[p]) : movements[p][i].resulting = q

StagedTo(r, p, q) == \E i \in 1 .. Len(ord[r].staged[p]) : ord[r].staged[p][i].resulting = q

OrderTypes == {"ORDER_CREATED", "ORDER_CONFIRMED", "ORDER_CANCELLED"}

HasHappened(d) ==
    /\ d.type \in NotificationType
    /\ d.type = "LOW_STOCK" =>
         d.entity \in Products /\ d.left <= d.limit /\ Moved(d.entity, d.left)
    /\ d.type \in OrderTypes => d.entity \in OrderIds /\ status[d.entity] # "NONE"
    /\ d.type \in OrderTypes \ {"ORDER_CREATED"} => status[d.entity] # "CREATED"
    /\ d.type \in {"PAYMENT_SUCCESS", "PAYMENT_FAILED"} =>
         /\ d.entity \in stored
         /\ pay[d.entity].status = IF d.type = "PAYMENT_SUCCESS" THEN "SUCCESS" ELSE "FAILED"

(* A transaction collects a low-stock event only for a movement it stages, *)
(* and only a request that creates its order has no rule.                  *)
LowsAreStaged ==
    \A r \in OrderRequests :
        /\ ord[r].pc = "new" => ord[r].low = {} /\ ord[r].rule = NoRule
        /\ ord[r].pc \in {"stage", "commit"} =>
             /\ ord[r].rule \in TRANSITIONS
             /\ \A e \in ord[r].low :
                  e.quantity <= e.threshold /\ StagedTo(r, e.product, e.quantity)

ToldIsTrue == \A r \in Publishers : \A d \in Unpublished(r) : HasHappened(d)

-----------------------------------------------------------------------------
(* Nothing is taken back.                                                  *)

MovementsKept ==
    \A p \in Products : \A i \in 1 .. Len(movements[p]) :
        i \in 1 .. Len(movements'[p]) /\ movements'[p][i] = movements[p][i]

LEMMA MovementsStay ==
    ASSUME ShopInv, [Next]_vars
    PROVE  MovementsKept
<1>0. movements \in [Products -> Seq(Ledger!Movement)]
  BY DEF ShopInv, OrdInv, InvTypeOK, StockTypeOK
<1>1. CASE movements' = movements
  BY <1>1 DEF MovementsKept
<1>2. ASSUME NEW r \in InventoryRequests, CommitAdjustment(r)
      PROVE  MovementsKept
  <2>1. PICK x, e : movements' = [movements EXCEPT ![x] = Append(@, e)]
    BY <1>2 DEF CommitAdjustment
  <2> SUFFICES ASSUME NEW p \in Products, NEW i \in 1 .. Len(movements[p])
               PROVE  i \in 1 .. Len(movements'[p]) /\ movements'[p][i] = movements[p][i]
    BY DEF MovementsKept
  <2>2. movements[p] \in Seq(Ledger!Movement)
    BY <1>0
  <2>3. CASE p = x
    <3>1. movements'[p] = Append(movements[p], e)
      BY <1>0, <2>1, <2>3
    <3> QED
      BY <2>2, <3>1
  <2>4. CASE p # x
    BY <1>0, <2>1, <2>4
  <2> QED
    BY <2>3, <2>4
<1>3. ASSUME NEW r \in OrderRequests, CommitTransition(r)
      PROVE  MovementsKept
  <2> SUFFICES ASSUME NEW p \in Products, NEW i \in 1 .. Len(movements[p])
               PROVE  i \in 1 .. Len(movements'[p]) /\ movements'[p][i] = movements[p][i]
    BY DEF MovementsKept
  <2>1. /\ movements'[p] = movements[p] \o ord[r].staged[p]
        /\ movements[p] \in Seq(Ledger!Movement) /\ ord[r].staged[p] \in Seq(Ledger!Movement)
    BY <1>3, StagedType DEF CommitTransition, ShopInv
  <2>2. PICK s \in Seq(Ledger!Movement), t \in Seq(Ledger!Movement) :
          s = movements[p] /\ t = ord[r].staged[p]
    BY <2>1
  <2>3. \A j \in 1 .. Len(s) : j \in 1 .. Len(s \o t) /\ (s \o t)[j] = s[j]
    OBVIOUS
  <2> QED
    BY <2>1, <2>2, <2>3
<1>4. CASE AdjNext
  <2>1. PICK r \in InventoryRequests : BeginAdj(r) \/ ContinueAdj(r) \/ CrashAdj(r)
    BY <1>4 DEF AdjNext
  <2>2. CASE ~CommitAdjustment(r)
    BY <1>1, <2>1, <2>2
       DEF BeginAdj, BeginCreate, BeginThreshold, BeginAdjust, BeginAdjustByProduct, ContinueAdj,
           InsertRow, SetThreshold, LockRow, LockHeldRow, ApplyAdjustment, RefuseAdjustment,
           PublishLowStock, CrashAdj, stockVars
  <2> QED
    BY <1>2, <2>2
<1>5. CASE OrdNext
  <2>1. PICK r \in OrderRequests : BeginOrder(r) \/ ContinueOrder(r) \/ CrashOrder(r)
    BY <1>5 DEF OrdNext
  <2> QED
    BY <1>1, <1>3, <2>1, OrderStepShares DEF ShopInv
<1>6. CASE PayNext
  <2>1. movements' = movements
    BY <1>6 DEF PayNext, BeginPayment, ContinuePayment, CrashPayment, BeginInitiate, BeginVerify,
           CheckNoSuccess, LookUpKey, GatewayRefusesCreate, InsertPayment, LockPayment,
           CheckOrder, GatewayFails, GatewayPending, GatewayRejects, GatewayConfirms,
           FlushSuccess, CommitSuccess, PublishPayment, ordersVars, invVars, stockVars
  <2> QED
    BY <1>1, <2>1
<1>7. CASE UNCHANGED vars
  BY <1>1, <1>7 DEF vars, ordersVars, invVars, stockVars
<1> QED
  BY <1>4, <1>5, <1>6, <1>7 DEF Next

(* An order that exists goes on existing, and one that has left CREATED    *)
(* never returns to it: no rule leads there.                               *)
LEMMA OrdersGoOn ==
    ASSUME ShopInv, LowsAreStaged, [Next]_vars, NEW o \in OrderIds, status[o] # "NONE"
    PROVE  /\ status'[o] # "NONE"
           /\ status[o] # "CREATED" => status'[o] # "CREATED"
<1>0. status \in [OrderIds -> OrderStatus]
  BY DEF ShopInv, OrdInv, OrdTypeOK
<1>1. CASE status' = status
  BY <1>1
<1>2. CASE AdjNext /\ UNCHANGED <<ordVars, payVars>>
  BY <1>1, <1>2 DEF ordVars, tableVars
<1>3. CASE OrdNext
  <2>1. PICK r \in OrderRequests : BeginOrder(r) \/ ContinueOrder(r) \/ CrashOrder(r)
    BY <1>3 DEF OrdNext
  <2>2. CASE CommitTransition(r)
    <3>1. ord[r].rule.to \notin {"NONE", "CREATED"}
      BY <2>2 DEF CommitTransition, LowsAreStaged, TRANSITIONS, Rule
    <3> QED
      BY <1>0, <2>2, <3>1 DEF CommitTransition
  <2>3. ASSUME NEW x \in OrderIds, CreateOrder(r, x)
        PROVE  status'[o] = status[o]
    BY <1>0, <2>3 DEF CreateOrder
  <2>4. CASE ~CommitTransition(r) /\ \A x \in OrderIds : ~CreateOrder(r, x)
    BY <1>1, <2>1, <2>4
       DEF BeginOrder, ReadOrder, RefuseTransition, ContinueOrder, StageLine, RefuseLine,
           AbortDeadlock, PublishOrder, CrashOrder, tableVars
  <2> QED
    BY <2>2, <2>3, <2>4
<1>4. CASE PayNext
  <2>1. PICK r \in PaymentRequests : BeginPayment(r) \/ ContinuePayment(r) \/ CrashPayment(r)
    BY <1>4 DEF PayNext
  <2>2. CASE CommitSuccess(r)
    BY <1>0, <2>2, CommitSuccessPays DEF ShopInv
  <2>3. CASE ~CommitSuccess(r)
    <3>1. status' = status
      BY <2>1, <2>3, OtherPaymentStepsEarnNothing DEF ShopInv, ordersVars, ordVars, tableVars
    <3> QED
      BY <1>1, <3>1
  <2> QED
    BY <2>2, <2>3
<1>5. CASE UNCHANGED vars
  BY <1>1, <1>5 DEF vars, ordersVars, ordVars, tableVars
<1> QED
  BY <1>2, <1>3, <1>4, <1>5 DEF Next

(* What has happened has happened.                                         *)
LEMMA HappenedStays ==
    ASSUME ShopInv, LowsAreStaged, [Next]_vars, NEW d, HasHappened(d)
    PROVE  HasHappened(d)'
<1>1. CASE d.type = "LOW_STOCK"
  <2>1. Moved(d.entity, d.left)'
    BY <1>1, MovementsStay DEF HasHappened, Moved, MovementsKept
  <2> QED
    BY <1>1, <2>1 DEF HasHappened, OrderTypes
<1>2. CASE d.type \in OrderTypes
  BY <1>2, OrdersGoOn DEF HasHappened, OrderTypes
<1>3. CASE d.type \in {"PAYMENT_SUCCESS", "PAYMENT_FAILED"}
  BY <1>3, ShopStepKeeps DEF HasHappened, OrderTypes, PayRowsKept, TERMINAL
<1> QED
  BY <1>1, <1>2, <1>3 DEF HasHappened, NotificationType, OrderTypes

-----------------------------------------------------------------------------
(* Who tells what.                                                         *)

LEMMA KindsOfPublishers ==
    /\ InventoryRequests \cap OrderRequests = {}
    /\ PaymentRequests \cap (InventoryRequests \cup OrderRequests) = {}
BY RequestsApart, OrdersAssumption, PaymentsAssumption DEF Requests

AdjDrafts(r) ==
    {FromLowStock([product |-> adj[r].product, quantity |-> adj[r].q, threshold |-> adj[r].t])}

OrdDrafts(r) ==
    {FromLowStock(e) : e \in ord[r].low} \cup
    {FromOrder(e, ord[r].order) : e \in LifecycleEvent(ord[r].rule.to)}

LEMMA AdjTells ==
    ASSUME NEW r \in InventoryRequests
    PROVE  /\ Label(r) = adj[r].pc
           /\ Unpublished(r) = IF adj[r].pc = "publish" THEN AdjDrafts(r) ELSE {}
BY DEF Label, Unpublished, AdjDrafts

LEMMA OrdTells ==
    ASSUME NEW r \in OrderRequests
    PROVE  /\ Label(r) = ord[r].pc
           /\ Unpublished(r) = IF ord[r].pc = "publish" THEN OrdDrafts(r) ELSE {}
BY KindsOfPublishers DEF Label, Unpublished, OrdDrafts

LEMMA PayTells ==
    ASSUME NEW r \in PaymentRequests
    PROVE  /\ Label(r) = preq[r].pc
           /\ Unpublished(r) = IF preq[r].pc = "publish" THEN {FromPayment(preq[r].payment)}
                                                         ELSE {}
BY KindsOfPublishers DEF Label, Unpublished

LEMMA AdjTellsNext ==
    ASSUME NEW r \in InventoryRequests
    PROVE  /\ Label(r)' = adj'[r].pc
           /\ Unpublished(r)' = IF adj'[r].pc = "publish" THEN AdjDrafts(r)' ELSE {}
BY DEF Label, Unpublished, AdjDrafts

LEMMA OrdTellsNext ==
    ASSUME NEW r \in OrderRequests
    PROVE  /\ Label(r)' = ord'[r].pc
           /\ Unpublished(r)' = IF ord'[r].pc = "publish" THEN OrdDrafts(r)' ELSE {}
BY KindsOfPublishers DEF Label, Unpublished, OrdDrafts

LEMMA PayTellsNext ==
    ASSUME NEW r \in PaymentRequests
    PROVE  /\ Label(r)' = preq'[r].pc
           /\ Unpublished(r)' = IF preq'[r].pc = "publish" THEN {FromPayment(preq[r].payment)'}
                                                           ELSE {}
BY KindsOfPublishers DEF Label, Unpublished, FromPayment, NotificationDraft

(* A thread comes to have something to tell by one of four commits, and    *)
(* then tells it or dies.                                                  *)
LEMMA AdjPublishes ==
    ASSUME ShopInv, [Next]_vars, NEW r \in InventoryRequests
    PROVE  /\ adj'[r].pc = "publish" => adj'[r] = adj[r] \/ CommitAdjustment(r)
           /\ adj[r].pc = "publish" =>
                adj'[r] = adj[r] \/ adj'[r].pc \in {"done", "crashed"}
<1>0. adj \in [InventoryRequests -> AdjState]
  BY DEF ShopInv, OrdInv, InvTypeOK, AdjTypeOK
<1>1. CASE adj' = adj
  BY <1>1
<1>2. CASE AdjNext
  <2>1. PICK s \in InventoryRequests : BeginAdj(s) \/ ContinueAdj(s) \/ CrashAdj(s)
    BY <1>2 DEF AdjNext
  <2>2. CASE CommitAdjustment(s)
    <3>1. PICK v : adj' = [adj EXCEPT ![s] = v] /\ adj[s].pc = "apply"
      BY <2>2 DEF CommitAdjustment
    <3> QED
      BY <1>0, <2>2, <3>1
  <2>3. CASE ~CommitAdjustment(s)
    <3>1. PICK v : adj' = [adj EXCEPT ![s] = v]
      BY <2>1, <2>3
         DEF BeginAdj, BeginCreate, BeginThreshold, BeginAdjust, BeginAdjustByProduct,
             ContinueAdj, InsertRow, SetThreshold, LockRow, LockHeldRow, ApplyAdjustment,
             RefuseAdjustment, PublishLowStock, CrashAdj, Goto
    <3>2. adj'[s].pc # "publish"
      <4>1. \A label : Goto(s, label) => adj'[s].pc = label
        BY <1>0 DEF Goto, AdjState
      <4>2. CASE BeginAdj(s)
        <5>1. PICK p \in Products :
                \/ \E q \in Quantities, t \in Thresholds : BeginCreate(s, p, q, t)
                \/ \E t \in Thresholds : BeginThreshold(s, p, t)
                \/ \E d \in Deltas : BeginAdjust(s, p, d) \/ BeginAdjustByProduct(s, p, d)
          BY <4>2 DEF BeginAdj
        <5> QED
          BY <1>0, <5>1 DEF BeginCreate, BeginThreshold, BeginAdjust, BeginAdjustByProduct
      <4>3. CASE LockRow(s)
        BY <1>0, <4>1, <4>3 DEF LockRow, AdjState
      <4> QED
        BY <2>1, <2>3, <4>1, <4>2, <4>3
           DEF ContinueAdj, InsertRow, SetThreshold, LockHeldRow, ApplyAdjustment,
               RefuseAdjustment, PublishLowStock, CrashAdj
    <3>3. adj[s].pc = "publish" => adj'[s].pc \in {"done", "crashed"}
      BY <1>0, <2>1, <2>3
         DEF BeginAdj, BeginCreate, BeginThreshold, BeginAdjust, BeginAdjustByProduct,
             ContinueAdj, InsertRow, SetThreshold, LockRow, LockHeldRow, ApplyAdjustment,
             RefuseAdjustment, PublishLowStock, CrashAdj, Goto, AdjState
    <3> QED
      BY <1>0, <3>1, <3>2, <3>3
  <2> QED
    BY <2>2, <2>3
<1>3. OrdNext \/ PayNext => adj' = adj
  <2>1. OrdNext => adj' = adj
    BY OrderStepShares DEF OrdNext, ShopInv
  <2>2. PayNext => adj' = adj
    BY DEF PayNext, BeginPayment, ContinuePayment, CrashPayment, BeginInitiate, BeginVerify,
           CheckNoSuccess, LookUpKey, GatewayRefusesCreate, InsertPayment, LockPayment,
           CheckOrder, GatewayFails, GatewayPending, GatewayRejects, GatewayConfirms,
           FlushSuccess, CommitSuccess, PublishPayment, ordersVars, invVars
  <2> QED
    BY <2>1, <2>2
<1>4. UNCHANGED vars => adj' = adj
  BY DEF vars, ordersVars, invVars
<1> QED
  BY <1>1, <1>2, <1>3, <1>4 DEF Next

LEMMA OrdPublishes ==
    ASSUME ShopInv, [Next]_vars, NEW r \in OrderRequests
    PROVE  /\ ord'[r].pc = "publish" =>
                \/ ord'[r] = ord[r]
                \/ CommitTransition(r)
                \/ \E o \in OrderIds : CreateOrder(r, o)
           /\ ord[r].pc = "publish" =>
                ord'[r] = ord[r] \/ ord'[r].pc \in {"done", "crashed"}
<1>0. ord \in [OrderRequests -> OrdState] /\ OrdInv
  BY DEF ShopInv, OrdInv, OrdTypeOK
<1>1. CASE ord' = ord
  BY <1>1
<1>2. CASE OrdNext
  <2>1. PICK s \in OrderRequests : BeginOrder(s) \/ ContinueOrder(s) \/ CrashOrder(s)
    BY <1>2 DEF OrdNext
  <2>2. CASE s # r
    BY <1>0, <2>1, <2>2, OrderStepShares
  <2>3. CASE s = r
    <3>1. CASE BeginOrder(r)
      <4>1. ord[r].pc = "new"
        BY <3>1 DEF BeginOrder, CreateOrder, ReadOrder, RefuseTransition
      <4>2. PICK o \in OrderIds : \/ CreateOrder(r, o)
                                  \/ \E event \in ClientEvent : ReadOrder(r, o, event)
                                  \/ \E event \in ClientEvent : RefuseTransition(r, o, event)
        BY <3>1 DEF BeginOrder
      <4>3. CASE \E event \in ClientEvent : ReadOrder(r, o, event)
        <5>1. PICK rule \in TRANSITIONS :
                ord' = [ord EXCEPT ![r] =
                  [@ EXCEPT !.pc = IF rule.effect = 0 THEN "commit" ELSE "stage",
                            !.order = o, !.rule = rule]]
          BY <4>3 DEF ReadOrder
        <5>2. ord'[r].pc \in {"stage", "commit"}
          BY <1>0, <5>1 DEF OrdState
        <5> QED
          BY <4>1, <5>2
      <4>4. CASE \E event \in ClientEvent : RefuseTransition(r, o, event)
        <5>1. ord'[r].pc = "failed"
          BY <1>0, <4>4 DEF RefuseTransition, OrdState
        <5> QED
          BY <4>1, <5>1
      <4> QED
        BY <4>1, <4>2, <4>3, <4>4
    <3>2. CASE StageLine(r)
      <4>1. ord[r].pc = "stage" /\ ord'[r].pc \in {"stage", "commit"}
        BY <1>0, <3>2 DEF StageLine, OrdState
      <4> QED
        BY <4>1
    <3>3. CASE RefuseLine(r) \/ AbortDeadlock(r)
      <4>1. ord[r].pc = "stage" /\ ord'[r].pc = "failed"
        BY <1>0, <3>3 DEF RefuseLine, AbortDeadlock, Deadlocked, WaitsFor, OrdState
      <4> QED
        BY <4>1
    <3>4. CASE PublishOrder(r) \/ CrashOrder(r)
      <4>1. ord'[r].pc \in {"done", "crashed"}
        BY <1>0, <3>4 DEF PublishOrder, CrashOrder, OrdState
      <4> QED
        BY <4>1
    <3>5. CASE CommitTransition(r)
      BY <3>5 DEF CommitTransition
    <3> QED
      BY <2>1, <2>3, <3>1, <3>2, <3>3, <3>4, <3>5 DEF ContinueOrder
  <2> QED
    BY <2>2, <2>3
<1>3. AdjNext /\ UNCHANGED ordVars => ord' = ord
  BY DEF ordVars
<1>4. PayNext => ord' = ord
    BY DEF PayNext, BeginPayment, ContinuePayment, CrashPayment, BeginInitiate, BeginVerify,
           CheckNoSuccess, LookUpKey, GatewayRefusesCreate, InsertPayment, LockPayment,
           CheckOrder, GatewayFails, GatewayPending, GatewayRejects, GatewayConfirms,
           FlushSuccess, CommitSuccess, PublishPayment, ordersVars, ordVars
<1>5. UNCHANGED vars => ord' = ord
  BY DEF vars, ordersVars, ordVars
<1> QED
  BY <1>1, <1>2, <1>3, <1>4, <1>5 DEF Next

LEMMA PayPublishes ==
    ASSUME ShopInv, [Next]_vars, NEW r \in PaymentRequests
    PROVE  /\ preq'[r].pc = "publish" =>
                preq'[r] = preq[r] \/ CommitSuccess(r) \/ GatewayRejects(r)
           /\ preq[r].pc = "publish" =>
                preq'[r] = preq[r] \/ preq'[r].pc \in {"done", "crashed"}
<1>0. preq \in [PaymentRequests -> PayState]
  BY DEF ShopInv, PayInv, PayTypeOK
<1>1. CASE preq' = preq
  BY <1>1
<1>2. CASE PayNext
  <2>1. PICK s \in PaymentRequests : BeginPayment(s) \/ ContinuePayment(s) \/ CrashPayment(s)
    BY <1>2 DEF PayNext
  <2>2. \A label : PayGoto(s, label) => preq'[s].pc = label
    BY <1>0 DEF PayGoto, PayState
  <2>3. PICK v : preq' = [preq EXCEPT ![s] = v]
    BY <2>1
       DEF BeginPayment, ContinuePayment, CrashPayment, BeginInitiate, BeginVerify,
           CheckNoSuccess, LookUpKey, GatewayRefusesCreate, InsertPayment, LockPayment,
           CheckOrder, GatewayFails, GatewayPending, GatewayRejects, GatewayConfirms,
           FlushSuccess, CommitSuccess, PublishPayment, PayGoto
  <2>4. CASE BeginPayment(s)
    <3>1. preq[s].pc = "new" /\ preq'[s].pc # "publish"
      <4>1. ASSUME NEW o \in OrderIds, NEW m \in Method, NEW k \in Keys \cup {NoKey},
                   BeginInitiate(s, o, m, k)
            PROVE  preq[s].pc = "new" /\ preq'[s].pc # "publish"
        BY <1>0, <4>1 DEF BeginInitiate, PayState
      <4>2. ASSUME NEW x \in PaymentIds, NEW m \in Method, NEW ref \in Refs \cup {NoRef},
                   BeginVerify(s, x, m, ref)
            PROVE  preq[s].pc = "new" /\ preq'[s].pc # "publish"
        BY <1>0, <4>2 DEF BeginVerify, PayState
      <4> QED
        BY <2>4, <4>1, <4>2 DEF BeginPayment
    <3> QED
      BY <1>0, <2>3, <3>1
  <2>5. CASE PublishPayment(s) \/ CrashPayment(s)
    <3>1. preq'[s].pc \in {"done", "crashed"}
      BY <2>2, <2>5 DEF PublishPayment, CrashPayment
    <3> QED
      BY <1>0, <2>3, <3>1
  <2>6. CASE CommitSuccess(s) \/ GatewayRejects(s)
    BY <1>0, <2>3, <2>6 DEF CommitSuccess, GatewayRejects
  <2>7. CASE \/ CheckNoSuccess(s) \/ LookUpKey(s) \/ GatewayRefusesCreate(s)
             \/ InsertPayment(s) \/ LockPayment(s) \/ CheckOrder(s) \/ GatewayFails(s)
             \/ GatewayPending(s) \/ GatewayConfirms(s) \/ FlushSuccess(s)
    <3>1. preq[s].pc # "publish"
      BY <2>7
         DEF CheckNoSuccess, LookUpKey, GatewayRefusesCreate, InsertPayment, LockPayment,
             CheckOrder, GatewayFails, GatewayPending, GatewayConfirms, FlushSuccess
    <3>2. preq'[s].pc # "publish"
      <4>1. CASE CheckOrder(s)
        BY <1>0, <2>2, <4>1 DEF CheckOrder, PayState
      <4>2. CASE ~CheckOrder(s)
        BY <2>2, <2>7, <4>2
           DEF CheckNoSuccess, LookUpKey, GatewayRefusesCreate, InsertPayment, LockPayment,
               GatewayFails, GatewayPending, GatewayConfirms, FlushSuccess
      <4> QED
        BY <4>1, <4>2
    <3> QED
      BY <1>0, <2>3, <3>1, <3>2
  <2> QED
    BY <2>1, <2>4, <2>5, <2>6, <2>7 DEF ContinuePayment
<1>3. UNCHANGED payVars \/ UNCHANGED vars => preq' = preq
  BY DEF vars, payVars
<1> QED
  BY <1>1, <1>2, <1>3 DEF Next

-----------------------------------------------------------------------------
(* What is about to be told is true.                                       *)

LEMMA AppendedLast ==
    ASSUME NEW S, NEW s \in Seq(S), NEW m \in S
    PROVE  /\ Len(Append(s, m)) \in 1 .. Len(Append(s, m))
           /\ Append(s, m)[Len(Append(s, m))] = m
           /\ \A i \in 1 .. Len(s) : i \in 1 .. Len(Append(s, m)) /\ Append(s, m)[i] = s[i]
OBVIOUS

LEMMA StagingReports ==
    ASSUME ShopInv, LowsAreStaged, NEW r \in OrderRequests, StageLine(r),
           NEW e \in ord'[r].low
    PROVE  e.quantity <= e.threshold /\ StagedTo(r, e.product, e.quantity)'
<1> DEFINE x == NextLine(r).product
           new == OwnQuantity(r, x) + LineDelta(r)
           m == [delta |-> LineDelta(r), resulting |-> new]
           low == [product |-> x, quantity |-> new, threshold |-> threshold[x]]
<1>0. ord \in [OrderRequests -> OrdState] /\ ord[r].pc = "stage"
  BY DEF ShopInv, OrdInv, OrdTypeOK, StageLine
<1>1. /\ ord'[r].staged = [ord[r].staged EXCEPT ![x] = Append(@, m)]
      /\ ord'[r].low = IF new <= threshold[x] THEN ord[r].low \cup {low} ELSE ord[r].low
      /\ x \in Products
  BY <1>0 DEF StageLine, OrdState, Feasible, ShopInv, OrdInv, InvTypeOK, StockTypeOK
<1>2. ord[r].staged \in [Products -> Seq(Ledger!Movement)]
  BY <1>0 DEF OrdState
<1>m. m \in Ledger!Movement
  <2>1. new \in Quantity /\ LineDelta(r) \in Int
    BY <1>0, LineDeltaType DEF StageLine, Feasible, InStock, ShopInv
  <2> QED
    BY <2>1 DEF Ledger!Movement, Ledger!Quantity, Quantity
<1> HIDE DEF m
<1>3. /\ ord'[r].staged[x] = Append(ord[r].staged[x], m)
      /\ ord[r].staged[x] \in Seq(Ledger!Movement)
      /\ \A p \in Products : p # x => ord'[r].staged[p] = ord[r].staged[p]
  BY <1>1, <1>2
<1>4. CASE e \in ord[r].low
  <2>1. e.quantity <= e.threshold /\ StagedTo(r, e.product, e.quantity) /\ e.product \in Products
    BY <1>0, <1>4 DEF LowsAreStaged, OrdState, LowStockEvent
  <2>2. PICK i \in 1 .. Len(ord[r].staged[e.product]) :
          ord[r].staged[e.product][i].resulting = e.quantity
    BY <2>1 DEF StagedTo
  <2>3. /\ i \in 1 .. Len(ord'[r].staged[e.product])
        /\ ord'[r].staged[e.product][i] = ord[r].staged[e.product][i]
    <3>1. CASE e.product = x
      BY <1>3, <1>m, <2>2, <3>1, AppendedLast
    <3>2. CASE e.product # x
      BY <1>3, <2>1, <2>2, <3>2
    <3> QED
      BY <3>1, <3>2
  <2> QED
    BY <2>1, <2>2, <2>3 DEF StagedTo
<1>5. CASE e \notin ord[r].low
  <2>1. e = low /\ new <= threshold[x]
    BY <1>1, <1>5
  <2>2. /\ Len(ord'[r].staged[x]) \in 1 .. Len(ord'[r].staged[x])
        /\ ord'[r].staged[x][Len(ord'[r].staged[x])] = m
    BY <1>3, <1>m, AppendedLast
  <2>3. m.resulting = new
    BY DEF m
  <2> HIDE DEF new, x
  <2> QED
    BY <2>1, <2>2, <2>3 DEF StagedTo
<1> QED
  BY <1>4, <1>5

LEMMA LowsStayStaged ==
    ASSUME ShopInv, LowsAreStaged, [Next]_vars
    PROVE  LowsAreStaged'
<1>0. ord \in [OrderRequests -> OrdState] /\ OrdInv
  BY DEF ShopInv, OrdInv, OrdTypeOK
<1>1. CASE ord' = ord
  BY <1>1 DEF LowsAreStaged, StagedTo
<1>2. CASE OrdNext
  <2>1. PICK r \in OrderRequests : BeginOrder(r) \/ ContinueOrder(r) \/ CrashOrder(r)
    BY <1>2 DEF OrdNext
  <2>2. \A s \in OrderRequests \ {r} : ord'[s] = ord[s]
    BY <1>0, <2>1, OrderStepShares
  <2>3. /\ ord'[r].pc # "new"
        /\ ord'[r].pc \in {"stage", "commit"} =>
             /\ ord'[r].rule \in TRANSITIONS
             /\ \A e \in ord'[r].low :
                  e.quantity <= e.threshold /\ StagedTo(r, e.product, e.quantity)'
    <3>1. CASE BeginOrder(r)
      <4>1. ord[r].pc = "new" /\ ord[r].low = {}
        BY <3>1 DEF BeginOrder, CreateOrder, ReadOrder, RefuseTransition, LowsAreStaged
      <4>2. PICK o \in OrderIds : \/ CreateOrder(r, o)
                                  \/ \E event \in ClientEvent : ReadOrder(r, o, event)
                                  \/ \E event \in ClientEvent : RefuseTransition(r, o, event)
        BY <3>1 DEF BeginOrder
      <4>3. CASE \E event \in ClientEvent : ReadOrder(r, o, event)
        <5>1. PICK rule \in TRANSITIONS :
                ord' = [ord EXCEPT ![r] =
                  [@ EXCEPT !.pc = IF rule.effect = 0 THEN "commit" ELSE "stage",
                            !.order = o, !.rule = rule]]
          BY <4>3 DEF ReadOrder
        <5>2. /\ ord'[r].pc \in {"stage", "commit"}
              /\ ord'[r].rule = rule /\ ord'[r].low = ord[r].low
          BY <1>0, <5>1 DEF OrdState
        <5> QED
          BY <4>1, <5>2
      <4>4. CASE CreateOrder(r, o) \/ \E event \in ClientEvent : RefuseTransition(r, o, event)
        <5>1. ord'[r].pc \in {"publish", "failed"}
          BY <1>0, <4>4 DEF CreateOrder, RefuseTransition, OrdState
        <5> QED
          BY <5>1
      <4> QED
        BY <4>2, <4>3, <4>4
    <3>2. CASE StageLine(r)
      <4>1. /\ ord[r].pc = "stage" /\ ord'[r].pc \in {"stage", "commit"}
            /\ ord'[r].rule = ord[r].rule
        BY <1>0, <3>2 DEF StageLine, OrdState
      <4> QED
        BY <3>2, <4>1, StagingReports DEF LowsAreStaged
    <3>3. CASE RefuseLine(r) \/ AbortDeadlock(r) \/ CommitTransition(r)
               \/ PublishOrder(r) \/ CrashOrder(r)
      <4>1. ord'[r].pc \in {"failed", "publish", "done", "crashed"}
        <5>1. CASE CommitTransition(r)
          BY <1>0, <5>1 DEF CommitTransition, OrdState
        <5>2. CASE ~CommitTransition(r)
          BY <1>0, <3>3, <5>2 DEF RefuseLine, AbortDeadlock, PublishOrder, CrashOrder, OrdState
        <5> QED
          BY <5>1, <5>2
      <4> QED
        BY <4>1
    <3> QED
      BY <2>1, <3>1, <3>2, <3>3 DEF ContinueOrder
  <2>4. ASSUME NEW s \in OrderRequests \ {r}
        PROVE  \A p, q : StagedTo(s, p, q)' <=> StagedTo(s, p, q)
    BY <2>2 DEF StagedTo
  <2> QED
    BY <2>2, <2>3, <2>4 DEF LowsAreStaged
<1>3. AdjNext /\ UNCHANGED ordVars => ord' = ord
  BY DEF ordVars
<1>4. PayNext => ord' = ord
    BY DEF PayNext, BeginPayment, ContinuePayment, CrashPayment, BeginInitiate, BeginVerify,
           CheckNoSuccess, LookUpKey, GatewayRefusesCreate, InsertPayment, LockPayment,
           CheckOrder, GatewayFails, GatewayPending, GatewayRejects, GatewayConfirms,
           FlushSuccess, CommitSuccess, PublishPayment, ordersVars, ordVars
<1>5. UNCHANGED vars => ord' = ord
  BY DEF vars, ordersVars, ordVars
<1> QED
  BY <1>1, <1>2, <1>3, <1>4, <1>5 DEF Next

(* The drafts of a commit report what the commit has done.                 *)
LEMMA AdjustmentTellsTruth ==
    ASSUME ShopInv, NEW r \in InventoryRequests, CommitAdjustment(r),
           NEW d \in Unpublished(r)'
    PROVE  HasHappened(d)'
<1>0. /\ adj \in [InventoryRequests -> AdjState]
      /\ movements \in [Products -> Seq(Ledger!Movement)]
  BY DEF ShopInv, OrdInv, InvTypeOK, StockTypeOK, AdjTypeOK
<1>p. PICK p \in Products, new \in {adj[r].q + adj[r].arg}, t \in {adj[r].t} :
        p = adj[r].product /\ new = adj[r].q + adj[r].arg /\ t = adj[r].t
  BY <1>0 DEF AdjState
<1>1. adj'[r].pc = "publish" /\ d \in AdjDrafts(r)'
  BY AdjTellsNext
<1>2. /\ adj'[r].product = p /\ adj'[r].q = new /\ adj'[r].t = t
      /\ new <= t
  BY <1>0, <1>p, <1>1 DEF CommitAdjustment, AdjState, RunsLow
<1>3. d = NotificationDraft("LOW_STOCK", p, new, t)
  BY <1>1, <1>2 DEF AdjDrafts, FromLowStock, NotificationDraft
<1>4. PICK e \in Ledger!Movement :
        e.resulting = new /\ movements' = [movements EXCEPT ![p] = Append(@, e)]
  <2>1. [delta |-> adj[r].arg, resulting |-> new] \in Ledger!Movement
    BY <1>0, <1>p DEF CommitAdjustment, InStock, AdjState, Ledger!Movement, Ledger!Quantity, Quantity
  <2> QED
    BY <1>p, <2>1 DEF CommitAdjustment
<1>5. movements'[p] = Append(movements[p], e) /\ movements[p] \in Seq(Ledger!Movement)
  BY <1>0, <1>4
<1>6. Moved(p, new)'
  BY <1>4, <1>5, AppendedLast DEF Moved
<1> QED
  BY <1>2, <1>3, <1>6 DEF HasHappened, NotificationDraft, NotificationType, OrderTypes

LEMMA EventTypes ==
    ASSUME NEW to, NEW event \in LifecycleEvent(to)
    PROVE  /\ to \in {"CREATED", "CONFIRMED", "CANCELLED"}
           /\ OrderNotificationType(event) \in OrderTypes
           /\ to # "CREATED" => OrderNotificationType(event) \in OrderTypes \ {"ORDER_CREATED"}
           /\ to = "CREATED" => OrderNotificationType(event) = "ORDER_CREATED"
<1>1. to \in {"CREATED", "CONFIRMED", "CANCELLED"}
  BY DEF LifecycleEvent
<1>2. CASE to = "CREATED"
  <2>1. event = "OrderCreated"
    BY <1>2 DEF LifecycleEvent
  <2> QED
    BY <1>2, <2>1 DEF OrderNotificationType, OrderTypes
<1>3. CASE to = "CONFIRMED"
  <2>1. event = "OrderConfirmed"
    BY <1>3 DEF LifecycleEvent
  <2> QED
    BY <1>3, <2>1 DEF OrderNotificationType, OrderTypes
<1>4. CASE to = "CANCELLED"
  <2>1. event = "OrderCancelled"
    BY <1>4 DEF LifecycleEvent
  <2> QED
    BY <1>4, <2>1 DEF OrderNotificationType, OrderTypes
<1> QED
  BY <1>1, <1>2, <1>3, <1>4

LEMMA TransitionTellsTruth ==
    ASSUME ShopInv, LowsAreStaged, NEW r \in OrderRequests, CommitTransition(r),
           NEW d \in Unpublished(r)'
    PROVE  HasHappened(d)'
<1> DEFINE o == ord[r].order
<1>0. /\ ord \in [OrderRequests -> OrdState] /\ status \in [OrderIds -> OrderStatus]
      /\ o \in OrderIds /\ ord[r].rule \in TRANSITIONS /\ OrdInv
  BY DEF ShopInv, OrdInv, OrdTypeOK, OrderAtHand, CommitTransition, LowsAreStaged
<1>1. /\ ord'[r].low = ord[r].low /\ ord'[r].order = o /\ ord'[r].rule = ord[r].rule
      /\ status'[o] = ord[r].rule.to
  BY <1>0 DEF CommitTransition, OrdState
<1>2. d \in OrdDrafts(r)'
  BY OrdTellsNext
<1>3. CASE \E e \in ord[r].low : d = FromLowStock(e)
  <2>1. PICK e \in ord[r].low : d = FromLowStock(e)
    BY <1>3
  <2>2. e.quantity <= e.threshold /\ StagedTo(r, e.product, e.quantity) /\ e.product \in Products
    BY <1>0 DEF LowsAreStaged, CommitTransition, OrdState, LowStockEvent
  <2>3. PICK h \in Seq(Ledger!Movement), m \in Seq(Ledger!Movement) :
          /\ h = movements[e.product] /\ m = ord[r].staged[e.product]
          /\ movements'[e.product] = h \o m
    BY <1>0, <2>2, StagedType DEF CommitTransition
  <2>4. PICK i \in 1 .. Len(m) : m[i].resulting = e.quantity
    BY <2>2, <2>3 DEF StagedTo
  <2>5. Len(h) + i \in 1 .. Len(h \o m) /\ (h \o m)[Len(h) + i] = m[i]
    BY <2>4
  <2>6. Moved(e.product, e.quantity)'
    BY <2>3, <2>4, <2>5 DEF Moved
  <2> QED
    BY <2>1, <2>2, <2>6
       DEF FromLowStock, HasHappened, NotificationDraft, NotificationType, OrderTypes
<1>4. CASE \E event \in LifecycleEvent(ord[r].rule.to) : d = FromOrder(event, o)
  <2>1. PICK event \in LifecycleEvent(ord[r].rule.to) : d = FromOrder(event, o)
    BY <1>4
  <2>2. ord[r].rule.to \notin {"NONE", "CREATED"}
    BY <1>0 DEF TRANSITIONS, Rule
  <2>3. d.type \in OrderTypes \ {"ORDER_CREATED"} /\ d.entity = o
    BY <2>1, <2>2, EventTypes DEF FromOrder, NotificationDraft
  <2> QED
    BY <1>0, <1>1, <2>2, <2>3 DEF HasHappened, NotificationType, OrderTypes
<1> QED
  BY <1>1, <1>2, <1>3, <1>4 DEF OrdDrafts, FromLowStock, FromOrder, NotificationDraft

LEMMA CreationTellsTruth ==
    ASSUME ShopInv, LowsAreStaged, NEW r \in OrderRequests, NEW o \in OrderIds,
           CreateOrder(r, o), NEW d \in Unpublished(r)'
    PROVE  HasHappened(d)'
<1>0. ord \in [OrderRequests -> OrdState] /\ status \in [OrderIds -> OrderStatus]
  BY DEF ShopInv, OrdInv, OrdTypeOK
<1>1. /\ ord'[r].low = {} /\ ord'[r].order = o /\ ord'[r].rule = NoRule
      /\ status'[o] = "CREATED"
  BY <1>0 DEF CreateOrder, OrdState, LowsAreStaged
<1>2. d \in OrdDrafts(r)'
  BY OrdTellsNext
<1>3. PICK event \in LifecycleEvent("CREATED") : d = FromOrder(event, o)
  BY <1>1, <1>2 DEF OrdDrafts, NoRule, Rule, FromOrder, NotificationDraft
<1>4. d.type = "ORDER_CREATED" /\ d.entity = o
  BY <1>3, EventTypes DEF FromOrder, NotificationDraft
<1> QED
  BY <1>1, <1>4 DEF HasHappened, NotificationType, OrderTypes

LEMMA SettlementTellsTruth ==
    ASSUME ShopInv, NEW r \in PaymentRequests, CommitSuccess(r) \/ GatewayRejects(r),
           NEW d \in Unpublished(r)'
    PROVE  HasHappened(d)'
<1> DEFINE x == preq[r].payment
<1>0. /\ preq \in [PaymentRequests -> PayState] /\ pay \in [PaymentIds -> Payment]
      /\ x \in stored /\ x \in PaymentIds
  BY DEF ShopInv, PayInv, PayTypeOK, PayCallOK, Holding, CommitSuccess, GatewayRejects
<1>1. preq'[r].payment = x /\ stored' = stored
  <2>1. PayGoto(r, "publish") /\ stored' = stored
    BY CommitSuccessPays DEF ShopInv, GatewayRejects
  <2> QED
    BY <1>0, <2>1 DEF PayGoto, PayState
<1>2. pay'[x].status \in {"SUCCESS", "FAILED"}
  <2>1. pay[x] \in Payment
    BY <1>0
  <2>2. pay'[x] = [pay[x] EXCEPT !.status = "SUCCESS", !.ref = preq[r].ref]
        \/ pay'[x] = [pay[x] EXCEPT !.status = "FAILED"]
    BY <1>0, CommitSuccessPays DEF ShopInv, GatewayRejects
  <2> QED
    BY <2>1, <2>2 DEF Payment
<1>3. d = FromPayment(preq[r].payment)'
  BY PayTellsNext
<1>4. /\ d.type = IF pay'[x].status = "SUCCESS" THEN "PAYMENT_SUCCESS" ELSE "PAYMENT_FAILED"
      /\ d.entity = x
  BY <1>1, <1>3 DEF FromPayment, NotificationDraft
<1> QED
  BY <1>0, <1>1, <1>2, <1>4 DEF HasHappened, NotificationType, OrderTypes

LEMMA ToldStaysTrue ==
    ASSUME ShopInv, LowsAreStaged, ToldIsTrue, [Next]_vars
    PROVE  ToldIsTrue'
<1>1. ASSUME NEW r \in InventoryRequests, NEW d \in Unpublished(r)'
      PROVE  HasHappened(d)'
  <2>1. adj'[r].pc = "publish" /\ d \in AdjDrafts(r)'
    BY <1>1, AdjTellsNext
  <2>2. CASE adj'[r] = adj[r]
    <3>1. d \in Unpublished(r)
      BY <2>1, <2>2, AdjTells DEF AdjDrafts, FromLowStock, NotificationDraft
    <3> QED
      BY <3>1, HappenedStays DEF ToldIsTrue, Publishers
  <2> QED
    BY <1>1, <2>1, <2>2, AdjPublishes, AdjustmentTellsTruth
<1>2. ASSUME NEW r \in OrderRequests, NEW d \in Unpublished(r)'
      PROVE  HasHappened(d)'
  <2>1. ord'[r].pc = "publish" /\ d \in OrdDrafts(r)'
    BY <1>2, OrdTellsNext
  <2>2. CASE ord'[r] = ord[r]
    <3>1. d \in Unpublished(r)
      BY <2>1, <2>2, OrdTells DEF OrdDrafts, FromLowStock, FromOrder, NotificationDraft
    <3> QED
      BY <3>1, HappenedStays DEF ToldIsTrue, Publishers
  <2> QED
    BY <1>2, <2>1, <2>2, OrdPublishes, TransitionTellsTruth, CreationTellsTruth
<1>3. ASSUME NEW r \in PaymentRequests, NEW d \in Unpublished(r)'
      PROVE  HasHappened(d)'
  <2>1. preq'[r].pc = "publish" /\ d = FromPayment(preq[r].payment)'
    BY <1>3, PayTellsNext
  <2>2. CASE preq'[r] = preq[r]
    <3> DEFINE x == preq[r].payment
    <3>1. HasHappened(FromPayment(x)) /\ x \in stored
      BY <2>1, <2>2, PayTells DEF ToldIsTrue, Publishers, ShopInv, PayInv, PayCallOK
    <3>2. pay[x].status \in {"SUCCESS", "FAILED"}
      BY <3>1 DEF HasHappened, FromPayment, NotificationDraft
    <3>3. pay'[x] = pay[x]
      BY <3>1, <3>2, ShopStepKeeps DEF PayRowsKept, TERMINAL
    <3>4. d = FromPayment(x)
      BY <2>1, <2>2, <3>3 DEF FromPayment, NotificationDraft
    <3> QED
      BY <3>1, <3>4, HappenedStays
  <2> QED
    BY <1>3, <2>1, <2>2, PayPublishes, SettlementTellsTruth
<1> QED
  BY <1>1, <1>2, <1>3 DEF ToldIsTrue, Publishers

-----------------------------------------------------------------------------
(* The bus.                                                                *)

IsNotice(n) == n = [draft |-> n.draft, by |-> n.by, readBy |-> n.readBy]

BusInv ==
    /\ DOMAIN backlog = Publishers
    /\ \A n \in notices : IsNotice(n) /\ HasHappened(n.draft)
    /\ \A r \in Publishers : \A d \in backlog[r] : HasHappened(d)

TruthInv == ShopInv /\ LowsAreStaged /\ ToldIsTrue /\ BusInv

LEMMA InitTruth == ShopInit => TruthInv
<1> SUFFICES ASSUME ShopInit
             PROVE  TruthInv
  OBVIOUS
<1>1. ShopInv
  BY InitShop DEF ShopInit
<1>2. /\ \A r \in InventoryRequests : adj[r].pc = "new"
      /\ \A r \in OrderRequests : ord[r].pc = "new" /\ ord[r].low = {} /\ ord[r].rule = NoRule
      /\ \A r \in PaymentRequests : preq[r].pc = "new"
  BY DEF ShopInit, Init, OrdersInit, InvInit, AdjInit, OrdInit, PayInit
<1>3. LowsAreStaged
  BY <1>2 DEF LowsAreStaged
<1>4. ToldIsTrue
  BY <1>2, AdjTells, OrdTells, PayTells DEF ToldIsTrue, Publishers
<1>5. BusInv
  BY DEF ShopInit, NoticesInit, BusInv
<1> QED
  BY <1>1, <1>3, <1>4, <1>5 DEF TruthInv

(* Marking a notification as read keeps what it says.                      *)
LEMMA MarkingKeepsDrafts ==
    ASSUME BusInv, NEW m, Marking(m)
    PROVE  /\ \A n \in notices' : IsNotice(n) /\ \E k \in notices : n.draft = k.draft
           /\ \A n \in notices : \E k \in notices' : n.draft = k.draft
<1>1. \A n \in notices : IsNotice(ReadNow(m, n)) /\ ReadNow(m, n).draft = n.draft
  BY DEF BusInv, IsNotice, ReadNow
<1>2. CASE notices' = notices
  BY <1>2 DEF BusInv
<1>3. CASE MarkRead(m)
  BY <1>1, <1>3 DEF MarkRead, BusInv
<1>4. CASE MarkAllRead(m)
  BY <1>1, <1>4 DEF MarkAllRead, BusInv
<1> QED
  BY <1>2, <1>3, <1>4 DEF Marking, BeginMarkRead

(* What a step of the shop does to what there is to tell.                  *)
LEMMA BusMoves ==
    ASSUME BusInv, [ShopNext]_shopVars
    PROVE  /\ [Next]_vars
           /\ DOMAIN backlog' = Publishers
           /\ \A r \in Publishers : backlog'[r] \subseteq backlog[r] \cup Unpublished(r)
           /\ \A n \in notices' :
                /\ IsNotice(n)
                /\ \/ \E k \in notices : n.draft = k.draft
                   \/ \E r \in Publishers : n.draft \in backlog[r]
<1>1. CASE ShopStep
  <2>1. Next
    BY <1>1 DEF ShopStep, Next
  <2> QED
    BY <1>1, <2>1 DEF ShopStep, Bus, Published, BusInv
<1>2. ASSUME NEW r \in Publishers, NEW draft \in backlog[r], CreateFromDraft(r, draft)
      PROVE  /\ UNCHANGED vars /\ DOMAIN backlog' = Publishers
             /\ \A s \in Publishers : backlog'[s] \subseteq backlog[s]
             /\ \A n \in notices' :
                  IsNotice(n) /\ (n \in notices \/ n.draft = draft)
  BY <1>2 DEF CreateFromDraft, Handled, BusInv, IsNotice
<1>3. ASSUME NEW r \in Publishers, NEW draft \in backlog[r], HandlerFails(r, draft)
      PROVE  /\ UNCHANGED <<vars, notices>> /\ DOMAIN backlog' = Publishers
             /\ \A s \in Publishers : backlog'[s] \subseteq backlog[s]
  BY <1>3 DEF HandlerFails, Handled, BusInv
<1>4. ASSUME NEW r \in Publishers, CrashDelivery(r)
      PROVE  /\ UNCHANGED <<vars, notices>> /\ DOMAIN backlog' = Publishers
             /\ \A s \in Publishers : backlog'[s] \subseteq backlog[s]
  BY <1>4 DEF CrashDelivery, BusInv
<1>5. ASSUME NEW m \in ReadRequests, Marking(m)
      PROVE  /\ UNCHANGED <<vars, backlog>>
             /\ \A n \in notices' : IsNotice(n) /\ \E k \in notices : n.draft = k.draft
  BY <1>5, MarkingKeepsDrafts DEF Marking, BeginMarkRead, MarkRead, MarkAllRead
<1>6. CASE UNCHANGED shopVars
  BY <1>6 DEF shopVars, noticeVars, BusInv
<1>7. CASE \E r \in Publishers : Deliver(r) \/ CrashDelivery(r)
  <2>1. PICK r \in Publishers : Deliver(r) \/ CrashDelivery(r)
    BY <1>7
  <2>2. CASE \E draft \in backlog[r] : CreateFromDraft(r, draft)
    BY <1>2, <2>2
  <2>3. CASE \E draft \in backlog[r] : HandlerFails(r, draft)
    BY <1>3, <2>3 DEF BusInv
  <2>4. CASE CrashDelivery(r)
    BY <1>4, <2>4 DEF BusInv
  <2> QED
    BY <2>1, <2>2, <2>3, <2>4 DEF Deliver
<1>8. CASE \E m \in ReadRequests : Marking(m)
  BY <1>5, <1>8 DEF BusInv
<1> QED
  BY <1>1, <1>6, <1>7, <1>8 DEF ShopNext

LEMMA TruthStays == TruthInv /\ [ShopNext]_shopVars => TruthInv'
<1> SUFFICES ASSUME TruthInv, [ShopNext]_shopVars
             PROVE  TruthInv'
  OBVIOUS
<1>0. ShopInv /\ LowsAreStaged /\ ToldIsTrue /\ BusInv
  BY DEF TruthInv
<1>1. [Next]_vars
  BY <1>0, BusMoves
<1>2. ShopInv' /\ LowsAreStaged' /\ ToldIsTrue'
  BY <1>0, <1>1, ShopStepKeeps, LowsStayStaged, ToldStaysTrue
<1>3. \A d : HasHappened(d) => HasHappened(d)'
  BY <1>0, <1>1, HappenedStays
<1>4. BusInv'
  <2>1. \A r \in Publishers : \A d \in backlog'[r] : HasHappened(d)
    BY <1>0, BusMoves DEF BusInv, ToldIsTrue
  <2>2. \A n \in notices' : IsNotice(n) /\ HasHappened(n.draft)
    BY <1>0, BusMoves DEF BusInv
  <2>3. DOMAIN backlog' = Publishers
    BY <1>0, BusMoves
  <2> QED
    BY <1>3, <2>1, <2>2, <2>3 DEF BusInv
<1> QED
  BY <1>2, <1>4 DEF TruthInv

THEOREM TruthAlways == ShopSpec => []TruthInv
BY InitTruth, TruthStays, PTL DEF ShopSpec

(* What a notification says has happened, however the threads interleave,  *)
(* fail and crash: listeners run after the commit, and nothing that is     *)
(* committed is undone.                                                    *)
THEOREM NotificationsTellTruth == ShopSpec => []NotificationsAreTrue
<1>1. TruthInv => NotificationsAreTrue
  <2> SUFFICES ASSUME TruthInv, NEW n \in notices, NEW d, d = n.draft
               PROVE  /\ d.type = "LOW_STOCK" => d.left <= d.limit /\ Moved(d.entity, d.left)
                      /\ d.type = "ORDER_CREATED" => status[d.entity] # "NONE"
                      /\ d.type \in {"ORDER_CONFIRMED", "ORDER_CANCELLED"} =>
                           status[d.entity] \in HoldingStates \cup {"CANCELLED"}
                      /\ d.type = "PAYMENT_SUCCESS" => Succeeded(d.entity)
                      /\ d.type = "PAYMENT_FAILED" => pay[d.entity].status = "FAILED"
    BY DEF NotificationsAreTrue, Moved
  <2>1. HasHappened(d) /\ status \in [OrderIds -> OrderStatus]
    BY DEF TruthInv, BusInv, ShopInv, OrdInv, OrdTypeOK
  <2> QED
    BY <2>1 DEF HasHappened, OrderTypes, OrderStatus, Succeeded
<1> QED
  BY <1>1, TruthAlways, PTL

-----------------------------------------------------------------------------
(* Nothing is forgotten.                                                   *)

(* A thread keeps what it has to tell until it tells it or dies, whatever  *)
(* the others do meanwhile.                                                *)
LEMMA ThreadsRemember ==
    ASSUME ShopInv, ToldIsTrue, [Next]_vars, NEW r \in Publishers, NEW d \in Unpublished(r)
    PROVE  d \in Unpublished(r)' \/ Label(r)' \in {"done", "crashed"}
<1>1. CASE r \in InventoryRequests
  <2>1. adj[r].pc = "publish" /\ d \in AdjDrafts(r)
    BY <1>1, AdjTells
  <2>2. CASE adj'[r] = adj[r]
    BY <1>1, <2>1, <2>2, AdjTellsNext DEF AdjDrafts, FromLowStock, NotificationDraft
  <2> QED
    BY <1>1, <2>1, <2>2, AdjPublishes, AdjTellsNext
<1>2. CASE r \in OrderRequests
  <2>1. ord[r].pc = "publish" /\ d \in OrdDrafts(r)
    BY <1>2, OrdTells
  <2>2. CASE ord'[r] = ord[r]
    BY <1>2, <2>1, <2>2, OrdTellsNext DEF OrdDrafts, FromLowStock, FromOrder, NotificationDraft
  <2> QED
    BY <1>2, <2>1, <2>2, OrdPublishes, OrdTellsNext
<1>3. CASE r \in PaymentRequests
  <2> DEFINE x == preq[r].payment
  <2>1. preq[r].pc = "publish" /\ d = FromPayment(x) /\ x \in stored
    BY <1>3, PayTells DEF ShopInv, PayInv, PayCallOK
  <2>2. pay[x].status \in {"SUCCESS", "FAILED"}
    <3>1. HasHappened(FromPayment(x))
      BY <2>1 DEF ToldIsTrue
    <3> QED
      BY <3>1 DEF HasHappened, FromPayment, NotificationDraft
  <2>3. pay'[x] = pay[x]
    BY <2>1, <2>2, ShopStepKeeps DEF PayRowsKept, TERMINAL
  <2>4. CASE preq'[r] = preq[r]
    BY <1>3, <2>1, <2>3, <2>4, PayTellsNext DEF FromPayment, NotificationDraft
  <2> QED
    BY <1>3, <2>1, <2>4, PayPublishes, PayTellsNext
<1> QED
  BY <1>1, <1>2, <1>3 DEF Publishers

LEMMA DueStays ==
    ASSUME TruthInv, [ShopNext]_shopVars, NEW r \in Publishers,
           NEW d \in Unpublished(r) \cup backlog[r]
    PROVE  \/ d \in Unpublished(r)' \cup backlog'[r]
           \/ LostBy(r, {d}) \subseteq lost'
           \/ \E n \in notices' : DedupKey(n.draft) = DedupKey(d)
<1>0. ShopInv /\ ToldIsTrue /\ DOMAIN backlog = Publishers
  BY DEF TruthInv, BusInv
<1>1. CASE ShopStep
  <2>1. [Next]_vars
    BY <1>1 DEF ShopStep, Next
  <2>2. CASE d \in backlog[r]
    BY <1>1, <2>2 DEF ShopStep, Bus
  <2>3. CASE d \in Unpublished(r)
    <3>1. CASE Label(r)' = "done"
      BY <1>1, <2>3, <3>1 DEF ShopStep, Bus, Published
    <3>2. CASE Label(r)' = "crashed"
      <4>1. LostBy(r, Dropped(r)) \subseteq lost'
        BY <1>1 DEF ShopStep, Bus
      <4> QED
        BY <2>3, <3>2, <4>1 DEF Dropped, LostBy
    <3> QED
      BY <1>0, <2>1, <2>3, <3>1, <3>2, ThreadsRemember
  <2> QED
    BY <2>2, <2>3
<1>2. ASSUME UNCHANGED vars
      PROVE  Unpublished(r)' = Unpublished(r)
  <2>1. adj' = adj /\ ord' = ord /\ preq' = preq /\ pay' = pay
    BY <1>2 DEF vars, ordersVars, invVars, ordVars, payVars, payTables
  <2>2. CASE r \in InventoryRequests
    BY <2>1, <2>2, AdjTells, AdjTellsNext DEF AdjDrafts, FromLowStock, NotificationDraft
  <2>3. CASE r \in OrderRequests
    BY <2>1, <2>3, OrdTells, OrdTellsNext
       DEF OrdDrafts, FromLowStock, FromOrder, NotificationDraft
  <2>4. CASE r \in PaymentRequests
    BY <2>1, <2>4, PayTells, PayTellsNext DEF FromPayment, NotificationDraft
  <2> QED
    BY <2>2, <2>3, <2>4 DEF Publishers
<1>3. ASSUME NEW s \in Publishers, NEW draft \in backlog[s], CreateFromDraft(s, draft)
      PROVE  \/ d \in Unpublished(r)' \cup backlog'[r]
             \/ \E n \in notices' : DedupKey(n.draft) = DedupKey(d)
  <2>1. CASE d = draft
    <3>1. CASE Recorded(draft)
      BY <1>3, <2>1, <3>1 DEF CreateFromDraft, Recorded
    <3>2. CASE ~Recorded(draft)
      <4>1. [draft |-> draft, by |-> s, readBy |-> NoRequest] \in notices'
        BY <1>3, <3>2 DEF CreateFromDraft
      <4> QED
        BY <2>1, <4>1
    <3> QED
      BY <3>1, <3>2
  <2>2. CASE d # draft
    BY <1>0, <1>2, <1>3, <2>2 DEF CreateFromDraft, Handled
  <2> QED
    BY <2>1, <2>2
<1>4. ASSUME NEW s \in Publishers, NEW draft \in backlog[s], HandlerFails(s, draft)
      PROVE  d \in Unpublished(r)' \cup backlog'[r] \/ LostBy(r, {d}) \subseteq lost'
  BY <1>0, <1>2, <1>4 DEF HandlerFails, Handled, LostBy
<1>5. ASSUME NEW s \in Publishers, CrashDelivery(s)
      PROVE  d \in Unpublished(r)' \cup backlog'[r] \/ LostBy(r, {d}) \subseteq lost'
  BY <1>0, <1>2, <1>5 DEF CrashDelivery, LostBy
<1>6. ASSUME NEW m \in ReadRequests, Marking(m)
      PROVE  d \in Unpublished(r)' \cup backlog'[r]
  BY <1>2, <1>6 DEF Marking, BeginMarkRead, MarkRead, MarkAllRead
<1>7. ASSUME UNCHANGED shopVars
      PROVE  d \in Unpublished(r)' \cup backlog'[r]
  BY <1>2, <1>7 DEF shopVars, noticeVars
<1> QED
  BY <1>1, <1>3, <1>4, <1>5, <1>6, <1>7 DEF ShopNext, Deliver

LEMMA ToldStaysTold ==
    ASSUME TruthInv, [ShopNext]_shopVars, NEW n \in notices
    PROVE  \E k \in notices' : k.draft = n.draft
<1>1. CASE \E m \in ReadRequests : Marking(m)
  BY <1>1, MarkingKeepsDrafts DEF TruthInv
<1>2. CASE ~\E m \in ReadRequests : Marking(m)
  <2>1. notices \subseteq notices'
    BY <1>2 DEF ShopNext, ShopStep, Bus, Deliver, CreateFromDraft, HandlerFails, CrashDelivery,
                shopVars, noticeVars
  <2> QED
    BY <2>1
<1> QED
  BY <1>1, <1>2

(* No event of a committed change vanishes: its thread keeps it until      *)
(* somebody is notified of it, or a crash or a failed write swallows this  *)
(* very event, and what has been told stays told.                          *)
THEOREM NothingVanishes == ShopSpec => NoEventVanishes
<1>1. TruthInv /\ [ShopNext]_shopVars =>
        [/\ \A r \in Publishers : \A d \in Unpublished(r) \cup backlog[r] :
              \/ d \in (Unpublished(r) \cup backlog[r])'
              \/ DedupKey(d) \in Told'
              \/ LostBy(r, {d}) \subseteq lost'
         /\ Told \subseteq Told']_shopVars
  <2> SUFFICES ASSUME TruthInv, [ShopNext]_shopVars
               PROVE  /\ \A r \in Publishers : \A d \in Unpublished(r) \cup backlog[r] :
                           \/ d \in Unpublished(r)' \cup backlog'[r]
                           \/ DedupKey(d) \in Told'
                           \/ LostBy(r, {d}) \subseteq lost'
                      /\ Told \subseteq Told'
    OBVIOUS
  <2>1. ASSUME NEW n \in notices'
        PROVE  DedupKey(n.draft) \in Told'
    BY DEF Told
  <2>2. Told \subseteq Told'
    BY <2>1, ToldStaysTold DEF Told
  <2>3. ASSUME NEW r \in Publishers, NEW d \in Unpublished(r) \cup backlog[r]
        PROVE  \/ d \in Unpublished(r)' \cup backlog'[r]
               \/ DedupKey(d) \in Told'
               \/ LostBy(r, {d}) \subseteq lost'
    <3>1. CASE \E n \in notices' : DedupKey(n.draft) = DedupKey(d)
      BY <2>1, <3>1
    <3>2. CASE ~\E n \in notices' : DedupKey(n.draft) = DedupKey(d)
      BY <3>2, DueStays
    <3> QED
      BY <3>1, <3>2
  <2> QED
    BY <2>2, <2>3
<1> QED
  BY <1>1, TruthAlways, PTL DEF ShopSpec, NoEventVanishes
=============================================================================
