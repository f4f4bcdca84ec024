-------------------------- MODULE Inventory_proofs --------------------------
(***************************************************************************)
(* Proofs about the inventory module, for any set of products and any      *)
(* number of concurrent requests.                                          *)
(***************************************************************************)
EXTENDS Inventory, TLAPS, FiniteSetTheorems, WellFoundedInduction

-----------------------------------------------------------------------------
(* Natural numbers.                                                        *)

(* Every set of natural numbers has a least element: the intervals below   *)
(* its members are finite sets, and inclusion is well-founded on those.    *)
LEMMA LeastNat ==
    ASSUME NEW T \in SUBSET Nat, T # {}
    PROVE  \E x \in T : \A y \in T : x <= y
<1> DEFINE R == StrictSubsetOrdering(Nat)
           S == FiniteSubsetsOf(Nat)
           U == {1 .. n : n \in T}
<1>1. IsWellFoundedOn(R, S)
  BY FS_StrictSubsetOrderingWellFounded
<1>2. U \subseteq S
  BY FS_Interval DEF FiniteSubsetsOf
<1>3. U # {}
  OBVIOUS
<1> HIDE DEF R, S, U
<1>4. \E u \in U : \A v \in U : <<v, u>> \notin R
  BY <1>1, <1>2, <1>3, WFMin
<1>5. PICK x \in T : \A v \in U : <<v, 1 .. x>> \notin R
  BY <1>4 DEF U
<1>6. ASSUME NEW y \in T, y < x
      PROVE  FALSE
  <2>1. 1 .. y \in U
    BY DEF U
  <2>2. 1 .. y \subseteq 1 .. x /\ 1 .. y # 1 .. x
    <3>1. x \in 1 .. x /\ x \notin 1 .. y
      BY <1>6
    <3> QED
      BY <3>1, <1>6
  <2>3. 1 .. y \in SUBSET Nat /\ 1 .. x \in SUBSET Nat
    OBVIOUS
  <2>4. <<1 .. y, 1 .. x>> \in R
    BY <2>2, <2>3 DEF R, StrictSubsetOrdering
  <2> QED
    BY <1>5, <2>1, <2>4
<1> QED
  BY <1>6

(* Induction, with a set for the property.                                 *)
LEMMA SetInduction ==
    ASSUME NEW S, 0 \in S, \A n \in Nat : n \in S => n + 1 \in S
    PROVE  Nat \subseteq S
<1> SUFFICES ASSUME Nat \ S # {}
             PROVE  FALSE
  OBVIOUS
<1>1. PICK x \in Nat \ S : \A y \in Nat \ S : x <= y
  BY LeastNat
<1>2. x # 0 /\ x - 1 \in Nat /\ x - 1 \notin Nat \ S
  BY <1>1
<1> QED
  BY <1>2

USE DEF InventoryRequests, Finished, InStock, RunsLow

-----------------------------------------------------------------------------
(* Runs of movements.                                                      *)

(* One movement appended to a chained history keeps it chained exactly     *)
(* when it starts from where the history ended.                            *)
LEMMA AppendChained ==
    ASSUME NEW q \in Int, NEW m \in Seq(Ledger!Movement), NEW e \in Ledger!Movement,
           Ledger!Chained(q, m, 1), e.resulting = Ledger!After(q, m) + e.delta
    PROVE  /\ Ledger!Chained(q, Append(m, e), 1)
           /\ Ledger!Chained(q, Append(m, e), Len(m) + 1)
           /\ Ledger!After(q, Append(m, e)) = e.resulting
           /\ Ledger!Extends(m, Append(m, e))
<1> DEFINE n == Append(m, e)
<1>1. /\ n \in Seq(Ledger!Movement)
      /\ Len(n) = Len(m) + 1
      /\ n # <<>>
      /\ n[Len(m) + 1] = e
      /\ \A i \in 1 .. Len(m) : n[i] = m[i]
  OBVIOUS
<1>2. n[Len(n)].resulting = Ledger!Before(q, n, Len(n)) + n[Len(n)].delta
  BY <1>1 DEF Ledger!Before, Ledger!After
<1>3. Ledger!Chained(q, n, 1)
  <2> SUFFICES ASSUME NEW i \in 1 .. Len(n)
               PROVE  n[i].resulting = Ledger!Before(q, n, i) + n[i].delta
    BY DEF Ledger!Chained
  <2>1. CASE i = Len(n)
    BY <2>1, <1>2
  <2>2. CASE i # Len(n)
    <3>1. i \in 1 .. Len(m) /\ n[i] = m[i] /\ (i # 1 => n[i - 1] = m[i - 1])
      BY <2>2, <1>1
    <3> QED
      BY <3>1 DEF Ledger!Chained, Ledger!Before
  <2> QED
    BY <2>1, <2>2
<1>4. Ledger!Chained(q, n, Len(m) + 1)
  BY <1>3, <1>1 DEF Ledger!Chained
<1>5. Ledger!After(q, n) = e.resulting
  BY <1>1 DEF Ledger!After
<1>6. Ledger!Extends(m, n)
  BY <1>1 DEF Ledger!Extends
<1> QED
  BY <1>3, <1>4, <1>5, <1>6

(* A row never leaves the range of its quantity by what its movements say. *)
LEMMA AfterType ==
    ASSUME NEW q \in Ledger!Quantity, NEW m \in Seq(Ledger!Movement)
    PROVE  Ledger!After(q, m) \in Ledger!Quantity
<1>1. CASE m = <<>>
  BY <1>1 DEF Ledger!After
<1>2. CASE m # <<>>
  <2>1. Len(m) \in 1 .. Len(m)
    BY <1>2
  <2>2. m[Len(m)] \in Ledger!Movement
    BY <2>1
  <2> QED
    BY <1>2, <2>2 DEF Ledger!After, Ledger!Movement
<1> QED
  BY <1>1, <1>2

(* A history that extends a chained one and is chained from there on is    *)
(* chained throughout.                                                     *)
LEMMA ExtendsChained ==
    ASSUME NEW q \in Int, NEW h \in Seq(Ledger!Movement), NEW m \in Seq(Ledger!Movement),
           Ledger!Chained(q, h, 1), Ledger!Extends(h, m), Ledger!Chained(q, m, Len(h) + 1)
    PROVE  Ledger!Chained(q, m, 1)
<1> SUFFICES ASSUME NEW i \in 1 .. Len(m)
             PROVE  m[i].resulting = Ledger!Before(q, m, i) + m[i].delta
  BY DEF Ledger!Chained
<1>1. CASE i <= Len(h)
  <2>1. i \in 1 .. Len(h) /\ m[i] = h[i] /\ (i # 1 => m[i - 1] = h[i - 1])
    BY <1>1 DEF Ledger!Extends
  <2> QED
    BY <2>1 DEF Ledger!Chained, Ledger!Before
<1>2. CASE i > Len(h)
  BY <1>2 DEF Ledger!Chained
<1> QED
  BY <1>1, <1>2

(* A transaction that posts a run m of movements to a row with history h.  *)
LEMMA JoinedMovements ==
    ASSUME NEW q, NEW h \in Seq(Ledger!Movement), NEW m \in Seq(Ledger!Movement),
           Ledger!Chained(Ledger!After(q, h), m, 1)
    PROVE  /\ Ledger!Extends(h, h \o m)
           /\ Ledger!Chained(q, h \o m, Len(h) + 1)
           /\ Ledger!After(q, h \o m) = Ledger!After(Ledger!After(q, h), m)
           /\ h \o m # h => m # <<>>
<1>1. /\ h \o m \in Seq(Ledger!Movement) /\ Len(h \o m) = Len(h) + Len(m)
      /\ \A i \in 1 .. Len(h) : (h \o m)[i] = h[i]
      /\ \A i \in 1 .. Len(m) : (h \o m)[Len(h) + i] = m[i]
      /\ Len(h) \in Nat /\ Len(m) \in Nat
  OBVIOUS
<1>2. Ledger!Extends(h, h \o m)
  BY <1>1 DEF Ledger!Extends
<1>3. ASSUME NEW i \in Len(h) + 1 .. Len(h \o m)
      PROVE  (h \o m)[i].resulting = Ledger!Before(q, h \o m, i) + (h \o m)[i].delta
  <2> DEFINE j == i - Len(h)
  <2>1. j \in 1 .. Len(m) /\ (h \o m)[i] = m[j]
    BY <1>1
  <2>2. m[j].resulting = Ledger!Before(Ledger!After(q, h), m, j) + m[j].delta
    BY <2>1 DEF Ledger!Chained
  <2>3. Ledger!Before(q, h \o m, i) = Ledger!Before(Ledger!After(q, h), m, j)
    <3>1. CASE j # 1
      <4>1. j - 1 \in 1 .. Len(m) /\ Len(h) + (j - 1) = i - 1 /\ i # 1
        BY <1>1, <2>1, <3>1
      <4>2. (h \o m)[i - 1] = m[j - 1]
        BY <1>1, <4>1
      <4> QED
        BY <3>1, <4>1, <4>2 DEF Ledger!Before
    <3>2. CASE j = 1 /\ h = <<>>
      <4>1. i = 1
        BY <3>2
      <4> QED
        BY <3>2, <4>1 DEF Ledger!Before, Ledger!After
    <3>3. CASE j = 1 /\ h # <<>>
      <4>1. Len(h) \in 1 .. Len(h) /\ i - 1 = Len(h) /\ i # 1
        BY <1>1, <3>3
      <4> QED
        BY <1>1, <3>3, <4>1 DEF Ledger!Before, Ledger!After
    <3> QED
      BY <3>1, <3>2, <3>3
  <2> QED
    BY <2>1, <2>2, <2>3
<1>4. Ledger!Chained(q, h \o m, Len(h) + 1)
  BY <1>3 DEF Ledger!Chained
<1>5. Ledger!After(q, h \o m) = Ledger!After(Ledger!After(q, h), m)
  <2>1. CASE m = <<>>
    <3>1. h \o m = h
      BY <2>1
    <3> QED
      BY <2>1, <3>1 DEF Ledger!After
  <2>2. CASE m # <<>>
    <3>1. Len(m) \in 1 .. Len(m) /\ h \o m # <<>>
      BY <1>1, <2>2
    <3>2. (h \o m)[Len(h) + Len(m)] = m[Len(m)]
      BY <1>1, <3>1
    <3> QED
      BY <1>1, <2>2, <3>1, <3>2 DEF Ledger!After
  <2> QED
    BY <2>1, <2>2
<1>6. h \o m # h => m # <<>>
  OBVIOUS
<1> QED
  BY <1>2, <1>4, <1>5, <1>6

-----------------------------------------------------------------------------
(* Types.                                                                  *)

LEMMA InitTypeOK == InvInit => InvTypeOK
<1> SUFFICES ASSUME InvInit PROVE InvTypeOK
  OBVIOUS
<1>1. /\ rows \subseteq Products
      /\ quantity \in [Products -> Quantity]
      /\ threshold \in [Products -> Quantity]
      /\ opening \in [Products -> Quantity]
  BY InventoryAssumption DEF InvInit, StockInit
<1>2. movements \in [Products -> Seq(Ledger!Movement)]
  BY DEF InvInit, StockInit
<1>3. rowLock \in [Products -> Requests \cup {NoRequest}] /\ lowStock \subseteq LowStockEvent
  BY DEF InvInit, StockInit, AdjInit
<1>4. AdjTypeOK
  BY InventoryAssumption DEF InvInit, AdjInit, AdjState, Quantity, AdjTypeOK
<1> QED
  BY <1>1, <1>2, <1>3, <1>4 DEF InvTypeOK, StockTypeOK

LEMMA ReleasedType ==
    ASSUME StockTypeOK, NEW r
    PROVE  Released(r) \in [Products -> Requests \cup {NoRequest}]
BY DEF StockTypeOK, Released

(* A request that writes a well-typed record in which it is not about to   *)
(* set a threshold keeps the type of adj.                                  *)
LEMMA WriteAdj ==
    ASSUME AdjTypeOK, NEW r \in InventoryRequests, NEW a \in AdjState,
           a.pc = "set_threshold" => a.arg \in Quantity,
           adj' = [adj EXCEPT ![r] = a]
    PROVE  AdjTypeOK'
BY DEF AdjTypeOK

LEMMA GotoType ==
    ASSUME AdjTypeOK, NEW r \in InventoryRequests,
           NEW label \in {"done", "failed", "crashed", "apply"}, Goto(r, label)
    PROVE  AdjTypeOK'
<1>1. adj[r] \in AdjState
  BY DEF AdjTypeOK
<1>2. [adj[r] EXCEPT !.pc = label] \in AdjState
  BY <1>1 DEF AdjState
<1>3. [adj[r] EXCEPT !.pc = label].pc # "set_threshold"
  BY <1>1 DEF AdjState
<1>4. adj' = [adj EXCEPT ![r] = [adj[r] EXCEPT !.pc = label]]
  BY DEF Goto
<1> QED
  BY <1>2, <1>3, <1>4, WriteAdj

LEMMA AdjNextTypeOK == InvTypeOK /\ AdjNext => InvTypeOK'
<1> SUFFICES ASSUME StockTypeOK, AdjTypeOK, NEW r \in InventoryRequests,
                    BeginAdj(r) \/ ContinueAdj(r) \/ CrashAdj(r)
             PROVE  StockTypeOK' /\ AdjTypeOK'
  BY DEF AdjNext, InvTypeOK
<1> DEFINE p0 == adj[r].product
<1>0. adj[r] \in AdjState /\ p0 \in Products
  BY DEF AdjTypeOK, AdjState
<1>1. ASSUME NEW p \in Products, NEW q \in Quantities, NEW t \in Thresholds,
             BeginCreate(r, p, q, t)
      PROVE  StockTypeOK' /\ AdjTypeOK'
  <2> DEFINE a == [pc |-> IF p \in rows THEN "failed" ELSE "insert",
                   product |-> p, arg |-> 0, q |-> q, t |-> t]
  <2>1. a \in AdjState /\ a.pc # "set_threshold"
    BY InventoryAssumption DEF AdjState
  <2>2. AdjTypeOK'
    BY <1>1, <2>1, WriteAdj DEF BeginCreate
  <2> QED
    BY <1>1, <2>2 DEF BeginCreate, StockTypeOK, stockVars
<1>2. CASE InsertRow(r)
  <2>1. AdjTypeOK'
    BY <1>2, GotoType DEF InsertRow
  <2>2. adj[r].q \in Quantity /\ adj[r].t \in Quantity
    BY <1>0 DEF AdjState
  <2> QED
    BY <1>0, <1>2, <2>1, <2>2 DEF InsertRow, StockTypeOK
<1>3. ASSUME NEW p \in Products, NEW t \in Thresholds, BeginThreshold(r, p, t)
      PROVE  StockTypeOK' /\ AdjTypeOK'
  <2> DEFINE a == [pc |-> IF p \in rows THEN "set_threshold" ELSE "failed",
                   product |-> p, arg |-> t, q |-> quantity[p], t |-> threshold[p]]
  <2>1. a \in AdjState /\ a.arg \in Quantity
    BY InventoryAssumption DEF AdjState, StockTypeOK, Quantity
  <2>2. AdjTypeOK'
    BY <1>3, <2>1, WriteAdj DEF BeginThreshold
  <2> QED
    BY <1>3, <2>2 DEF BeginThreshold, StockTypeOK, stockVars
<1>4. CASE SetThreshold(r)
  <2>1. AdjTypeOK'
    BY <1>4, GotoType DEF SetThreshold
  <2>2. adj[r].arg \in Quantity
    BY <1>4 DEF SetThreshold, AdjTypeOK
  <2>3. threshold' \in [Products -> Quantity]
    BY <1>0, <1>4, <2>2 DEF SetThreshold, StockTypeOK
  <2> QED
    BY <1>4, <2>1, <2>3 DEF SetThreshold, StockTypeOK
<1>5. ASSUME NEW p \in Products, NEW d \in Deltas, BeginAdjust(r, p, d)
      PROVE  StockTypeOK' /\ AdjTypeOK'
  <2> DEFINE a == [pc |-> IF d = 0 THEN "failed" ELSE "lock",
                   product |-> p, arg |-> d, q |-> 0, t |-> 0]
  <2>1. a \in AdjState /\ a.pc # "set_threshold"
    BY InventoryAssumption DEF AdjState, Quantity
  <2>2. AdjTypeOK'
    BY <1>5, <2>1, WriteAdj DEF BeginAdjust
  <2> QED
    BY <1>5, <2>2 DEF BeginAdjust, StockTypeOK, stockVars
<1>6. ASSUME NEW p \in Products, NEW d \in Deltas, BeginAdjustByProduct(r, p, d)
      PROVE  StockTypeOK' /\ AdjTypeOK'
  <2> DEFINE a == [pc |-> IF p \in rows /\ d # 0 THEN "lock_held" ELSE "failed",
                   product |-> p, arg |-> d, q |-> quantity[p], t |-> threshold[p]]
  <2>1. a \in AdjState /\ a.pc # "set_threshold"
    BY InventoryAssumption DEF AdjState, StockTypeOK
  <2>2. AdjTypeOK'
    BY <1>6, <2>1, WriteAdj DEF BeginAdjustByProduct
  <2> QED
    BY <1>6, <2>2 DEF BeginAdjustByProduct, StockTypeOK, stockVars
<1>7. CASE LockRow(r)
  <2> DEFINE a == [adj[r] EXCEPT !.pc = "apply", !.q = quantity[p0], !.t = threshold[p0]]
  <2>1. a \in AdjState /\ a.pc # "set_threshold"
    BY <1>0 DEF AdjState, StockTypeOK
  <2>2. AdjTypeOK'
    <3>1. CASE p0 \in rows
      BY <1>7, <2>1, <3>1, WriteAdj DEF LockRow
    <3>2. CASE p0 \notin rows
      BY <1>7, <3>2, GotoType DEF LockRow
    <3> QED
      BY <3>1, <3>2
  <2>3. rowLock' \in [Products -> Requests \cup {NoRequest}]
    BY <1>0, <1>7 DEF LockRow, StockTypeOK, Requests
  <2> QED
    BY <1>7, <2>2, <2>3 DEF LockRow, StockTypeOK
<1>8. CASE LockHeldRow(r)
  <2>1. AdjTypeOK'
    BY <1>8, GotoType DEF LockHeldRow
  <2>2. rowLock' \in [Products -> Requests \cup {NoRequest}]
    BY <1>0, <1>8 DEF LockHeldRow, StockTypeOK, Requests
  <2> QED
    BY <1>8, <2>1, <2>2 DEF LockHeldRow, StockTypeOK
<1>9. CASE ApplyAdjustment(r)
  <2> DEFINE new == adj[r].q + adj[r].arg
             e == [delta |-> adj[r].arg, resulting |-> new]
             a == [adj[r] EXCEPT !.pc = IF new <= adj[r].t THEN "publish" ELSE "done",
                                 !.q = new]
  <2>1. rowLock' \in [Products -> Requests \cup {NoRequest}]
    BY <1>9, ReleasedType DEF ApplyAdjustment, CommitAdjustment, RefuseAdjustment
  <2>2. CASE new \in Quantity
    <3>1. a \in AdjState /\ a.pc # "set_threshold"
      BY <1>0, <2>2 DEF AdjState
    <3>2. AdjTypeOK'
      BY <1>9, <2>2, <3>1, WriteAdj DEF ApplyAdjustment, CommitAdjustment, RefuseAdjustment
    <3>3. e \in Ledger!Movement
      BY <1>0, <2>2 DEF AdjState, Ledger!Movement, Ledger!Quantity, Quantity
    <3>4. movements[p0] \in Seq(Ledger!Movement)
      BY <1>0 DEF StockTypeOK
    <3>5. Append(movements[p0], e) \in Seq(Ledger!Movement)
      BY <3>3, <3>4
    <3>6. movements' = [movements EXCEPT ![p0] = Append(movements[p0], e)]
      BY <1>9, <2>2 DEF ApplyAdjustment, CommitAdjustment, RefuseAdjustment
    <3>7. movements' \in [Products -> Seq(Ledger!Movement)]
      BY <1>0, <3>5, <3>6 DEF StockTypeOK
    <3>8. quantity' \in [Products -> Quantity]
      BY <1>0, <1>9, <2>2 DEF ApplyAdjustment, CommitAdjustment, RefuseAdjustment, StockTypeOK
    <3> QED
      BY <1>9, <2>1, <3>2, <3>7, <3>8 DEF ApplyAdjustment, CommitAdjustment, RefuseAdjustment, StockTypeOK
  <2>3. CASE new \notin Quantity
    <3>1. AdjTypeOK'
      BY <1>9, <2>3, GotoType DEF ApplyAdjustment, CommitAdjustment, RefuseAdjustment
    <3> QED
      BY <1>9, <2>1, <2>3, <3>1 DEF ApplyAdjustment, CommitAdjustment, RefuseAdjustment, StockTypeOK
  <2> QED
    BY <2>2, <2>3
<1>10. CASE PublishLowStock(r)
  <2>1. AdjTypeOK'
    BY <1>10, GotoType DEF PublishLowStock
  <2>2. [product |-> p0, quantity |-> adj[r].q, threshold |-> adj[r].t] \in LowStockEvent
    BY <1>0 DEF LowStockEvent, AdjState
  <2> QED
    BY <1>10, <2>1, <2>2 DEF PublishLowStock, StockTypeOK, stockVars
<1>11. CASE CrashAdj(r)
  <2>1. AdjTypeOK'
    BY <1>11, GotoType DEF CrashAdj
  <2> QED
    BY <1>11, <2>1, ReleasedType DEF CrashAdj, StockTypeOK
<1> QED
  BY <1>1, <1>2, <1>3, <1>4, <1>5, <1>6, <1>7, <1>8, <1>9, <1>10, <1>11
     DEF BeginAdj, ContinueAdj

(* Every variable keeps its type; the quantity stays within 0 and the      *)
(* column's maximum.                                                       *)
THEOREM TypeCorrect == InvSpec => []InvTypeOK
<1>1. InvTypeOK /\ UNCHANGED invVars => InvTypeOK'
  BY DEF InvTypeOK, StockTypeOK, AdjTypeOK, invVars, stockVars
<1>2. InvTypeOK /\ [InvNext]_invVars => InvTypeOK'
  BY <1>1, AdjNextTypeOK DEF InvNext
<1> QED
  BY InitTypeOK, <1>2, PTL DEF InvSpec
-----------------------------------------------------------------------------
(* Row locks.                                                              *)

LEMMA InitLock == InvInit => LockDiscipline
BY InventoryAssumption DEF InvInit, AdjInit, StockInit, LockDiscipline, Requests

(* A step of r that neither enters nor leaves the locked section and takes *)
(* no lock.                                                                *)
LEMMA LockUntouched ==
    ASSUME AdjTypeOK, LockDiscipline, NEW r \in InventoryRequests, NEW a \in AdjState,
           adj' = [adj EXCEPT ![r] = a], UNCHANGED rowLock,
           adj[r].pc # "apply", a.pc # "apply"
    PROVE  LockDiscipline'
BY DEF LockDiscipline, AdjTypeOK

(* A step of r that frees r's locks and leaves the section.                *)
LEMMA LockReleased ==
    ASSUME StockTypeOK, AdjTypeOK, LockDiscipline, NEW r \in InventoryRequests,
           NEW a \in AdjState, adj' = [adj EXCEPT ![r] = a],
           rowLock' = Released(r), a.pc # "apply"
    PROVE  LockDiscipline'
<1>1. ASSUME NEW x \in InventoryRequests, adj'[x].pc = "apply"
      PROVE  rowLock'[adj'[x].product] = x
  <2>1. x # r /\ adj'[x] = adj[x]
    BY <1>1 DEF AdjTypeOK
  <2>2. adj[x].product \in Products
    BY DEF AdjTypeOK, AdjState
  <2> QED
    BY <1>1, <2>1, <2>2 DEF LockDiscipline, Released
<1>2. ASSUME NEW p \in Products, rowLock'[p] \in InventoryRequests
      PROVE  adj'[rowLock'[p]].pc = "apply" /\ adj'[rowLock'[p]].product = p
  <2>1. rowLock'[p] = rowLock[p] /\ rowLock[p] # r
    BY <1>2, InventoryAssumption DEF Released, Requests
  <2> QED
    BY <1>2, <2>1 DEF LockDiscipline, AdjTypeOK
<1> QED
  BY <1>1, <1>2 DEF LockDiscipline

(* A step of r that takes the free row of its product and enters.          *)
LEMMA LockTaken ==
    ASSUME StockTypeOK, AdjTypeOK, LockDiscipline, NEW r \in InventoryRequests,
           NEW a \in AdjState, adj' = [adj EXCEPT ![r] = a],
           a.pc = "apply", a.product = adj[r].product, adj[r].pc # "apply",
           Unlocked(adj[r].product),
           rowLock' = [rowLock EXCEPT ![adj[r].product] = r]
    PROVE  LockDiscipline'
<1>0. adj[r].product \in Products
  BY DEF AdjTypeOK, AdjState
<1>1. ASSUME NEW x \in InventoryRequests, adj'[x].pc = "apply"
      PROVE  rowLock'[adj'[x].product] = x
  <2>1. CASE x = r
    BY <1>0, <2>1 DEF AdjTypeOK, StockTypeOK
  <2>2. CASE x # r
    <3>1. adj'[x] = adj[x] /\ rowLock[adj[x].product] = x
      BY <1>1, <2>2 DEF AdjTypeOK, LockDiscipline
    <3>2. adj[x].product # adj[r].product
      BY <3>1, InventoryAssumption DEF Unlocked, Requests
    <3>3. adj[x].product \in Products
      BY DEF AdjTypeOK, AdjState
    <3> QED
      BY <3>1, <3>2, <3>3 DEF StockTypeOK
  <2> QED
    BY <2>1, <2>2
<1>2. ASSUME NEW p \in Products, rowLock'[p] \in InventoryRequests
      PROVE  adj'[rowLock'[p]].pc = "apply" /\ adj'[rowLock'[p]].product = p
  <2>1. CASE p = adj[r].product
    BY <1>0, <2>1 DEF AdjTypeOK, StockTypeOK
  <2>2. CASE p # adj[r].product
    BY <1>0, <1>2, <2>2 DEF AdjTypeOK, StockTypeOK, LockDiscipline
  <2> QED
    BY <2>1, <2>2
<1> QED
  BY <1>1, <1>2 DEF LockDiscipline

(* The record a step of r leaves behind.                                   *)
LEMMA GotoRecord ==
    ASSUME AdjTypeOK, NEW r \in InventoryRequests,
           NEW label \in {"done", "failed", "crashed", "apply"}, Goto(r, label)
    PROVE  \E a \in AdjState :
              /\ adj' = [adj EXCEPT ![r] = a]
              /\ a.pc = label
              /\ a.product = adj[r].product
              /\ a.q = adj[r].q /\ a.t = adj[r].t
<1>1. adj[r] \in AdjState
  BY DEF AdjTypeOK
<1> DEFINE a == [adj[r] EXCEPT !.pc = label]
<1>2. /\ a \in AdjState /\ a.pc = label
      /\ a.product = adj[r].product /\ a.q = adj[r].q /\ a.t = adj[r].t
  BY <1>1 DEF AdjState
<1> QED
  BY <1>2 DEF Goto

(* ... and those of the two steps that write more than its control state.  *)
LEMMA ApplyRecord ==
    ASSUME AdjTypeOK, NEW r \in InventoryRequests, ApplyAdjustment(r)
    PROVE  \E a \in AdjState :
              /\ adj' = [adj EXCEPT ![r] = a]
              /\ a.pc \in {"publish", "done", "failed"}
              /\ a.product = adj[r].product
<1>1. adj[r] \in AdjState
  BY DEF AdjTypeOK
<1>2. CASE adj[r].q + adj[r].arg \in Quantity
  <2> DEFINE new == adj[r].q + adj[r].arg
             a   == [adj[r] EXCEPT !.pc = IF new <= adj[r].t THEN "publish" ELSE "done",
                                   !.q = new]
  <2>1. a \in AdjState /\ a.pc \in {"publish", "done"} /\ a.product = adj[r].product
    BY <1>1, <1>2 DEF AdjState
  <2>2. adj' = [adj EXCEPT ![r] = a]
    BY <1>2 DEF ApplyAdjustment, CommitAdjustment, RefuseAdjustment
  <2> QED
    BY <2>1, <2>2
<1>3. CASE adj[r].q + adj[r].arg \notin Quantity
  <2>1. Goto(r, "failed")
    BY <1>3 DEF ApplyAdjustment, CommitAdjustment, RefuseAdjustment
  <2> QED
    BY <2>1, GotoRecord
<1> QED
  BY <1>2, <1>3

LEMMA LockRecord ==
    ASSUME StockTypeOK, AdjTypeOK, NEW r \in InventoryRequests,
           LockRow(r) \/ LockHeldRow(r)
    PROVE  \E a \in AdjState :
              /\ adj' = [adj EXCEPT ![r] = a]
              /\ a.pc \in {"apply", "failed"}
              /\ a.product = adj[r].product
              /\ LockRow(r) /\ a.pc = "apply" =>
                   /\ adj[r].product \in rows
                   /\ a.q = quantity[adj[r].product]
                   /\ a.t = threshold[adj[r].product]
              /\ LockHeldRow(r) => adj[r].pc = "lock_held"
<1> DEFINE p == adj[r].product
<1>1. adj[r] \in AdjState /\ p \in Products
  BY DEF AdjTypeOK, AdjState
<1>2. CASE LockRow(r) /\ p \in rows
  <2> DEFINE a == [adj[r] EXCEPT !.pc = "apply", !.q = quantity[p], !.t = threshold[p]]
  <2>1. /\ a \in AdjState /\ a.pc = "apply" /\ a.product = p
        /\ a.q = quantity[p] /\ a.t = threshold[p]
    BY <1>1 DEF AdjState, StockTypeOK
  <2>2. adj' = [adj EXCEPT ![r] = a] /\ adj[r].pc = "lock"
    BY <1>2 DEF LockRow
  <2>3. ~LockHeldRow(r)
    BY <2>2 DEF LockHeldRow
  <2> QED
    BY <1>2, <2>1, <2>2, <2>3
<1>3. CASE LockRow(r) /\ p \notin rows
  <2>1. Goto(r, "failed") /\ adj[r].pc = "lock"
    BY <1>3 DEF LockRow
  <2>2. ~LockHeldRow(r)
    BY <2>1 DEF LockHeldRow
  <2> QED
    BY <2>1, <2>2, GotoRecord
<1>4. CASE LockHeldRow(r)
  <2>1. Goto(r, "apply") /\ adj[r].pc = "lock_held"
    BY <1>4 DEF LockHeldRow
  <2>2. ~LockRow(r)
    BY <2>1 DEF LockRow
  <2> QED
    BY <2>1, <2>2, GotoRecord
<1> QED
  BY <1>2, <1>3, <1>4

LEMMA AdjNextLock == InvTypeOK /\ LockDiscipline /\ AdjNext => LockDiscipline'
<1> SUFFICES ASSUME StockTypeOK, AdjTypeOK, AdjTypeOK', LockDiscipline,
                    NEW r \in InventoryRequests,
                    BeginAdj(r) \/ ContinueAdj(r) \/ CrashAdj(r)
             PROVE  LockDiscipline'
  BY AdjNextTypeOK DEF AdjNext, InvTypeOK
<1>0. adj[r] \in AdjState /\ adj'[r] \in AdjState
  BY DEF AdjTypeOK
<1>1. CASE BeginAdj(r)
  <2>1. /\ adj[r].pc = "new" /\ UNCHANGED rowLock
        /\ adj' = [adj EXCEPT ![r] = adj'[r]]
        /\ adj'[r].pc # "apply"
    BY <1>0, <1>1 DEF BeginAdj, BeginCreate, BeginThreshold, BeginAdjust,
                      BeginAdjustByProduct, stockVars, AdjTypeOK
  <2> QED
    BY <1>0, <2>1, LockUntouched
<1>2. CASE InsertRow(r) \/ SetThreshold(r) \/ PublishLowStock(r)
  <2>1. adj[r].pc # "apply" /\ UNCHANGED rowLock
    BY <1>2 DEF InsertRow, SetThreshold, PublishLowStock, stockVars
  <2>2. \E label \in {"done", "failed"} : Goto(r, label)
    BY <1>2 DEF InsertRow, SetThreshold, PublishLowStock
  <2> QED
    BY <2>1, <2>2, GotoRecord, LockUntouched
<1>3. CASE LockRow(r)
  <2>1. CASE adj[r].product \in rows
    <3> DEFINE a == [adj[r] EXCEPT !.pc = "apply", !.q = quantity[adj[r].product],
                                   !.t = threshold[adj[r].product]]
    <3>1. a \in AdjState /\ a.pc = "apply" /\ a.product = adj[r].product
      BY <1>0 DEF AdjState, StockTypeOK
    <3>2. /\ adj' = [adj EXCEPT ![r] = a] /\ adj[r].pc # "apply"
          /\ Unlocked(adj[r].product)
          /\ rowLock' = [rowLock EXCEPT ![adj[r].product] = r]
      BY <1>3, <2>1 DEF LockRow
    <3> QED
      BY <3>1, <3>2, LockTaken
  <2>2. CASE adj[r].product \notin rows
    <3>1. Goto(r, "failed") /\ UNCHANGED rowLock /\ adj[r].pc # "apply"
      BY <1>3, <2>2 DEF LockRow
    <3> QED
      BY <3>1, GotoRecord, LockUntouched
  <2> QED
    BY <2>1, <2>2
<1>4. CASE LockHeldRow(r)
  <2>1. /\ Goto(r, "apply") /\ adj[r].pc # "apply" /\ Unlocked(adj[r].product)
        /\ rowLock' = [rowLock EXCEPT ![adj[r].product] = r]
    BY <1>4 DEF LockHeldRow
  <2>2. PICK a \in AdjState : /\ adj' = [adj EXCEPT ![r] = a]
                              /\ a.pc = "apply"
                              /\ a.product = adj[r].product
    BY <2>1, GotoRecord
  <2> QED
    BY <2>1, <2>2, LockTaken
<1>5. CASE ApplyAdjustment(r)
  <2>1. rowLock' = Released(r)
    BY <1>5 DEF ApplyAdjustment, CommitAdjustment, RefuseAdjustment
  <2>2. PICK a \in AdjState : /\ adj' = [adj EXCEPT ![r] = a]
                              /\ a.pc \in {"publish", "done", "failed"}
    BY <1>5, ApplyRecord
  <2> QED
    BY <2>1, <2>2, LockReleased
<1>6. CASE CrashAdj(r)
  <2>1. rowLock' = Released(r) /\ Goto(r, "crashed")
    BY <1>6 DEF CrashAdj
  <2> QED
    BY <2>1, GotoRecord, LockReleased
<1> QED
  BY <1>1, <1>2, <1>3, <1>4, <1>5, <1>6 DEF ContinueAdj

(* A row lock is held exactly by the request that is in its locked         *)
(* section, and never by two: for any number of requests.                  *)
THEOREM LocksAreDisciplined == InvSpec => []LockDiscipline
<1>1. LockDiscipline /\ UNCHANGED invVars => LockDiscipline'
  BY DEF LockDiscipline, invVars, stockVars
<1>2. InvTypeOK /\ LockDiscipline /\ [InvNext]_invVars => LockDiscipline'
  BY <1>1, AdjNextLock DEF InvNext
<1> QED
  BY InitLock, <1>2, TypeCorrect, PTL DEF InvSpec
-----------------------------------------------------------------------------
(* Row and history.                                                        *)

(* A product without a row has no movements; a request that goes on to     *)
(* change a row found it.  Rows are never removed.                         *)
HistoryInv ==
    /\ \A p \in Products \ rows : movements[p] = <<>>
    /\ \A r \in InventoryRequests :
         adj[r].pc \in {"lock_held", "apply"} => adj[r].product \in rows
    /\ LastMovementIsQuantity

LEMMA InitHistory == InvInit => HistoryInv
BY DEF InvInit, StockInit, AdjInit, HistoryInv, LastMovementIsQuantity, Ledger!After

LEMMA AppendAfter ==
    ASSUME NEW q, NEW m \in Seq(Ledger!Movement), NEW e \in Ledger!Movement
    PROVE  /\ Ledger!After(q, Append(m, e)) = e.resulting
           /\ Append(m, e) # m
BY DEF Ledger!After

(* The steps that change no row and no history.                            *)
LEMMA HistoryUntouched ==
    ASSUME AdjTypeOK, HistoryInv, NEW r \in InventoryRequests, NEW a \in AdjState,
           adj' = [adj EXCEPT ![r] = a],
           a.pc \in {"lock_held", "apply"} => a.product \in rows,
           UNCHANGED <<rows, quantity, opening, movements>>
    PROVE  HistoryInv'
BY DEF HistoryInv, LastMovementIsQuantity, AdjTypeOK

LEMMA AdjNextHistory == InvTypeOK /\ HistoryInv /\ AdjNext => HistoryInv'
<1> SUFFICES ASSUME StockTypeOK, AdjTypeOK, AdjTypeOK', HistoryInv,
                    NEW r \in InventoryRequests,
                    BeginAdj(r) \/ ContinueAdj(r) \/ CrashAdj(r)
             PROVE  HistoryInv'
  BY AdjNextTypeOK DEF AdjNext, InvTypeOK
<1>0. adj[r] \in AdjState /\ adj'[r] \in AdjState /\ adj[r].product \in Products
  BY DEF AdjTypeOK, AdjState
<1>1. CASE BeginAdj(r)
  <2>1. /\ UNCHANGED <<rows, quantity, opening, movements>>
        /\ adj' = [adj EXCEPT ![r] = adj'[r]]
        /\ adj'[r].pc \in {"lock_held", "apply"} => adj'[r].product \in rows
    BY <1>0, <1>1 DEF BeginAdj, BeginCreate, BeginThreshold, BeginAdjust,
                      BeginAdjustByProduct, stockVars, AdjTypeOK
  <2> QED
    BY <1>0, <2>1, HistoryUntouched
<1>2. CASE InsertRow(r)
  <2>1. PICK a \in AdjState : /\ adj' = [adj EXCEPT ![r] = a]
                              /\ a.pc \in {"done", "failed"}
    BY <1>2, GotoRecord DEF InsertRow
  <2>2. CASE adj[r].product \in rows
    BY <1>2, <2>1, <2>2, HistoryUntouched DEF InsertRow
  <2>3. CASE adj[r].product \notin rows
    BY <1>0, <1>2, <2>1, <2>3
       DEF InsertRow, HistoryInv, LastMovementIsQuantity, StockTypeOK, AdjTypeOK, Ledger!After
  <2> QED
    BY <2>2, <2>3
<1>3. CASE SetThreshold(r) \/ PublishLowStock(r) \/ CrashAdj(r)
  <2>1. \E label \in {"done", "crashed"} : Goto(r, label)
    BY <1>3 DEF SetThreshold, PublishLowStock, CrashAdj
  <2>2. PICK a \in AdjState : /\ adj' = [adj EXCEPT ![r] = a]
                              /\ a.pc \in {"done", "crashed"}
    BY <2>1, GotoRecord
  <2>3. UNCHANGED <<rows, quantity, opening, movements>>
    BY <1>3 DEF SetThreshold, PublishLowStock, CrashAdj, stockVars
  <2> QED
    BY <2>2, <2>3, HistoryUntouched
<1>4. CASE LockRow(r) \/ LockHeldRow(r)
  <2>1. UNCHANGED <<rows, quantity, opening, movements>>
    BY <1>4 DEF LockRow, LockHeldRow
  <2>2. PICK a \in AdjState :
          /\ adj' = [adj EXCEPT ![r] = a]
          /\ a.pc \in {"apply", "failed"}
          /\ a.product = adj[r].product
          /\ LockRow(r) /\ a.pc = "apply" => adj[r].product \in rows
          /\ LockHeldRow(r) => adj[r].pc = "lock_held"
    BY <1>4, LockRecord
  <2>3. a.pc = "apply" => a.product \in rows
    BY <1>4, <2>2 DEF HistoryInv
  <2> QED
    BY <2>1, <2>2, <2>3, HistoryUntouched
<1>5. CASE ApplyAdjustment(r)
  <2> DEFINE p   == adj[r].product
             new == adj[r].q + adj[r].arg
             e   == [delta |-> adj[r].arg, resulting |-> new]
  <2>0. PICK a \in AdjState : /\ adj' = [adj EXCEPT ![r] = a]
                              /\ a.pc \in {"publish", "done", "failed"}
    BY <1>5, ApplyRecord
  <2>1. /\ UNCHANGED <<rows, opening>>
        /\ adj' = [adj EXCEPT ![r] = adj'[r]]
        /\ adj'[r].pc \notin {"lock_held", "apply"}
    BY <1>5, <2>0 DEF ApplyAdjustment, CommitAdjustment, RefuseAdjustment, AdjTypeOK
  <2>2. CASE new \in Quantity
    <3>1. /\ movements' = [movements EXCEPT ![p] = Append(movements[p], e)]
          /\ quantity' = [quantity EXCEPT ![p] = new]
          /\ adj[r].pc = "apply"
      BY <1>5, <2>2 DEF ApplyAdjustment, CommitAdjustment, RefuseAdjustment
    <3>2. e \in Ledger!Movement /\ movements[p] \in Seq(Ledger!Movement)
      BY <1>0, <2>2 DEF AdjState, StockTypeOK, Ledger!Movement, Ledger!Quantity, Quantity
    <3>3. movements'[p] = Append(movements[p], e) /\ quantity'[p] = new /\ p \in rows
      BY <1>0, <3>1 DEF StockTypeOK, HistoryInv
    <3>4. Ledger!After(opening[p], movements'[p]) = new
      BY <3>2, <3>3, AppendAfter
    <3>5. \A x \in Products \ {p} : movements'[x] = movements[x] /\ quantity'[x] = quantity[x]
      BY <3>1 DEF StockTypeOK
    <3>6. \A x \in Products \ rows : movements'[x] = <<>>
      BY <3>3, <3>5 DEF HistoryInv
    <3>7. LastMovementIsQuantity'
      BY <2>1, <3>3, <3>4, <3>5 DEF HistoryInv, LastMovementIsQuantity
    <3> QED
      BY <2>1, <3>6, <3>7 DEF HistoryInv, AdjTypeOK
  <2>3. CASE new \notin Quantity
    BY <1>0, <1>5, <2>1, <2>3, HistoryUntouched DEF ApplyAdjustment, CommitAdjustment, RefuseAdjustment
  <2> QED
    BY <2>2, <2>3
<1> QED
  BY <1>1, <1>2, <1>3, <1>4, <1>5 DEF ContinueAdj

LEMMA HistoryAlways == InvSpec => []HistoryInv
<1>1. HistoryInv /\ UNCHANGED invVars => HistoryInv'
  BY DEF HistoryInv, LastMovementIsQuantity, invVars, stockVars
<1>2. InvTypeOK /\ HistoryInv /\ [InvNext]_invVars => HistoryInv'
  BY <1>1, AdjNextHistory DEF InvNext
<1> QED
  BY InitHistory, <1>2, TypeCorrect, PTL DEF InvSpec

(* Whatever interleaves, the conversation's stale writes included, the     *)
(* quantity of a row is the one its newest movement reports.               *)
THEOREM RowMatchesHistory == InvSpec => []LastMovementIsQuantity
<1>1. HistoryInv => LastMovementIsQuantity
  BY DEF HistoryInv
<1> QED
  BY <1>1, HistoryAlways, PTL
-----------------------------------------------------------------------------
(* What the row lock of adjust_stock achieves: without the conversation's  *)
(* path, which reads the row before it locks it.                           *)

CurrentInv ==
    /\ \A r \in InventoryRequests : adj[r].pc # "lock_held"
    /\ LockedCopyIsCurrent

LEMMA InitCurrent == InvInit => CurrentInv
BY DEF InvInit, AdjInit, CurrentInv, LockedCopyIsCurrent

LEMMA AdjNextCurrent ==
    ASSUME ConversationRequests = {}, InvTypeOK, LockDiscipline, CurrentInv, AdjNext
    PROVE  CurrentInv'
<1> SUFFICES ASSUME StockTypeOK, AdjTypeOK, NEW r \in InventoryRequests,
                    BeginAdj(r) \/ ContinueAdj(r) \/ CrashAdj(r)
             PROVE  CurrentInv'
  BY DEF AdjNext, InvTypeOK
<1>0. adj[r] \in AdjState /\ adj[r].product \in Products /\ r \in DashboardRequests
  BY DEF AdjTypeOK, AdjState
(* It is enough that r's own record is in order and that r changes no row  *)
(* another request has locked.                                             *)
<1>1. ASSUME NEW a, adj' = [adj EXCEPT ![r] = a], a.pc # "lock_held",
             a.pc = "apply" => /\ a.product \in rows'
                               /\ a.q = quantity'[a.product]
                               /\ a.t = threshold'[a.product],
             \A x \in InventoryRequests \ {r} :
                adj[x].pc = "apply" =>
                   /\ adj[x].product \in rows'
                   /\ quantity'[adj[x].product] = quantity[adj[x].product]
                   /\ threshold'[adj[x].product] = threshold[adj[x].product]
      PROVE  CurrentInv'
  BY <1>1 DEF CurrentInv, LockedCopyIsCurrent, AdjTypeOK
<1>2. CASE BeginAdj(r)
  <2>1. UNCHANGED <<rows, quantity, threshold>>
    BY <1>2 DEF BeginAdj, BeginCreate, BeginThreshold, BeginAdjust,
                BeginAdjustByProduct, stockVars
  <2>2. PICK a : adj' = [adj EXCEPT ![r] = a] /\ a.pc \notin {"lock_held", "apply"}
    BY <1>2 DEF BeginAdj, BeginCreate, BeginThreshold, BeginAdjust, BeginAdjustByProduct
  <2> QED
    BY <1>1, <2>1, <2>2 DEF CurrentInv, LockedCopyIsCurrent
<1>3. CASE InsertRow(r)
  <2>1. PICK a \in AdjState : /\ adj' = [adj EXCEPT ![r] = a]
                              /\ a.pc \in {"done", "failed"}
    BY <1>3, GotoRecord DEF InsertRow
  <2>2. \A p \in rows : p \in rows' /\ quantity'[p] = quantity[p] /\ threshold'[p] = threshold[p]
    BY <1>0, <1>3 DEF InsertRow, StockTypeOK
  <2> QED
    BY <1>1, <2>1, <2>2 DEF CurrentInv, LockedCopyIsCurrent
<1>4. CASE SetThreshold(r)
  <2>1. PICK a \in AdjState : adj' = [adj EXCEPT ![r] = a] /\ a.pc = "done"
    BY <1>4, GotoRecord DEF SetThreshold
  <2>2. ASSUME NEW x \in InventoryRequests \ {r}, adj[x].pc = "apply"
        PROVE  threshold'[adj[x].product] = threshold[adj[x].product]
    <3>1. rowLock[adj[x].product] = x /\ adj[x].product \in Products
      BY <2>2 DEF LockDiscipline, AdjTypeOK, AdjState
    <3>2. x # NoRequest
      BY InventoryAssumption DEF Requests
    <3> QED
      BY <1>0, <1>4, <3>1, <3>2 DEF SetThreshold, Unlocked, StockTypeOK
  <2>3. UNCHANGED <<rows, quantity>>
    BY <1>4 DEF SetThreshold
  <2> QED
    BY <1>1, <2>1, <2>2, <2>3 DEF CurrentInv, LockedCopyIsCurrent
<1>5. CASE LockRow(r)
  <2>1. UNCHANGED <<rows, quantity, threshold>>
    BY <1>5 DEF LockRow
  <2>2. PICK a \in AdjState :
          /\ adj' = [adj EXCEPT ![r] = a]
          /\ a.pc \in {"apply", "failed"}
          /\ a.product = adj[r].product
          /\ LockRow(r) /\ a.pc = "apply" =>
               /\ adj[r].product \in rows
               /\ a.q = quantity[adj[r].product]
               /\ a.t = threshold[adj[r].product]
    BY <1>5, LockRecord
  <2> QED
    BY <1>1, <1>5, <2>1, <2>2 DEF CurrentInv, LockedCopyIsCurrent
<1>6. CASE ApplyAdjustment(r)
  <2>1. PICK a \in AdjState : /\ adj' = [adj EXCEPT ![r] = a]
                              /\ a.pc \in {"publish", "done", "failed"}
    BY <1>6, ApplyRecord
  <2>2. ASSUME NEW x \in InventoryRequests \ {r}, adj[x].pc = "apply"
        PROVE  quantity'[adj[x].product] = quantity[adj[x].product]
    <3>1. rowLock[adj[x].product] = x /\ adj[x].product \in Products
      BY <2>2 DEF LockDiscipline, AdjTypeOK, AdjState
    <3>2. rowLock[adj[r].product] = r
      BY <1>6 DEF ApplyAdjustment, CommitAdjustment, RefuseAdjustment, LockDiscipline
    <3>3. adj[x].product # adj[r].product
      BY <3>1, <3>2
    <3> QED
      BY <1>0, <1>6, <3>1, <3>3 DEF ApplyAdjustment, CommitAdjustment, RefuseAdjustment, StockTypeOK
  <2>3. UNCHANGED <<rows, threshold>>
    BY <1>6 DEF ApplyAdjustment, CommitAdjustment, RefuseAdjustment
  <2> QED
    BY <1>1, <2>1, <2>2, <2>3 DEF CurrentInv, LockedCopyIsCurrent
<1>7. CASE PublishLowStock(r) \/ CrashAdj(r)
  <2>1. \E label \in {"done", "crashed"} : Goto(r, label)
    BY <1>7 DEF PublishLowStock, CrashAdj
  <2>2. PICK a \in AdjState : /\ adj' = [adj EXCEPT ![r] = a]
                              /\ a.pc \in {"done", "crashed"}
    BY <2>1, GotoRecord
  <2>3. UNCHANGED <<rows, quantity, threshold>>
    BY <1>7 DEF PublishLowStock, CrashAdj, stockVars
  <2> QED
    BY <1>1, <2>2, <2>3 DEF CurrentInv, LockedCopyIsCurrent
<1>8. ~LockHeldRow(r)
  BY DEF LockHeldRow, CurrentInv
<1> QED
  BY <1>2, <1>3, <1>4, <1>5, <1>6, <1>7, <1>8 DEF ContinueAdj

(* A dashboard request that is about to write a row has its current        *)
(* quantity and threshold at hand, however many requests race.             *)
THEOREM LockedCopiesAreCurrent ==
    ConversationRequests = {} => (InvSpec => []LockedCopyIsCurrent)
<1> SUFFICES ASSUME ConversationRequests = {}
             PROVE  InvSpec => []LockedCopyIsCurrent
  OBVIOUS
<1>1. CurrentInv /\ UNCHANGED invVars => CurrentInv'
  BY DEF CurrentInv, LockedCopyIsCurrent, invVars, stockVars
<1>2. InvTypeOK /\ LockDiscipline /\ CurrentInv /\ [InvNext]_invVars => CurrentInv'
  BY <1>1, AdjNextCurrent DEF InvNext
<1>3. CurrentInv => LockedCopyIsCurrent
  BY DEF CurrentInv
<1> QED
  BY InitCurrent, <1>2, <1>3, TypeCorrect, LocksAreDisciplined, PTL DEF InvSpec

LEMMA AdjNextDecides ==
    ASSUME InvTypeOK, LockDiscipline, LockedCopyIsCurrent, AdjNext,
           NEW r \in InventoryRequests, adj[r].pc = "apply",
           movements'[adj[r].product] # movements[adj[r].product]
    PROVE  adj'[r].pc = "publish" <=>
              quantity'[adj[r].product] <= threshold[adj[r].product]
<1> DEFINE p == adj[r].product
           new == adj[r].q + adj[r].arg
<1>0. /\ p \in Products /\ adj \in [InventoryRequests -> AdjState]
      /\ quantity \in [Products -> Quantity] /\ movements \in [Products -> Seq(Ledger!Movement)]
      /\ rowLock[p] = r /\ adj[r].t = threshold[p]
  BY DEF InvTypeOK, AdjTypeOK, StockTypeOK, AdjState, LockDiscipline, LockedCopyIsCurrent
<1>1. PICK s \in InventoryRequests : BeginAdj(s) \/ ContinueAdj(s) \/ CrashAdj(s)
  BY DEF AdjNext
<1>2. CommitAdjustment(s)
  BY <1>1 DEF BeginAdj, BeginCreate, BeginThreshold, BeginAdjust, BeginAdjustByProduct,
              ContinueAdj, InsertRow, SetThreshold, LockRow, LockHeldRow, ApplyAdjustment,
              RefuseAdjustment, PublishLowStock, CrashAdj, stockVars
<1>3. adj[s].pc = "apply" /\ adj[s].product = p
  BY <1>0, <1>2 DEF CommitAdjustment
<1>4. s = r
  BY <1>0, <1>3 DEF LockDiscipline
<1>5. quantity'[p] = new /\ adj'[r].pc = IF new <= adj[r].t THEN "publish" ELSE "done"
  BY <1>0, <1>2, <1>4 DEF CommitAdjustment, AdjState
<1> QED
  BY <1>0, <1>5

(* A dashboard adjustment raises LowStock exactly if the quantity it has   *)
(* committed is not above the threshold in force, whatever overlaps.       *)
THEOREM LowStockIsDecidedAtCommit ==
    ConversationRequests = {} => (InvSpec => LowStockDecidedAtCommit)
<1> SUFFICES ASSUME ConversationRequests = {}
             PROVE  InvSpec => LowStockDecidedAtCommit
  OBVIOUS
<1>1. InvTypeOK /\ LockDiscipline /\ LockedCopyIsCurrent /\ [InvNext]_invVars =>
        [\A r \in InventoryRequests :
           LET p == adj[r].product IN
           adj[r].pc = "apply" /\ movements'[p] # movements[p] =>
              (adj'[r].pc = "publish" <=> quantity'[p] <= threshold[p])]_invVars
  BY AdjNextDecides DEF InvNext
<1> QED
  BY <1>1, TypeCorrect, LocksAreDisciplined, LockedCopiesAreCurrent, PTL
     DEF InvSpec, LowStockDecidedAtCommit

-----------------------------------------------------------------------------
(* The refinement.                                                         *)

LEMMA InitLedger == InvInit => Ledger!Init
BY InventoryAssumption DEF InvInit, StockInit, Ledger!Init, Ledger!Quantity, Quantity

(* A commit of one movement is a posting of the ledger.                    *)
LEMMA OneMovementIsPost ==
    ASSUME StockTypeOK, HistoryInv, NEW p \in rows, NEW delta \in Int,
           quantity[p] + delta \in Quantity,
           movements' = [movements EXCEPT ![p] =
              Append(@, [delta |-> delta, resulting |-> quantity[p] + delta])],
           quantity' = [quantity EXCEPT ![p] = quantity[p] + delta],
           UNCHANGED <<rows, opening>>
    PROVE  Ledger!Post
<1> DEFINE e == [delta |-> delta, resulting |-> quantity[p] + delta]
           m == movements[p]
<1>1. p \in Products /\ m \in Seq(Ledger!Movement) /\ e \in Ledger!Movement
  BY DEF StockTypeOK, Ledger!Movement, Ledger!Quantity, Quantity
<1>2. /\ movements'[p] = Append(m, e)
      /\ \A x \in Products \ {p} : movements'[x] = movements[x]
  BY <1>1 DEF StockTypeOK
<1>3. movements' \in [Products -> Seq(Ledger!Movement)]
  <2>1. Append(m, e) \in Seq(Ledger!Movement)
    BY <1>1
  <2> QED
    BY <1>1, <2>1 DEF StockTypeOK
<1>4. /\ Ledger!Extends(m, movements'[p])
      /\ Ledger!Chained(opening[p], movements'[p], Len(m) + 1)
      /\ Ledger!After(opening[p], movements'[p]) = quantity[p] + delta
  <2>1. /\ Len(Append(m, e)) = Len(m) + 1
        /\ Append(m, e)[Len(m) + 1] = e
        /\ \A i \in 1 .. Len(m) : Append(m, e)[i] = m[i]
        /\ Len(m) \in Nat
    BY <1>1
  <2>2. Ledger!Before(opening[p], Append(m, e), Len(m) + 1) = quantity[p]
    <3>1. quantity[p] = Ledger!After(opening[p], m)
      BY <1>1 DEF HistoryInv, LastMovementIsQuantity
    <3>2. CASE m = <<>>
      BY <3>1, <3>2 DEF Ledger!Before, Ledger!After
    <3>3. CASE m # <<>>
      <4>1. Len(m) \in 1 .. Len(m)
        BY <1>1, <3>3
      <4> QED
        BY <2>1, <3>1, <3>3, <4>1 DEF Ledger!Before, Ledger!After
    <3> QED
      BY <3>2, <3>3
  <2>3. Ledger!After(opening[p], Append(m, e)) = quantity[p] + delta
    BY <1>1, AppendAfter
  <2> QED
    BY <1>2, <2>1, <2>2, <2>3 DEF Ledger!Extends, Ledger!Chained
<1>5. ASSUME NEW x \in Products \ {p}
      PROVE  /\ Ledger!Extends(movements[x], movements'[x])
             /\ Ledger!Chained(opening[x], movements'[x], Len(movements[x]) + 1)
             /\ Ledger!After(opening[x], movements'[x]) = quantity[x]
  <2>1. movements'[x] = movements[x] /\ Len(movements[x]) \in Nat
    BY <1>2 DEF StockTypeOK
  <2>2. Ledger!After(opening[x], movements[x]) = quantity[x]
    BY DEF HistoryInv, LastMovementIsQuantity
  <2> QED
    BY <2>1, <2>2 DEF Ledger!Extends, Ledger!Chained
<1>6. quantity' = [x \in Products |-> Ledger!After(opening[x], movements'[x])]
  BY <1>1, <1>4, <1>5 DEF StockTypeOK
<1> QED
  BY <1>1, <1>2, <1>3, <1>4, <1>5, <1>6 DEF Ledger!Post

LEMMA AdjNextLedger ==
    ASSUME InvTypeOK, HistoryInv, LockedCopyIsCurrent, AdjNext
    PROVE  Ledger!Next \/ UNCHANGED Ledger!vars
<1> SUFFICES ASSUME StockTypeOK, AdjTypeOK, NEW r \in InventoryRequests,
                    BeginAdj(r) \/ ContinueAdj(r) \/ CrashAdj(r)
             PROVE  Ledger!Next \/ UNCHANGED Ledger!vars
  BY DEF AdjNext, InvTypeOK
<1> USE DEF Ledger!vars
<1>0. adj[r] \in AdjState /\ adj[r].product \in Products
  BY DEF AdjTypeOK, AdjState
<1>1. CASE BeginAdj(r)
  BY <1>1 DEF BeginAdj, BeginCreate, BeginThreshold, BeginAdjust, BeginAdjustByProduct, stockVars
<1>2. CASE InsertRow(r)
  <2> DEFINE p == adj[r].product
  <2>1. CASE p \in rows
    BY <1>2, <2>1 DEF InsertRow
  <2>2. CASE p \notin rows
    <3>1. adj[r].q \in Quantity
      BY <1>0 DEF AdjState
    <3>2. Ledger!Open(p)
      BY <1>0, <1>2, <2>2, <3>1
         DEF InsertRow, Ledger!Open, StockTypeOK, Ledger!Quantity, Quantity
    <3> QED
      BY <1>0, <3>2 DEF Ledger!Next
  <2> QED
    BY <2>1, <2>2
<1>3. CASE SetThreshold(r) \/ LockRow(r) \/ LockHeldRow(r) \/ PublishLowStock(r) \/ CrashAdj(r)
  BY <1>3 DEF SetThreshold, LockRow, LockHeldRow, PublishLowStock, CrashAdj, stockVars
<1>4. CASE ApplyAdjustment(r)
  <2>1. /\ adj[r].product \in rows
        /\ adj[r].q = quantity[adj[r].product]
    BY <1>4 DEF ApplyAdjustment, CommitAdjustment, RefuseAdjustment, LockedCopyIsCurrent
  <2>2. CASE adj[r].q + adj[r].arg \in Quantity
    <3>1. adj[r].arg \in Int
      BY <1>0 DEF AdjState
    <3>2. Ledger!Post
      BY <1>4, <2>1, <2>2, <3>1, OneMovementIsPost DEF ApplyAdjustment, CommitAdjustment, RefuseAdjustment
    <3> QED
      BY <3>2 DEF Ledger!Next
  <2>3. CASE adj[r].q + adj[r].arg \notin Quantity
    BY <1>4, <2>3 DEF ApplyAdjustment, CommitAdjustment, RefuseAdjustment
  <2> QED
    BY <2>2, <2>3
<1> QED
  BY <1>1, <1>2, <1>3, <1>4 DEF ContinueAdj

(* The inventory module, stepping statement by statement, implements the   *)
(* atomic ledger as long as every adjustment goes through adjust_stock.    *)
THEOREM ImplementsLedger == ConversationRequests = {} => (InvSpec => LedgerSpec)
<1> SUFFICES ASSUME ConversationRequests = {}
             PROVE  InvSpec => LedgerSpec
  OBVIOUS
<1>1. InvSpec => []LockedCopyIsCurrent
  BY LockedCopiesAreCurrent
<1>2. UNCHANGED invVars => UNCHANGED Ledger!vars
  BY DEF invVars, stockVars, Ledger!vars
<1>3. InvTypeOK /\ HistoryInv /\ LockedCopyIsCurrent /\ [InvNext]_invVars
        => [Ledger!Next]_(Ledger!vars)
  BY <1>2, AdjNextLedger DEF InvNext
<1> QED
  BY InitLedger, <1>1, <1>3, TypeCorrect, HistoryAlways, PTL DEF InvSpec, LedgerSpec, Ledger!Spec

(* The abstract ledger's inductive invariant.                              *)
BalancedInv == Ledger!TypeOK /\ Ledger!Balanced

(* The ledger always balances: no interleaving of atomic posts breaks the  *)
(* chain of movements, for any set of products.                            *)
THEOREM LedgerBalanced == Ledger!Spec => []Ledger!Balanced
<1>1. Ledger!Init => BalancedInv
  <2> SUFFICES ASSUME Ledger!Init PROVE BalancedInv
    OBVIOUS
  <2>1. Ledger!TypeOK
    BY DEF Ledger!Init, Ledger!TypeOK
  <2>2. ASSUME NEW p \in Products
        PROVE  /\ Ledger!Chained(opening[p], movements[p], 1)
               /\ quantity[p] = Ledger!After(opening[p], movements[p])
               /\ movements[p] = <<>>
    <3>1. movements[p] = <<>> /\ Len(<<>>) = 0 /\ 1 .. 0 = {}
      BY DEF Ledger!Init
    <3> QED
      BY <3>1 DEF Ledger!Init, Ledger!Chained, Ledger!After
  <2> QED
    BY <2>1, <2>2 DEF BalancedInv, Ledger!Balanced
<1>2. BalancedInv /\ [Ledger!Next]_(Ledger!vars) => BalancedInv'
  <2> SUFFICES ASSUME BalancedInv, [Ledger!Next]_(Ledger!vars) PROVE BalancedInv'
    OBVIOUS
  <2> USE DEF BalancedInv
  <2>1. ASSUME NEW p \in Products, Ledger!Open(p)
        PROVE  BalancedInv'
    <3>1. Ledger!TypeOK'
      BY <2>1 DEF Ledger!TypeOK, Ledger!Open
    <3>2. Ledger!Balanced'
      BY <2>1 DEF Ledger!TypeOK, Ledger!Open, Ledger!Balanced, Ledger!Chained, Ledger!After, Ledger!Before
    <3> QED
      BY <3>1, <3>2
  <2>2. CASE Ledger!Post
    <3>1. Ledger!TypeOK'
      <4>1. ASSUME NEW p \in Products
            PROVE  Ledger!After(opening[p], movements'[p]) \in Ledger!Quantity
        <5>1. movements'[p] \in Seq(Ledger!Movement) /\ opening[p] \in Ledger!Quantity
          BY <2>2 DEF Ledger!Post, Ledger!TypeOK
        <5> QED
          BY <5>1, AfterType
      <4> QED
        BY <2>2, <4>1 DEF Ledger!TypeOK, Ledger!Post
    <3>2. ASSUME NEW p \in Products
          PROVE  Ledger!Chained(opening[p], movements'[p], 1)
      <4>1. /\ opening[p] \in Int
            /\ movements[p] \in Seq(Ledger!Movement)
            /\ movements'[p] \in Seq(Ledger!Movement)
        BY <2>2 DEF Ledger!Post, Ledger!TypeOK, Ledger!Quantity
      <4>2. /\ Ledger!Chained(opening[p], movements[p], 1)
            /\ Ledger!Extends(movements[p], movements'[p])
            /\ Ledger!Chained(opening[p], movements'[p], Len(movements[p]) + 1)
        BY <2>2 DEF Ledger!Post, Ledger!Balanced
      <4> QED
        BY <4>1, <4>2, ExtendsChained
    <3>3. Ledger!Balanced'
      BY <2>2, <3>2 DEF Ledger!Balanced, Ledger!Post
    <3> QED
      BY <3>1, <3>3
  <2>3. CASE UNCHANGED Ledger!vars
    BY <2>3 DEF Ledger!vars, Ledger!TypeOK, Ledger!Balanced
  <2> QED
    BY <2>1, <2>2, <2>3 DEF Ledger!Next
<1>3. BalancedInv => Ledger!Balanced
  BY DEF BalancedInv
<1> QED
  BY <1>1, <1>2, <1>3, PTL DEF Ledger!Spec

(* Hence the movements of every product add up to its quantity, as long as *)
(* every adjustment goes through adjust_stock.                             *)
THEOREM AdjustStockBalances == ConversationRequests = {} => (InvSpec => []Balanced)
BY ImplementsLedger, LedgerBalanced, PTL DEF LedgerSpec, Balanced
=============================================================================
