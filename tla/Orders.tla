------------------------------- MODULE Orders -------------------------------
(***************************************************************************)
(* The order module (app/order) on top of the inventory module: creation   *)
(* and the status transitions, with the stock changes of a confirmation or *)
(* a cancellation staged line by line inside the order's transaction.      *)
(*                                                                         *)
(* A transition reads the order without a lock, takes the row lock of one  *)
(* inventory row per line, in the order of the lines, and commits once.    *)
(* Nothing it stages is visible before the commit; the status it writes is *)
(* the one the rule for the status it READ prescribes.                     *)
(***************************************************************************)
EXTENDS Inventory

CONSTANTS
    OrderIds,        \* orders of the business
    Lines,           \* the OrderItem rows of each order, in id order
    OrderRequests,   \* requests to POST /orders and /orders/{id}/transition
    NoOrder          \* "no order yet"

Line == [product : Products, quantity : Nat \ {0}]

ASSUME OrdersAssumption ==
    /\ Lines \in [OrderIds -> Seq(Line)]
    /\ \A o \in OrderIds : Lines[o] # <<>>
    /\ OrderRequests \subseteq OtherRequests
    /\ NoOrder \notin OrderIds

VARIABLES
    status,      \* committed orders.status; "NONE" before the row exists
    taken,       \* history: decrements minus restores committed per order
    lifecycle,   \* order events handed to the event bus
    ord          \* state of every order request

tableVars == <<status, taken>>
ordVars == <<tableVars, lifecycle, ord>>
ordersVars == <<invVars, ordVars>>

PaidStates == {"PAID", "PACKED", "SHIPPED", "DELIVERED", "COMPLETED"}
HoldingStates == PaidStates \cup {"CONFIRMED"}
OrderStatus == HoldingStates \cup {"NONE", "CREATED", "CANCELLED"}

(* The effect of a rule on stock: -1 takes the order's lines out of stock  *)
(* (DECREMENT), 1 puts them back (RESTORE), 0 leaves stock alone.          *)
Rule(from, event, to, effect) ==
    [from |-> from, event |-> event, to |-> to, effect |-> effect]

TRANSITIONS ==
    { Rule("CREATED",   "CONFIRM", "CONFIRMED", -1),
      Rule("CREATED",   "CANCEL",  "CANCELLED",  0),
      Rule("CONFIRMED", "PAY",     "PAID",       0),
      Rule("CONFIRMED", "CANCEL",  "CANCELLED",  1),
      Rule("PAID",      "PACK",    "PACKED",     0),
      Rule("PACKED",    "SHIP",    "SHIPPED",    0),
      Rule("SHIPPED",   "DELIVER", "DELIVERED",  0),
      Rule("DELIVERED", "CLOSE",   "COMPLETED",  0) }

OrderEvent == {rule.event : rule \in TRANSITIONS}

(* Fault: the endpoint takes every event.                                  *)
AnyEvent == OrderEvent

(* The HTTP endpoint refuses PAY; only the payment module applies it.      *)
ClientEvent == OrderEvent \ {"PAY"}

NoRule == Rule("NONE", "CREATE", "CREATED", 0)

OrdState ==
    [pc : {"new", "stage", "commit", "publish"} \cup Finished,
     order : OrderIds \cup {NoOrder},
     rule : TRANSITIONS \cup {NoRule},
     line : Nat,                               \* next line to stage
     staged : [Products -> Seq(Ledger!Movement)],   \* flushed, not committed
     low : SUBSET LowStockEvent]               \* events to publish

Lifecycle == [event : {"OrderCreated", "OrderConfirmed", "OrderCancelled"},
              order : OrderIds]

OrdTypeOK ==
    /\ status \in [OrderIds -> OrderStatus]
    /\ taken \in [OrderIds -> Int]
    /\ lifecycle \subseteq Lifecycle
    /\ ord \in [OrderRequests -> OrdState]

-----------------------------------------------------------------------------
NothingStaged == [p \in Products |-> <<>>]

OrdInit ==
    /\ status \in [OrderIds -> {"NONE", "CREATED", "CONFIRMED"}]
    /\ taken = [o \in OrderIds |-> IF status[o] = "CONFIRMED" THEN 1 ELSE 0]
    /\ lifecycle = {}
    /\ ord = [r \in OrderRequests |->
                [pc |-> "new", order |-> NoOrder, rule |-> NoRule, line |-> 1,
                 staged |-> NothingStaged, low |-> {}]]

(* The goods of a confirmed order came from a stock row.                   *)
OrdersInit ==
    /\ InvInit
    /\ OrdInit
    /\ \A o \in OrderIds : status[o] = "CONFIRMED" =>
         \A i \in 1 .. Len(Lines[o]) : Lines[o][i].product \in rows

(* create_order: customer and products were found by plain reads; order    *)
(* and items are inserted by one commit, the event follows it.             *)
CreateOrder(r, o) ==
    /\ ord[r].pc = "new"
    /\ status[o] = "NONE"
    /\ status' = [status EXCEPT ![o] = "CREATED"]
    /\ ord' = [ord EXCEPT ![r] = [@ EXCEPT !.pc = "publish", !.order = o]]
    /\ UNCHANGED <<invVars, taken, lifecycle>>

(* transition reads the order, with no lock, and looks the rule up.        *)
ReadOrder(r, o, event) ==
    /\ ord[r].pc = "new"
    /\ \E rule \in TRANSITIONS :
        /\ rule.from = status[o]
        /\ rule.event = event
        /\ ord' = [ord EXCEPT ![r] =
             [@ EXCEPT !.pc = IF rule.effect = 0 THEN "commit" ELSE "stage",
                       !.order = o,
                       !.rule = rule]]
    /\ UNCHANGED <<invVars, tableVars, lifecycle>>

(* No such order (404), or no rule for the status that was read (409).     *)
RefuseTransition(r, o, event) ==
    /\ ord[r].pc = "new"
    /\ \A rule \in TRANSITIONS : ~(rule.from = status[o] /\ rule.event = event)
    /\ ord' = [ord EXCEPT ![r] = [@ EXCEPT !.pc = "failed", !.order = o]]
    /\ UNCHANGED <<invVars, tableVars, lifecycle>>

-----------------------------------------------------------------------------
NextLine(r) == Lines[ord[r].order][ord[r].line]

(* Fault: what the transaction flushed before is overlooked.               *)
CommittedQuantity(r, p) ==
    IF ord[r].pc = "stage" THEN quantity[p]
    ELSE Ledger!After(quantity[p], ord[r].staged[p])

(* The quantity the transaction itself sees in a row it has locked.        *)
OwnQuantity(r, p) == Ledger!After(quantity[p], ord[r].staged[p])

(* Fault: a plain SELECT.                                                  *)
ReadAtOnce(r, p) == p \in Products

(* SELECT ... FOR UPDATE: a second line of the same product finds the row  *)
(* locked by itself.                                                       *)
MayLock(r, p) == rowLock[p] \in {NoRequest, r}

LineDelta(r) == ord[r].rule.effect * NextLine(r).quantity

Feasible(r, p) == p \in rows /\ InStock(OwnQuantity(r, p) + LineDelta(r))

(* stage_adjustment for the next line: lock the row, check it, and flush   *)
(* row and movement.                                                       *)
StageLine(r) ==
    LET p    == NextLine(r).product
        new  == OwnQuantity(r, p) + LineDelta(r)
        more == ord[r].line < Len(Lines[ord[r].order])
    IN
    /\ ord[r].pc = "stage"
    /\ MayLock(r, p)
    /\ Feasible(r, p)
    /\ rowLock' = [rowLock EXCEPT ![p] = r]
    /\ ord' = [ord EXCEPT ![r] =
         [ord[r] EXCEPT
            !.pc = IF more THEN "stage" ELSE "commit",
            !.line = @ + 1,
            !.staged[p] = Append(@, [delta |-> LineDelta(r), resulting |-> new]),
            !.low = IF new <= threshold[p]
                    THEN @ \cup {[product |-> p, quantity |-> new,
                                  threshold |-> threshold[p]]}
                    ELSE @]]
    /\ UNCHANGED <<rows, quantity, threshold, opening, movements, lowStock, adj,
                   tableVars, lifecycle>>

(* Fault: the refusal leaves the transaction open.                         *)
RefuseLineKeepingLocks(r) ==
    LET p == NextLine(r).product IN
    /\ ord[r].pc = "stage"
    /\ MayLock(r, p)
    /\ ~Feasible(r, p)
    /\ ord' = [ord EXCEPT ![r] = [@ EXCEPT !.pc = "failed"]]
    /\ UNCHANGED <<invVars, tableVars, lifecycle>>

(* A missing row, a shortage or an out-of-range result rolls the whole     *)
(* transition back.                                                        *)
RefuseLine(r) ==
    LET p == NextLine(r).product IN
    /\ ord[r].pc = "stage"
    /\ MayLock(r, p)
    /\ ~Feasible(r, p)
    /\ rowLock' = Released(r)
    /\ ord' = [ord EXCEPT ![r] = [@ EXCEPT !.pc = "failed"]]
    /\ UNCHANGED <<rows, quantity, threshold, opening, movements, lowStock, adj,
                   tableVars, lifecycle>>

(* The single commit: the staged rows and movements become visible with    *)
(* the new status, which overwrites whatever status the order has by now.  *)
CommitTransition(r) ==
    LET o == ord[r].order IN
    /\ ord[r].pc = "commit"
    /\ status' = [status EXCEPT ![o] = ord[r].rule.to]
    /\ taken' = [taken EXCEPT ![o] = @ - ord[r].rule.effect]
    /\ quantity' = [p \in Products |-> OwnQuantity(r, p)]
    /\ movements' = [p \in Products |-> movements[p] \o ord[r].staged[p]]
    /\ rowLock' = Released(r)
    /\ ord' = [ord EXCEPT ![r] = [@ EXCEPT !.pc = "publish"]]
    /\ UNCHANGED <<rows, threshold, opening, lowStock, adj, lifecycle>>

(* After the commit: the pending LowStock events, then the lifecycle event *)
(* of the status that was written.                                         *)
LifecycleEvent(to) ==
    CASE to = "CREATED"   -> {"OrderCreated"}
      [] to = "CONFIRMED" -> {"OrderConfirmed"}
      [] to = "CANCELLED" -> {"OrderCancelled"}
      [] OTHER            -> {}

PublishOrder(r) ==
    /\ ord[r].pc = "publish"
    /\ lowStock' = lowStock \cup ord[r].low
    /\ lifecycle' = lifecycle \cup
         {[event |-> e, order |-> ord[r].order] :
            e \in LifecycleEvent(ord[r].rule.to)}
    /\ ord' = [ord EXCEPT ![r] = [@ EXCEPT !.pc = "done"]]
    /\ UNCHANGED <<stockVars, adj, tableVars>>

-----------------------------------------------------------------------------
(* r waits for s: s holds the inventory row r's next line is about.        *)
WaitsFor(r, s) ==
    /\ ord[r].pc = "stage"
    /\ s # r
    /\ rowLock[NextLine(r).product] = s

(* r is on a cycle of requests that wait for each other.                   *)
Deadlocked(r) ==
    \E S \in SUBSET OrderRequests :
        /\ r \in S
        /\ \A s \in S : (\E t \in S : WaitsFor(s, t)) /\ (\E t \in S : WaitsFor(t, s))

(* PostgreSQL's deadlock detector aborts a transaction of the cycle; the   *)
(* service rolls back and the request fails.                               *)
AbortDeadlock(r) ==
    /\ Deadlocked(r)
    /\ rowLock' = Released(r)
    /\ ord' = [ord EXCEPT ![r] = [@ EXCEPT !.pc = "failed"]]
    /\ UNCHANGED <<rows, quantity, threshold, opening, movements, lowStock, adj,
                   tableVars, lifecycle>>

CrashOrder(r) ==
    /\ ord[r].pc \notin Finished \cup {"new"}
    /\ rowLock' = Released(r)
    /\ ord' = [ord EXCEPT ![r] = [@ EXCEPT !.pc = "crashed"]]
    /\ UNCHANGED <<rows, quantity, threshold, opening, movements, lowStock, adj,
                   tableVars, lifecycle>>

-----------------------------------------------------------------------------
BeginOrder(r) ==
    \E o \in OrderIds :
        \/ CreateOrder(r, o)
        \/ \E event \in ClientEvent :
             ReadOrder(r, o, event) \/ RefuseTransition(r, o, event)

ContinueOrder(r) ==
    \/ StageLine(r) \/ RefuseLine(r) \/ AbortDeadlock(r)
    \/ CommitTransition(r) \/ PublishOrder(r)

OrdNext ==
    \E r \in OrderRequests : BeginOrder(r) \/ ContinueOrder(r) \/ CrashOrder(r)

OrdQuiet == \A r \in OrderRequests : ord[r].pc \in Finished

OrdersNext ==
    \/ AdjNext /\ UNCHANGED ordVars
    \/ OrdNext
    \/ AdjQuiet /\ OrdQuiet /\ UNCHANGED ordersVars

OrdersSpec == OrdersInit /\ [][OrdersNext]_ordersVars

(* Threads that have begun keep running, and the database hands on its     *)
(* locks and breaks its deadlocks.                                         *)
OrdersFairSpec ==
    /\ OrdersSpec
    /\ \A r \in InventoryRequests : WF_ordersVars(ContinueAdj(r) /\ UNCHANGED ordVars)
    /\ \A r \in OrderRequests : WF_ordersVars(ContinueOrder(r))

-----------------------------------------------------------------------------
(* Row locks with orders in play: a row is locked by an order request only *)
(* while that request is inside its transaction, and whatever the request  *)
(* has staged so far it has locked.  Hence no other transaction can change *)
(* a row between the line that decremented it and the commit.              *)
OrderLockDiscipline ==
    /\ \A p \in Products :
        rowLock[p] \in OrderRequests => ord[rowLock[p]].pc \in {"stage", "commit"}
    /\ \A r \in OrderRequests, p \in Products :
        ord[r].pc \in {"stage", "commit"} /\ ord[r].staged[p] # <<>> =>
            p \in rows /\ rowLock[p] = r

(* How many units of p the lines of o ask for, duplicates added up.        *)
Demand(o, p) ==
    LET units[i \in 0 .. Len(Lines[o])] ==
          IF i = 0 THEN 0
          ELSE units[i - 1] +
               (IF Lines[o][i].product = p THEN Lines[o][i].quantity ELSE 0)
    IN  units[Len(Lines[o])]

(* All or nothing: the commit of a confirmation or a cancellation moves    *)
(* the stock of every product by exactly what all lines of the order       *)
(* together ask for, however other orders and adjustments interleaved with *)
(* the staging of its lines; and no other step of an order request moves   *)
(* any stock.                                                              *)
WholeOrderMoves ==
    [][\A r \in OrderRequests :
         ord'[r] # ord[r] =>
            LET commits == ord[r].pc = "commit" /\ ord'[r].pc = "publish" IN
            \A p \in Products :
                quantity'[p] - quantity[p] =
                    IF commits
                    THEN ord[r].rule.effect * Demand(ord[r].order, p)
                    ELSE 0]_ordersVars

(* Every order request that begins is answered or lost, also when two      *)
(* orders name the same products in opposite order and their transactions  *)
(* deadlock on the row locks.                                              *)
OrdersAnswered ==
    \A r \in OrderRequests : (ord[r].pc # "new") ~> (ord[r].pc \in Finished)
=============================================================================
