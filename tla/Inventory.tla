----------------------------- MODULE Inventory -----------------------------
(***************************************************************************)
(* The inventory module of the application (app/inventory), one step per   *)
(* SQL statement that another request can interleave with.                 *)
(*                                                                         *)
(* Every HTTP request runs in its own thread with its own database         *)
(* session and transaction (PostgreSQL, READ COMMITTED).  Committed rows   *)
(* are the variables rows, quantity, threshold and movements; what a       *)
(* request has read, and therefore what it will write, is the copy in its  *)
(* session, adj[r].q and adj[r].t.  The session keeps the first copy it    *)
(* loads: a later SELECT ... FOR UPDATE of the same row takes the lock but *)
(* does not replace the attributes of an object the caller still holds.    *)
(*                                                                         *)
(* Each request is made once.  A request may be lost at any of its steps   *)
(* (process killed, connection dropped): the database then rolls its       *)
(* transaction back and frees its locks.                                   *)
(***************************************************************************)
EXTENDS Integers, Sequences, FiniteSets

CONSTANTS
    Products,               \* products of one business
    DashboardRequests,      \* requests to the /inventory endpoints
    ConversationRequests,   \* stock commands of the WhatsApp conversation
    OtherRequests,          \* requests of other modules that lock stock rows
    NoRequest,              \* "no transaction": a free row lock
    MaxInteger,             \* largest value of a PostgreSQL INTEGER column
    Quantities,             \* opening quantities a client may ask for
    Thresholds,             \* low-stock thresholds a client may ask for
    Deltas                  \* signed stock changes a client may ask for

InventoryRequests == DashboardRequests \cup ConversationRequests

Requests == InventoryRequests \cup OtherRequests

Quantity == 0 .. MaxInteger

ASSUME InventoryAssumption ==
    /\ MaxInteger \in Nat
    /\ 0 \in Quantities
    /\ Quantities \subseteq Quantity
    /\ 0 \in Thresholds
    /\ Thresholds \subseteq Quantity
    /\ Deltas \subseteq Int
    /\ NoRequest \notin Requests
    /\ InventoryRequests \cap OtherRequests = {}

VARIABLES
    rows,        \* products that have an inventory row
    quantity,    \* committed inventory.quantity
    threshold,   \* committed inventory.low_stock_threshold
    opening,     \* history: the quantity a row was created with
    movements,   \* committed stock_movement rows per product, in id order
    rowLock,     \* who holds FOR UPDATE on a product's inventory row
    lowStock,    \* LowStock events handed to the event bus
    adj          \* state of every inventory request

stockVars == <<rows, quantity, threshold, opening, movements, rowLock>>
invVars == <<stockVars, lowStock, adj>>

Ledger == INSTANCE StockLedger

Finished == {"done", "failed", "crashed"}

AdjState ==
    [pc : {"new", "insert", "set_threshold", "lock", "lock_held", "apply",
           "publish"} \cup Finished,
     product : Products,
     arg : Int,         \* the change, or the threshold, that is asked for
     q : Quantity,      \* quantity attribute of the session's object
     t : Quantity]      \* low_stock_threshold attribute of that object

LowStockEvent == [product : Products, quantity : Quantity, threshold : Quantity]

StockTypeOK ==
    /\ rows \subseteq Products
    /\ quantity \in [Products -> Quantity]
    /\ threshold \in [Products -> Quantity]
    /\ opening \in [Products -> Quantity]
    /\ movements \in [Products -> Seq(Ledger!Movement)]
    /\ rowLock \in [Products -> Requests \cup {NoRequest}]
    /\ lowStock \subseteq LowStockEvent

AdjTypeOK ==
    /\ adj \in [InventoryRequests -> AdjState]
    /\ \A r \in InventoryRequests :
         adj[r].pc = "set_threshold" => adj[r].arg \in Quantity

InvTypeOK == StockTypeOK /\ AdjTypeOK

-----------------------------------------------------------------------------
(* The business starts with some rows already created; the quantity of an  *)
(* absent row is 0 and means nothing.                                      *)
StockInit ==
    /\ rows \in SUBSET Products
    /\ quantity \in [Products -> Quantities]
    /\ threshold \in [Products -> Thresholds]
    /\ \A p \in Products \ rows : quantity[p] = 0 /\ threshold[p] = 0
    /\ opening = quantity
    /\ movements = [p \in Products |-> <<>>]
    /\ rowLock = [p \in Products |-> NoRequest]

AdjInit ==
    /\ lowStock = {}
    /\ \E p \in Products :
        adj = [r \in InventoryRequests |->
                 [pc |-> "new", product |-> p, arg |-> 0, q |-> 0, t |-> 0]]

InvInit == StockInit /\ AdjInit

-----------------------------------------------------------------------------
(* Row locks.                                                              *)

(* SELECT ... FOR UPDATE and UPDATE of p's row wait for its holder.        *)
Unlocked(p) == rowLock[p] = NoRequest

(* COMMIT and ROLLBACK free every lock of the transaction.                 *)
Released(r) == [p \in Products |-> IF rowLock[p] = r THEN NoRequest ELSE rowLock[p]]

Goto(r, label) == adj' = [adj EXCEPT ![r] = [@ EXCEPT !.pc = label]]

-----------------------------------------------------------------------------
(* create_inventory: exists_for_product is a plain read ...                *)
BeginCreate(r, p, q, t) ==
    /\ adj[r].pc = "new"
    /\ r \in DashboardRequests
    /\ adj' = [adj EXCEPT ![r] =
                 [pc |-> IF p \in rows THEN "failed" ELSE "insert",
                  product |-> p, arg |-> 0, q |-> q, t |-> t]]
    /\ UNCHANGED <<stockVars, lowStock>>

(* ... and the INSERT meets uq_inventory_product_id: of two racing creates *)
(* the later one gets the IntegrityError and answers 409.                  *)
InsertRow(r) ==
    LET p == adj[r].product IN
    /\ adj[r].pc = "insert"
    /\ IF p \in rows
       THEN /\ Goto(r, "failed")
            /\ UNCHANGED <<rows, quantity, threshold, opening>>
       ELSE /\ Goto(r, "done")
            /\ rows' = rows \cup {p}
            /\ quantity' = [quantity EXCEPT ![p] = adj[r].q]
            /\ threshold' = [threshold EXCEPT ![p] = adj[r].t]
            /\ opening' = [opening EXCEPT ![p] = adj[r].q]
    /\ UNCHANGED <<movements, rowLock, lowStock>>

(* update_threshold: the row is read without a lock ...                    *)
BeginThreshold(r, p, t) ==
    /\ adj[r].pc = "new"
    /\ r \in DashboardRequests
    /\ adj' = [adj EXCEPT ![r] =
                 [pc |-> IF p \in rows THEN "set_threshold" ELSE "failed",
                  product |-> p, arg |-> t, q |-> quantity[p], t |-> threshold[p]]]
    /\ UNCHANGED <<stockVars, lowStock>>

(* ... and the UPDATE, of this one column, waits for whoever holds the     *)
(* row.  The session sends none when the value it read is the one asked    *)
(* for.                                                                    *)
SetThreshold(r) ==
    LET p == adj[r].product IN
    /\ adj[r].pc = "set_threshold"
    /\ IF adj[r].arg = adj[r].t
       THEN UNCHANGED threshold
       ELSE Unlocked(p) /\ threshold' = [threshold EXCEPT ![p] = adj[r].arg]
    /\ Goto(r, "done")
    /\ UNCHANGED <<rows, quantity, opening, movements, rowLock, lowStock>>

-----------------------------------------------------------------------------
(* adjust_stock from the dashboard.                                        *)
BeginAdjust(r, p, d) ==
    /\ adj[r].pc = "new"
    /\ r \in DashboardRequests
    /\ adj' = [adj EXCEPT ![r] =
                 [pc |-> IF d = 0 THEN "failed" ELSE "lock",
                  product |-> p, arg |-> d, q |-> 0, t |-> 0]]
    /\ UNCHANGED <<stockVars, lowStock>>

(* Fault: the row is read with a plain SELECT, so the lock is not waited   *)
(* for.                                                                    *)
LockRowWithoutWaiting(r) ==
    LET p == adj[r].product IN
    /\ adj[r].pc = "lock"
    /\ p \in rows
    /\ rowLock' = [rowLock EXCEPT ![p] = r]
    /\ adj' = [adj EXCEPT ![r] =
         [@ EXCEPT !.pc = "apply", !.q = quantity[p], !.t = threshold[p]]]
    /\ UNCHANGED <<rows, quantity, threshold, opening, movements, lowStock>>

(* lock_for_update loads the row it locks.                                 *)
LockRow(r) ==
    LET p == adj[r].product IN
    /\ adj[r].pc = "lock"
    /\ Unlocked(p)
    /\ IF p \in rows
       THEN /\ rowLock' = [rowLock EXCEPT ![p] = r]
            /\ adj' = [adj EXCEPT ![r] =
                 [@ EXCEPT !.pc = "apply", !.q = quantity[p], !.t = threshold[p]]]
       ELSE Goto(r, "failed") /\ UNCHANGED rowLock
    /\ UNCHANGED <<rows, quantity, threshold, opening, movements, lowStock>>

(* adjust_stock_by_product, as the conversation's AdjustStockHandler calls *)
(* it: the row is first loaded without a lock ...                          *)
BeginAdjustByProduct(r, p, d) ==
    /\ adj[r].pc = "new"
    /\ r \in ConversationRequests
    /\ adj' = [adj EXCEPT ![r] =
                 [pc |-> IF p \in rows /\ d # 0 THEN "lock_held" ELSE "failed",
                  product |-> p, arg |-> d, q |-> quantity[p], t |-> threshold[p]]]
    /\ UNCHANGED <<stockVars, lowStock>>

(* ... and lock_for_update returns the object loaded then.                 *)
LockHeldRow(r) ==
    LET p == adj[r].product IN
    /\ adj[r].pc = "lock_held"
    /\ Unlocked(p)
    /\ rowLock' = [rowLock EXCEPT ![p] = r]
    /\ Goto(r, "apply")
    /\ UNCHANGED <<rows, quantity, threshold, opening, movements, lowStock>>

(* Fault: the change is not checked against the stock.                     *)
NotAboveMaximum(new) == new <= MaxInteger

(* A negative result raises InsufficientStockError, one beyond the column  *)
(* a DataError.                                                            *)
InStock(new) == new \in Quantity

(* Fault: the threshold is compared with the quantity before the change.   *)
WasLow(r, new) == adj[r].q <= adj[r].t

RunsLow(r, new) == new <= adj[r].t

(* Fault: the row is updated relative to its committed quantity, the       *)
(* movement reports the session's result.                                  *)
CommitRelativeUpdate(r) ==
    LET p   == adj[r].product
        new == adj[r].q + adj[r].arg
    IN
    /\ adj[r].pc = "apply"
    /\ InStock(new)
    /\ quantity' = [quantity EXCEPT ![p] = @ + adj[r].arg]
    /\ movements' = [movements EXCEPT ![p] =
         Append(@, [delta |-> adj[r].arg, resulting |-> new])]
    /\ Goto(r, "done")
    /\ rowLock' = Released(r)
    /\ UNCHANGED <<rows, threshold, opening, lowStock>>

(* The rest of adjust_stock: row and movement become visible at its COMMIT.*)
CommitAdjustment(r) ==
    LET p   == adj[r].product
        new == adj[r].q + adj[r].arg
    IN
    /\ adj[r].pc = "apply"
    /\ InStock(new)
    /\ quantity' = [quantity EXCEPT ![p] = new]
    /\ movements' = [movements EXCEPT ![p] =
         Append(@, [delta |-> adj[r].arg, resulting |-> new])]
    /\ adj' = [adj EXCEPT ![r] =
         [@ EXCEPT !.pc = IF RunsLow(r, new) THEN "publish" ELSE "done", !.q = new]]
    /\ rowLock' = Released(r)
    /\ UNCHANGED <<rows, threshold, opening, lowStock>>

(* Fault: the refusal leaves the transaction open.                         *)
RefuseKeepingLock(r) ==
    /\ adj[r].pc = "apply"
    /\ ~InStock(adj[r].q + adj[r].arg)
    /\ Goto(r, "failed")
    /\ UNCHANGED <<stockVars, lowStock>>

(* A refused change rolls its transaction back.                            *)
RefuseAdjustment(r) ==
    /\ adj[r].pc = "apply"
    /\ ~InStock(adj[r].q + adj[r].arg)
    /\ Goto(r, "failed")
    /\ rowLock' = Released(r)
    /\ UNCHANGED <<rows, quantity, threshold, opening, movements, lowStock>>

ApplyAdjustment(r) == CommitAdjustment(r) \/ RefuseAdjustment(r)

(* After the commit, outside any transaction.                              *)
PublishLowStock(r) ==
    /\ adj[r].pc = "publish"
    /\ lowStock' = lowStock \cup {[product |-> adj[r].product,
                                   quantity |-> adj[r].q,
                                   threshold |-> adj[r].t]}
    /\ Goto(r, "done")
    /\ UNCHANGED stockVars

(* The request dies; the database undoes its open transaction.             *)
CrashAdj(r) ==
    /\ adj[r].pc \notin Finished \cup {"new"}
    /\ Goto(r, "crashed")
    /\ rowLock' = Released(r)
    /\ UNCHANGED <<rows, quantity, threshold, opening, movements, lowStock>>

-----------------------------------------------------------------------------
BeginAdj(r) ==
    \E p \in Products :
        \/ \E q \in Quantities, t \in Thresholds : BeginCreate(r, p, q, t)
        \/ \E t \in Thresholds : BeginThreshold(r, p, t)
        \/ \E d \in Deltas : BeginAdjust(r, p, d) \/ BeginAdjustByProduct(r, p, d)

(* The steps a request makes once it has begun.                            *)
ContinueAdj(r) ==
    \/ InsertRow(r)
    \/ SetThreshold(r)
    \/ LockRow(r)
    \/ LockHeldRow(r)
    \/ ApplyAdjustment(r)
    \/ PublishLowStock(r)

AdjNext == \E r \in InventoryRequests : BeginAdj(r) \/ ContinueAdj(r) \/ CrashAdj(r)

(* Every request has been made and answered: nothing is left to do.        *)
AdjQuiet == \A r \in InventoryRequests : adj[r].pc \in Finished

InvNext == AdjNext \/ (AdjQuiet /\ UNCHANGED invVars)

InvSpec == InvInit /\ [][InvNext]_invVars

(* The thread pool keeps running every request that has begun, and the     *)
(* database grants a free row lock to somebody who waits for it.           *)
InvFairSpec == InvSpec /\ \A r \in InventoryRequests : WF_invVars(ContinueAdj(r))
-----------------------------------------------------------------------------
(* A stock row is locked by exactly the requests that are between their    *)
(* SELECT ... FOR UPDATE and the end of their transaction: no path out of  *)
(* adjust_stock, the failing ones included, leaves a row locked, and no    *)
(* two requests are ever in that section for the same row.                 *)
LockDiscipline ==
    /\ \A r \in InventoryRequests :
        adj[r].pc = "apply" => rowLock[adj[r].product] = r
    /\ \A p \in Products :
        rowLock[p] \in InventoryRequests =>
            /\ adj[rowLock[p]].pc = "apply"
            /\ adj[rowLock[p]].product = p

(* A request that is about to write a row works on the row as it is now:   *)
(* neither the quantity nor the threshold it read has changed since.  This *)
(* is what the row lock is for; it holds for adjust_stock.                 *)
LockedCopyIsCurrent ==
    \A r \in InventoryRequests :
        adj[r].pc = "apply" =>
            /\ adj[r].product \in rows
            /\ adj[r].q = quantity[adj[r].product]
            /\ adj[r].t = threshold[adj[r].product]

(* The inventory module implements StockLedger, the atomic ledger: every   *)
(* committed change of a quantity is the sum of the movements committed    *)
(* with it (a refinement mapping that hides sessions, locks and events).   *)
LedgerSpec == Ledger!Spec

(* Whatever the interleaving, the quantity a shopkeeper sees is the one    *)
(* the newest movement reports: row and history are written by one         *)
(* transaction.  It holds for the conversation path too.                   *)
LastMovementIsQuantity ==
    \A p \in Products : quantity[p] = Ledger!After(opening[p], movements[p])

(* The ledger balances.  The docstring of InventoryService promises it for *)
(* adjust_stock_by_product as well ("concurrent adjustments cannot ...     *)
(* race"); with two adjustments of the conversation path it does not hold. *)
Balanced == Ledger!Balanced

(* Whether to raise LowStock is decided on the threshold in force at the   *)
(* commit: an adjustment that commits a quantity at or below it goes on to *)
(* publish, and one above it does not, even while update_threshold runs.   *)
LowStockDecidedAtCommit ==
    [][\A r \in InventoryRequests :
         LET p == adj[r].product IN
         adj[r].pc = "apply" /\ movements'[p] # movements[p] =>
            (adj'[r].pc = "publish" <=> quantity'[p] <= threshold[p])]_invVars

(* Every request that begins is answered or lost: row locks are always     *)
(* given back, so nobody waits for one for ever.                           *)
Answered ==
    \A r \in InventoryRequests : (adj[r].pc # "new") ~> (adj[r].pc \in Finished)
=============================================================================
