--------------------------- MODULE OrderLifecycle ---------------------------
(***************************************************************************)
(* What the order and payment modules promise together, with every         *)
(* operation atomic: the lifecycle of an order, the stock it holds and     *)
(* whether it has been paid for.                                           *)
(*                                                                         *)
(* The rules are the TRANSITIONS table of app/order/models.py; that PAY    *)
(* happens exactly when a payment of the order succeeds is the contract of *)
(* app/payment/service.py.  The module Payments is shown to keep it as     *)
(* long as transitions overlap no other request about their order.         *)
(***************************************************************************)
EXTENDS Integers

CONSTANT OrderIds

VARIABLES
    status,   \* status of every order; "NONE" before it is created
    taken,    \* how many times the order's lines are missing from stock
    paid      \* orders with a successful payment

vars == <<status, taken, paid>>

(* An order's goods are out of stock in these states, its money is in in   *)
(* those.                                                                  *)
PaidStates == {"PAID", "PACKED", "SHIPPED", "DELIVERED", "COMPLETED"}
HoldingStates == PaidStates \cup {"CONFIRMED"}

OrderStatus == HoldingStates \cup {"NONE", "CREATED", "CANCELLED"}

TypeOK ==
    /\ status \in [OrderIds -> OrderStatus]
    /\ taken \in [OrderIds -> Int]
    /\ paid \subseteq OrderIds

-----------------------------------------------------------------------------
Init ==
    /\ status \in [OrderIds -> {"NONE", "CREATED", "CONFIRMED"}]
    /\ taken = [o \in OrderIds |-> IF status[o] = "CONFIRMED" THEN 1 ELSE 0]
    /\ paid = {}

Move(o, from, to) ==
    /\ status[o] = from
    /\ status' = [status EXCEPT ![o] = to]

Create(o) == Move(o, "NONE", "CREATED") /\ UNCHANGED <<taken, paid>>

Confirm(o) ==
    /\ Move(o, "CREATED", "CONFIRMED")
    /\ taken' = [taken EXCEPT ![o] = @ + 1]
    /\ UNCHANGED paid

Drop(o) == Move(o, "CREATED", "CANCELLED") /\ UNCHANGED <<taken, paid>>

Cancel(o) ==
    /\ Move(o, "CONFIRMED", "CANCELLED")
    /\ taken' = [taken EXCEPT ![o] = @ - 1]
    /\ UNCHANGED paid

Pay(o) ==
    /\ Move(o, "CONFIRMED", "PAID")
    /\ paid' = paid \cup {o}
    /\ UNCHANGED taken

Deliver(o) ==
    /\ \/ Move(o, "PAID", "PACKED")
       \/ Move(o, "PACKED", "SHIPPED")
       \/ Move(o, "SHIPPED", "DELIVERED")
       \/ Move(o, "DELIVERED", "COMPLETED")
    /\ UNCHANGED <<taken, paid>>

Next ==
    \E o \in OrderIds :
        Create(o) \/ Confirm(o) \/ Drop(o) \/ Cancel(o) \/ Pay(o) \/ Deliver(o)

Spec == Init /\ [][Next]_vars

-----------------------------------------------------------------------------
(* An order's goods are out of stock exactly once while it is confirmed or *)
(* later, and not at all before or after it is cancelled.                  *)
StockHeldOnce ==
    \A o \in OrderIds : taken[o] = IF status[o] \in HoldingStates THEN 1 ELSE 0

(* The money has been taken exactly for the orders that are PAID or later. *)
PaidMeansMoney == paid = {o \in OrderIds : status[o] \in PaidStates}
=============================================================================
