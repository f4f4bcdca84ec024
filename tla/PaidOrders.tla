------------------------------ MODULE PaidOrders ------------------------------
(***************************************************************************)
(* What the order and payment modules promise to whoever reads the status  *)
(* of an order without a lock, however the requests about one order        *)
(* overlap: an order in a paid status has its money, and money that has    *)
(* been taken stays.  Payments is proved to keep this promise.             *)
(*                                                                         *)
(* It is weaker than OrderLifecycle, which needs requests about one order  *)
(* not to overlap: a transition writes the status that follows from the    *)
(* one it has read, whatever has been written since, so any status may     *)
(* follow any other.  A cancelled order may be paid, a paid one cancelled. *)
(***************************************************************************)
CONSTANT OrderIds

VARIABLES
    status,   \* status of every order; "NONE" before it is created
    paid      \* orders with a successful payment

vars == <<status, paid>>

PaidStates == {"PAID", "PACKED", "SHIPPED", "DELIVERED", "COMPLETED"}
HoldingStates == PaidStates \cup {"CONFIRMED"}

OrderStatus == HoldingStates \cup {"NONE", "CREATED", "CANCELLED"}

(* No order had been paid for.                                             *)
Init ==
    /\ status \in [OrderIds -> {"NONE", "CREATED", "CONFIRMED"}]
    /\ paid = {}

(* create_order, or a transition other than PAY: only a status that is     *)
(* paid leads to one that is.                                              *)
Write(o, s) ==
    /\ s \in PaidStates => o \in paid
    /\ status' = [status EXCEPT ![o] = s]
    /\ UNCHANGED paid

(* The commit of PAY and of the payment's SUCCESS.                         *)
Pay(o) ==
    /\ status' = [status EXCEPT ![o] = "PAID"]
    /\ paid' = paid \cup {o}

Next == \E o \in OrderIds : Pay(o) \/ \E s \in OrderStatus \ {"NONE"} : Write(o, s)

Spec == Init /\ [][Next]_vars

-----------------------------------------------------------------------------
(* The promise: no order is PAID or later without its money.               *)
PaidStatusHasMoney == \A o \in OrderIds : status[o] \in PaidStates => o \in paid
=============================================================================
