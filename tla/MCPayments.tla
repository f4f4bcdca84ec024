----------------------------- MODULE MCPayments -----------------------------
(***************************************************************************)
(* Instances of Payments for TLC: one product, one or two orders of one    *)
(* unit each, and a few requests of each kind.                             *)
(***************************************************************************)
EXTENDS Payments, TLC

CONSTANT rice

MCLines == [o \in OrderIds |-> << [product |-> rice, quantity |-> 1] >>]

MCQuantities == {0, 2}
MCThresholds == {0}
MCDeltas == {1}

(* Every order is confirmed, so that the only event a client can send is   *)
(* CANCEL.                                                                 *)
MCCancellations ==
    /\ Init
    /\ \A o \in OrderIds : status[o] = "CONFIRMED"
    /\ [][Next]_vars

(* A stock adjustment shares no row with a payment, and Orders lets it     *)
(* overlap with transitions: here it comes when the others have ended.     *)
AdjustmentLast ==
    \A d \in DashboardRequests :
        /\ adj[d].pc \notin {"insert", "set_threshold"}
        /\ adj[d].pc # "new" => PayQuiet /\ OrdQuiet

MCSymmetry ==
    Permutations(OrderIds) \cup Permutations(OrderRequests)
        \cup Permutations(PaymentRequests) \cup Permutations(OldPayments)
=============================================================================
