------------------------------ MODULE MCOrders ------------------------------
(***************************************************************************)
(* Instances of Orders for TLC.  Two orders name the same two products in  *)
(* opposite order, one of them names a product twice: the lock order of    *)
(* their transactions differs, so they can deadlock.                       *)
(***************************************************************************)
EXTENDS Orders, TLC

CONSTANTS rice, dal, o1, o2

MCLines ==
    (o1 :> << [product |-> rice, quantity |-> 1],
              [product |-> dal,  quantity |-> 1] >>) @@
    (o2 :> << [product |-> dal,  quantity |-> 1],
              [product |-> rice, quantity |-> 1],
              [product |-> dal,  quantity |-> 1] >>)

MCQuantities == {0, 2}
MCThresholds == {0}
MCDeltas == {-1}

Symmetry == Permutations(OrderRequests)
=============================================================================
