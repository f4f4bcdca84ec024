---------------------------- MODULE MCInventory ----------------------------
(***************************************************************************)
(* Instances of Inventory for TLC: one or two products, a handful of       *)
(* requests, quantities small enough that stock-outs, low stock and the    *)
(* end of the INTEGER range are all reached.                               *)
(***************************************************************************)
EXTENDS Inventory, TLC

MCQuantities == {0, 2}
MCThresholds == {0, 1}
MCDeltas == {-2, 0, 1}

Begun == {r \in InventoryRequests : adj[r].pc # "new"}

(* A stock command of the conversation overlaps with no other request.     *)
(* Three requests are made, and a fourth when the three have failed.       *)
CommandsAlone ==
    /\ \/ Cardinality(Begun) <= 3
       \/ Cardinality({r \in Begun : adj[r].pc # "failed"}) <= 1
    /\ \A r \in ConversationRequests : \A s \in InventoryRequests \ {r} :
         adj[r].pc \in {"new"} \cup Finished \/ adj[s].pc \in {"new"} \cup Finished

Symmetry ==
    Permutations(DashboardRequests) \cup Permutations(ConversationRequests)
        \cup Permutations(Products)
=============================================================================
