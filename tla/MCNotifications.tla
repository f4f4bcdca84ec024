-------------------------- MODULE MCNotifications --------------------------
(***************************************************************************)
(* Instances of Notifications for TLC: an online and a cash payment of one *)
(* confirmed order, that order or another one moved by a client, a stock   *)
(* adjustment that makes the same product run low, and a reader.           *)
(***************************************************************************)
EXTENDS Notifications, TLC

CONSTANTS rice, o1, o2, x1, p1

MCLines == [o \in OrderIds |-> << [product |-> rice, quantity |-> 1] >>]

MCQuantities == {0, 2}
MCThresholds == {0, 1}
MCDeltas == {-1}

(* Stock is at hand, o1 is confirmed and has the payments, o2 is not.      *)
MCShopInit ==
    /\ ShopInit
    /\ quantity[rice] = 2 /\ threshold[rice] = 1
    /\ status[o1] = "CONFIRMED" /\ status[o2] \in {"NONE", "CREATED"}
    /\ \A x \in OldPayments :
         pay[x].order = o1 /\ pay[x].method = IF x = x1 THEN "ONLINE" ELSE "COD"

InFlight ==
    {r \in Publishers : Label(r) \notin Finished \cup {"new"} \/ backlog[r] # {}}

(* Two requests overlap at a time, transitions of an order nothing else    *)
(* about it; each payment request settles a payment of its own, the        *)
(* dashboard adjusts, and the reader comes last.  The order request is     *)
(* about the order of the payments where the other one is not there.       *)
Apart ==
    /\ Cardinality(InFlight) <= 2
    /\ \A r \in DashboardRequests : adj[r].pc \notin {"insert", "set_threshold"}
    /\ TransitionsAlone
    /\ \A r \in OrderRequests : ord[r].order = o1 => status[o2] = "NONE"
    /\ \A r \in PaymentRequests :
         preq[r].pc # "new" => preq[r].payment \in {x \in OldPayments : r = p1 <=> x = x1}

Reading == InFlight = {} /\ \A r \in Publishers : Label(r) # "new"

MCShopNext ==
    /\ ShopNext
    /\ Apart'
    /\ marking' # marking => Reading

MCShopSpec == MCShopInit /\ [][MCShopNext]_shopVars /\ ShopFairness
=============================================================================
