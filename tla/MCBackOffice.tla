---------------------------- MODULE MCBackOffice ----------------------------
(***************************************************************************)
(* An instance of BackOffice for TLC: three threads, and a database of one *)
(* business with a row in most tables; a registration may add another one. *)
(***************************************************************************)
EXTENDS BackOffice, TLC

CONSTANTS b1, n1, pen, pens, k1

(* "pens" is looked for, then "pen"; and a query whose words do not widen. *)
MCQueries == { << {pens}, {pen, pens} >>, << {pen}, {pens} >> }

MCQuantities == {0, 2}
MCThresholds == {0}
MCDeltas == {-2, 1}

OldRow(t) ==
    IF t \in {"image", "address"} THEN NoRow
    ELSE [state |-> "live", biz |-> b1, ref |-> Null,
          key |-> IF t = "business" THEN Null ELSE n1,
          label |-> IF t = "category" THEN Null ELSE pen]

MCBackInit ==
    /\ db = [t \in Table |-> [i \in Ids |-> IF i = b1 THEN OldRow(t) ELSE NoRow]]
    /\ objects = {}
    /\ rows = Products /\ quantity = [p \in Products |-> 2]
    /\ BackInit
    /\ expiry[k1] = RefreshTTL
    /\ \A r \in DirRequests : dir[r].id = b1
    /\ \A r \in SessionRequests : sess[r].jti = k1

Writers == {r \in DirRequests : dir[r].pc # "new"}

(* Requests of areas that share no state are not made together.            *)
Area ==
    [category |-> "category", product |-> "shop", image |-> "shop",
     customer |-> "customer", address |-> "customer", business |-> "business",
     user |-> "any"]

Talkers == {r \in ConversationRequests : conv[r].pc # "new"}

Areas ==
    ({Area[dir[r].table] : r \in Writers} \ {"any"})
    \cup {"shop" : r \in Talkers}
    \cup {"sessions" : r \in {r \in SessionRequests : sess[r].pc # "new" \/ now > 0}}

(* Two threads overlap at a time, a third request comes when one has ended;*)
(* two of the three may write master data, one beside a conversation.      *)
InFlight ==
    {r \in ConversationRequests :
        conv[r].pc \notin {"new", "done", "failed", "crashed"} /\ adj[r].pc # "crashed"}
    \cup {r \in DirRequests : dir[r].pc \notin {"new"} \cup DirEnded}
    \cup {r \in SessionRequests : sess[r].pc \notin {"new"} \cup SessEnded}

Bounded ==
    /\ Cardinality(Areas) <= 1
    /\ Cardinality(InFlight) <= 2
    /\ Cardinality(Writers) <= IF Talkers = {} THEN 2 ELSE 1

MCBackNext == BackNext /\ Bounded'

MCBackSpec == MCBackInit /\ [][MCBackNext]_backVars

Symmetry == Permutations(DirRequests)
=============================================================================
