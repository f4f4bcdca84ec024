---------------------------- MODULE StockLedger ----------------------------
(***************************************************************************)
(* What the inventory module promises its callers, with every operation    *)
(* atomic: a product has at most one stock row, the row's quantity is      *)
(* never negative and never leaves the INTEGER column's range, and every   *)
(* change of the quantity is explained by the movements that were appended *)
(* together with it.                                                       *)
(*                                                                         *)
(* app/inventory/service.py states the promise ("the single authority for  *)
(* stock mutations"); the modules Inventory and Orders are shown to keep   *)
(* it.                                                                     *)
(***************************************************************************)
EXTENDS Integers, Sequences

CONSTANTS
    Products,     \* products of one business
    MaxInteger    \* largest value of a PostgreSQL INTEGER column

VARIABLES
    rows,         \* products that have an inventory row
    quantity,     \* inventory.quantity
    opening,      \* the quantity each row was created with
    movements     \* stock_movement rows of each product, in id order

vars == <<rows, quantity, opening, movements>>

Quantity == 0 .. MaxInteger

Movement == [delta : Int, resulting : Quantity]

TypeOK ==
    /\ rows \subseteq Products
    /\ quantity \in [Products -> Quantity]
    /\ opening \in [Products -> Quantity]
    /\ movements \in [Products -> Seq(Movement)]

-----------------------------------------------------------------------------
(* The quantity a run of movements m starts from at its i-th entry, when   *)
(* the row held q before the first.                                        *)
Before(q, m, i) == IF i = 1 THEN q ELSE m[i - 1].resulting

(* Every entry of m from the first-th on takes the quantity from where the *)
(* previous entry left it by exactly its delta.                            *)
Chained(q, m, first) ==
    \A i \in first .. Len(m) :
        m[i].resulting = Before(q, m, i) + m[i].delta

(* The quantity after the movements m of a row that started at q.          *)
After(q, m) == IF m = <<>> THEN q ELSE m[Len(m)].resulting

(* m extends the history h without rewriting it.                           *)
Extends(h, m) ==
    /\ Len(h) <= Len(m)
    /\ \A i \in 1 .. Len(h) : m[i] = h[i]

-----------------------------------------------------------------------------
Init ==
    /\ rows \subseteq Products
    /\ quantity \in [Products -> Quantity]
    /\ opening = quantity
    /\ movements = [p \in Products |-> <<>>]

(* A row is created for a product that has none.                           *)
Open(p) ==
    /\ p \notin rows
    /\ rows' = rows \cup {p}
    /\ quantity' \in [Products -> Quantity]
    /\ \A x \in Products \ {p} : quantity'[x] = quantity[x]
    /\ opening' = [opening EXCEPT ![p] = quantity'[p]]
    /\ UNCHANGED movements

(* One transaction posts movements to any number of products.              *)
Post ==
    /\ movements' \in [Products -> Seq(Movement)]
    /\ \A p \in Products :
        /\ Extends(movements[p], movements'[p])
        /\ Chained(opening[p], movements'[p], Len(movements[p]) + 1)
        /\ movements'[p] # movements[p] => p \in rows
    /\ quantity' = [p \in Products |-> After(opening[p], movements'[p])]
    /\ UNCHANGED <<rows, opening>>

Next ==
    \/ \E p \in Products : Open(p)
    \/ Post

Spec == Init /\ [][Next]_vars

-----------------------------------------------------------------------------
(* The ledger balances: the movements of a product form one unbroken chain *)
(* from its opening quantity to its current one, so the quantity is the    *)
(* opening quantity plus the sum of the deltas.                            *)
Balanced ==
    \A p \in Products :
        /\ Chained(opening[p], movements[p], 1)
        /\ quantity[p] = After(opening[p], movements[p])
        /\ p \notin rows => movements[p] = <<>>
=============================================================================
