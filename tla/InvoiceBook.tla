----------------------------- MODULE InvoiceBook -----------------------------
(***************************************************************************)
(* What app/invoice promises: for every year one book of invoices, filled  *)
(* line by line, in which no order is entered twice.  The position of an   *)
(* order in its book is its invoice number (InvoiceCounter in models.py    *)
(* and next_sequence in repository.py; uq_invoice_order).                  *)
(***************************************************************************)
EXTENDS Sequences, Functions

CONSTANTS OrderIds, Years

VARIABLE book   \* the orders invoiced in every year, in the order of their numbers

Entered(o) == \E y \in Years : o \in Range(book[y])

Init == book = [y \in Years |-> <<>>]

Issue(y, o) ==
    /\ ~Entered(o)
    /\ book' = [book EXCEPT ![y] = Append(@, o)]

Next == \E y \in Years, o \in OrderIds : Issue(y, o)

Spec == Init /\ [][Next]_book
=============================================================================
