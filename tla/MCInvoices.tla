----------------------------- MODULE MCInvoices -----------------------------
(***************************************************************************)
(* The instance of Invoices for TLC: model values, and one paid status     *)
(* with one before and one beside it, which is all that generate tells     *)
(* apart.                                                                  *)
(***************************************************************************)
EXTENDS Invoices

Few == {"CONFIRMED", "PAID", "CANCELLED"}

MCInvoicesInit == InvoicesInit /\ status \in [OrderIds -> Few]

MCInvoicesNext == InvoicesNext /\ status' \in [OrderIds -> Few]

MCInvoicesSpec ==
    MCInvoicesInit /\ [][MCInvoicesNext]_allVars /\ InvoicesFairness
=============================================================================
