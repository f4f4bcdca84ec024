------------------------------ MODULE Invoices ------------------------------
(***************************************************************************)
(* The invoices of app/invoice, next to the orders they are made for, of   *)
(* which they may rely on no more than PaidOrders promises.                *)
(*                                                                         *)
(* A generation reads the order and looks for an invoice without a lock,   *)
(* takes a number (an UPSERT that locks the counter row of the year until  *)
(* the transaction ends), inserts the invoice, which the unique order_id   *)
(* may refuse, and commits number and invoice together.  The document is   *)
(* rendered, stored and referred to after that commit, by the generation   *)
(* or by any later download.  A request that is refused or answered on its *)
(* first reads leaves no trace and is a stuttering step.                   *)
(*                                                                         *)
(* One business; the year is that of the clock when the transaction        *)
(* starts.  The snapshot's amounts and names are left out.                 *)
(***************************************************************************)
EXTENDS Integers, PaidOrders

CONSTANTS
    Generations,   \* requests to generate an invoice; the invoice is named by them
    Downloads,     \* requests to download one
    Years,
    None           \* NULL

VARIABLES
    invoice,      \* invoice rows
    counter,      \* invoice_counter.next_seq of every year, 0 without a row
    counterLock,  \* the transaction that holds the counter row of a year
    document,     \* what the object storage has under the key of an invoice
    req           \* where every request stands

Requests == Generations \cup Downloads

bookVars == <<invoice, counter, counterLock>>
invoiceVars == <<bookVars, document, req>>
allVars == <<vars, invoiceVars>>

Number == Nat \ {0}

Invoice == [order : OrderIds, year : Years, number : Number, pdf : BOOLEAN]

InTransaction == {"insert", "commit"}
Working == {"counter", "render", "refer"} \cup InTransaction

ASSUME InvoicesAssumption ==
    /\ None \notin OrderIds \cup Requests \cup Years
    /\ None \notin Invoice
    /\ Generations \cap Downloads = {}

Issued == {i \in Generations : invoice[i] # None}

New == [pc |-> "new", order |-> None, year |-> None, seq |-> 0, inv |-> None]

InvoicesInit ==
    /\ Init
    /\ invoice = [i \in Generations |-> None]
    /\ counter = [y \in Years |-> 0]
    /\ counterLock = [y \in Years |-> None]
    /\ document = [i \in Generations |-> "none"]
    /\ req = [r \in Requests |-> New]

-----------------------------------------------------------------------------
(* Fault: a confirmed order is invoiced before it is paid.                 *)
ConfirmedToo == HoldingStates

INVOICEABLE_STATES == {"PAID", "PACKED", "SHIPPED", "DELIVERED", "COMPLETED"}

(* generate: the order is paid and has no invoice yet.                     *)
BeginGenerate(r, o, y) ==
    /\ req[r].pc = "new"
    /\ status[o] \in INVOICEABLE_STATES
    /\ \A i \in Issued : invoice[i].order # o
    /\ req' = [req EXCEPT ![r] = [New EXCEPT !.pc = "counter", !.order = o, !.year = y]]
    /\ UNCHANGED <<bookVars, document>>

(* Fault: the number is the last one given.                                *)
LastNumber(y) == counter[y]

NextNumber(y) == counter[y] + 1

(* next_sequence waits for the counter row and keeps it.                   *)
TakeNumber(r) ==
    LET y == req[r].year IN
    /\ req[r].pc = "counter"
    /\ counterLock[y] = None
    /\ counterLock' = [counterLock EXCEPT ![y] = r]
    /\ req' = [req EXCEPT ![r].pc = "insert", ![r].seq = NextNumber(y)]
    /\ UNCHANGED <<invoice, counter, document>>

(* Fault: there is no unique index on order_id.                            *)
NeverBilled(o) == {}

(* The committed invoices of an order.                                     *)
Billed(o) == {i \in Issued : invoice[i].order = o}

(* The flush of the invoice waits for an uncommitted one of the order.     *)
InsertInvoice(r) ==
    /\ req[r].pc = "insert"
    /\ Billed(req[r].order) = {}
    /\ \A q \in Requests : req[q].pc = "commit" => req[q].order # req[r].order
    /\ req' = [req EXCEPT ![r].pc = "commit"]
    /\ UNCHANGED <<bookVars, document>>

Unlocked(r) == [y \in Years |-> IF counterLock[y] = r THEN None ELSE counterLock[y]]

(* IntegrityError: roll back, number included, and go on with the invoice  *)
(* of the winner.  (No two numbers collide, so there always is one.)       *)
LoseRace(r) ==
    /\ req[r].pc = "insert"
    /\ \E i \in Billed(req[r].order) :
         req' = [req EXCEPT ![r].pc = "render", ![r].inv = i]
    /\ counterLock' = Unlocked(r)
    /\ UNCHANGED <<invoice, counter, document>>

CommitInvoice(r) ==
    LET q == req[r] IN
    /\ q.pc = "commit"
    /\ invoice' = [invoice EXCEPT ![r] =
                     [order |-> q.order, year |-> q.year, number |-> q.seq, pdf |-> FALSE]]
    /\ counter' = [counter EXCEPT ![q.year] = q.seq]
    /\ counterLock' = Unlocked(r)
    /\ req' = [req EXCEPT ![r].pc = "render", ![r].inv = r]
    /\ UNCHANGED document

(* Fault: the increment is not part of the transaction.                    *)
AbortKeepingNumber(r) ==
    /\ req[r].pc \in Working
    /\ counter' = [y \in Years |-> IF counterLock[y] = r THEN req[r].seq ELSE counter[y]]
    /\ counterLock' = Unlocked(r)
    /\ req' = [req EXCEPT ![r] = [New EXCEPT !.pc = "failed"]]
    /\ UNCHANGED <<invoice, document>>

(* Fault: the error is raised but the transaction is not rolled back.      *)
AbortInTransaction(r) ==
    /\ req[r].pc \in Working
    /\ req' = [req EXCEPT ![r] = [New EXCEPT !.pc = "failed"]]
    /\ UNCHANGED <<bookVars, document>>

(* An error nothing handles, or the process dies: the transaction is       *)
(* rolled back, what was committed or stored stays.                        *)
Abort(r) ==
    /\ req[r].pc \in Working
    /\ counterLock' = Unlocked(r)
    /\ req' = [req EXCEPT ![r] = [New EXCEPT !.pc = "failed"]]
    /\ UNCHANGED <<invoice, counter, document>>

-----------------------------------------------------------------------------
(* get_pdf renders again when the invoice has no document, or when the     *)
(* storage does not deliver it.                                            *)
BeginDownload(r, i) ==
    /\ req[r].pc = "new"
    /\ i \in Issued
    /\ req' = [req EXCEPT ![r] = [New EXCEPT !.pc = "render", !.inv = i]]
    /\ UNCHANGED <<bookVars, document>>

Done(r) == req' = [req EXCEPT ![r] = [New EXCEPT !.pc = "done"]]

StorePdf(r) ==
    /\ req[r].pc = "render"
    /\ document' = [document EXCEPT ![req[r].inv] = "stored"]
    /\ req' = [req EXCEPT ![r].pc = "refer"]
    /\ UNCHANGED bookVars

Refer(i) == invoice' = [invoice EXCEPT ![i].pdf = TRUE]

(* Fault: the reference is written although the document was not stored.   *)
PdfFailsUnnoticed(r) ==
    /\ req[r].pc = "render"
    /\ Refer(req[r].inv)
    /\ Done(r)
    /\ UNCHANGED <<counter, counterLock, document>>

(* Rendering or storing fails: _ensure_pdf logs it and answers without.    *)
PdfFails(r) ==
    /\ req[r].pc = "render"
    /\ Done(r)
    /\ UNCHANGED <<bookVars, document>>

ReferToPdf(r) ==
    /\ req[r].pc = "refer"
    /\ Refer(req[r].inv)
    /\ Done(r)
    /\ UNCHANGED <<counter, counterLock, document>>

(* The object storage loses a document (get_pdf is written for it).        *)
LoseDocument(i) ==
    /\ document[i] = "stored"
    /\ document' = [document EXCEPT ![i] = "lost"]
    /\ UNCHANGED <<bookVars, req>>

-----------------------------------------------------------------------------
BeginInvoiceRequest(r) ==
    \/ r \in Generations /\ \E o \in OrderIds, y \in Years : BeginGenerate(r, o, y)
    \/ r \in Downloads /\ \E i \in Generations : BeginDownload(r, i)

ContinueInvoiceRequest(r) ==
    \/ TakeNumber(r) \/ InsertInvoice(r) \/ LoseRace(r) \/ CommitInvoice(r)
    \/ StorePdf(r) \/ PdfFails(r) \/ ReferToPdf(r)

InvoicesStep ==
    \/ \E r \in Requests :
         BeginInvoiceRequest(r) \/ ContinueInvoiceRequest(r) \/ Abort(r)
    \/ \E i \in Generations : LoseDocument(i)

InvoicesAnswered ==
    /\ \A r \in Requests : req[r].pc \notin Working
    /\ UNCHANGED invoiceVars

InvoicesNext ==
    \/ InvoicesStep /\ UNCHANGED vars
    \/ Next /\ UNCHANGED invoiceVars
    \/ InvoicesAnswered /\ UNCHANGED vars

InvoicesSpec == InvoicesInit /\ [][InvoicesNext]_allVars

(* A generation that has begun goes on: the counter row is free again when    *)
(* its holder ends, rendering and storing end or fail.                     *)
InvoicesFairness ==
    \A r \in Generations : WF_allVars(ContinueInvoiceRequest(r) /\ UNCHANGED vars)

-----------------------------------------------------------------------------
InvoicesTypeOK ==
    /\ invoice \in [Generations -> Invoice \cup {None}]
    /\ counter \in [Years -> Nat]
    /\ counterLock \in [Years -> Generations \cup {None}]
    /\ document \in [Generations -> {"none", "stored", "lost"}]
    /\ req \in [Requests -> [pc : Working \cup {"new", "done", "failed"},
                             order : OrderIds \cup {None}, year : Years \cup {None},
                             seq : Nat, inv : Generations \cup {None}]]

(* "Gap-free" (repository.py, next_sequence): at every moment the numbers  *)
(* of a year are exactly 1 .. next_seq, each on one invoice, whatever has  *)
(* been rolled back in between.                                            *)
GapFreeNumbers ==
    \A y \in Years :
        /\ {invoice[i].number : i \in {j \in Issued : invoice[j].year = y}} = 1 .. counter[y]
        /\ \A i, j \in Issued :
             /\ invoice[i].year = y /\ invoice[j].year = y
             /\ invoice[i].number = invoice[j].number
             => i = j

(* An order with an invoice has been paid for, although generate reads its *)
(* status without a lock and overlapping transitions may have left the     *)
(* paid states, for CANCELLED even, when the invoice is committed.         *)
InvoicedOrdersArePaid == \A i \in Issued : invoice[i].order \in paid

(* "No fake reference is written" (_ensure_pdf): an invoice that refers to *)
(* a document had it stored, by this request or by another.                *)
NoFakeReference == \A i \in Issued : invoice[i].pdf => document[i] # "none"

(* Every generation that has begun is answered, whoever else waits for the *)
(* counter row or loses the race for the order.                            *)
GenerationsEnd ==
    \A r \in Generations : (req[r].pc \in Working) ~> (req[r].pc \notin Working)

(* The order that holds number n of year y.                                *)
NumberedOrder(y, n) ==
    invoice[CHOOSE i \in Issued : invoice[i].year = y /\ invoice[i].number = n].order

Book == INSTANCE InvoiceBook WITH
    book <- [y \in Years |-> [n \in 1 .. counter[y] |-> NumberedOrder(y, n)]]

(* The module implements the books: the numbers of a year are given in the *)
(* order of the commits, and no order is entered in two lines or years.    *)
BookSpec == Book!Spec
=============================================================================
