-------------------------- MODULE Invoices_proofs ---------------------------
(***************************************************************************)
(* Proofs about the invoices, for any number of orders, years and          *)
(* requests.  The numbers are gap-free because the lock of the counter row *)
(* makes one transaction at a time the owner of next_seq + 1, and because  *)
(* number and invoice are committed or rolled back together.               *)
(***************************************************************************)
EXTENDS Invoices, SequenceTheorems, TLAPS

OrdersInv == status \in [OrderIds -> OrderStatus] /\ PaidStatusHasMoney

Billing == {"counter"} \cup InTransaction

RequestOK(r) ==
    /\ req[r].pc \in Billing =>
         /\ r \in Generations /\ invoice[r] = None
         /\ req[r].year \in Years /\ req[r].order \in OrderIds /\ req[r].order \in paid
    /\ req[r].pc = "new" /\ r \in Generations => invoice[r] = None
    /\ req[r].pc \in InTransaction =>
         /\ counterLock[req[r].year] = r
         /\ req[r].seq = counter[req[r].year] + 1
    /\ req[r].pc = "commit" => \A i \in Issued : invoice[i].order # req[r].order
    /\ req[r].pc \in {"render", "refer"} => req[r].inv \in Issued
    /\ req[r].pc = "refer" => document[req[r].inv] # "none"

LockOK(y) ==
    counterLock[y] # None => /\ req[counterLock[y]].pc \in InTransaction
                             /\ req[counterLock[y]].year = y

OneInsertPerOrder ==
    \A r, q \in Requests :
        req[r].pc = "commit" /\ req[q].pc = "commit" /\ req[r].order = req[q].order => r = q

InvoiceOK(i) ==
    /\ invoice[i].order \in paid
    /\ invoice[i].number <= counter[invoice[i].year]
    /\ invoice[i].pdf => document[i] # "none"

OneInvoicePerOrder ==
    \A i, j \in Issued : invoice[i].order = invoice[j].order => i = j

OneInvoicePerNumber ==
    \A i, j \in Issued :
        invoice[i].year = invoice[j].year /\ invoice[i].number = invoice[j].number => i = j

EveryNumberGiven ==
    \A y \in Years : \A n \in 1 .. counter[y] :
        \E i \in Issued : invoice[i].year = y /\ invoice[i].number = n

InvoicesInv ==
    /\ InvoicesTypeOK
    /\ \A r \in Requests : RequestOK(r)
    /\ \A y \in Years : LockOK(y)
    /\ OneInsertPerOrder
    /\ \A i \in Issued : InvoiceOK(i)
    /\ OneInvoicePerOrder
    /\ OneInvoicePerNumber
    /\ EveryNumberGiven

USE InvoicesAssumption

LEMMA InitInvoices == InvoicesInit => InvoicesInv
<1> SUFFICES ASSUME InvoicesInit
             PROVE  InvoicesInv
  OBVIOUS
<1>1. Issued = {}
  BY DEF InvoicesInit, Issued
<1>2. InvoicesTypeOK
  BY DEF InvoicesInit, InvoicesTypeOK, New, Working
<1>3. \A r \in Requests : RequestOK(r)
  BY DEF InvoicesInit, RequestOK, New, Billing, InTransaction
<1>4. /\ \A y \in Years : LockOK(y)
      /\ OneInsertPerOrder
      /\ EveryNumberGiven
  BY DEF InvoicesInit, LockOK, OneInsertPerOrder, EveryNumberGiven, New
<1> QED
  BY <1>1, <1>2, <1>3, <1>4 DEF InvoicesInv, OneInvoicePerOrder, OneInvoicePerNumber

(* The invoices and the money: a step that issues nothing, gives no number *)
(* and forgets no document or payment keeps what holds of the invoices.    *)
LEMMA InvoicesKept ==
    ASSUME InvoicesInv,
           UNCHANGED counter, paid \subseteq paid',
           Issued' = Issued,
           \A i \in Issued : /\ invoice'[i].order = invoice[i].order
                             /\ invoice'[i].year = invoice[i].year
                             /\ invoice'[i].number = invoice[i].number
                             /\ invoice'[i].pdf => document'[i] # "none"
    PROVE  /\ \A i \in Issued' : InvoiceOK(i)'
           /\ OneInvoicePerOrder'
           /\ OneInvoicePerNumber'
           /\ EveryNumberGiven'
<1>1. \A i \in Issued' : InvoiceOK(i)'
  BY DEF InvoicesInv, InvoiceOK
<1>2. OneInvoicePerOrder' /\ OneInvoicePerNumber'
  BY DEF InvoicesInv, OneInvoicePerOrder, OneInvoicePerNumber
<1>3. EveryNumberGiven'
  BY DEF InvoicesInv, EveryNumberGiven
<1> QED
  BY <1>1, <1>2, <1>3

(* A step of r takes no lock from another transaction and no invoice,      *)
(* payment or document from anybody.                                       *)
StepOf(r) ==
    /\ \A q \in Requests \ {r} : req'[q] = req[q]
    /\ \A i \in Generations \ {r} : invoice[i] = None => invoice'[i] = None
    /\ Issued \subseteq Issued' /\ \A i \in Issued : invoice'[i].order = invoice[i].order
    /\ paid \subseteq paid'
    /\ \A i \in Issued : document[i] # "none" => document'[i] # "none"
    /\ \A y \in Years : counterLock[y] \notin {None, r} =>
         counter'[y] = counter[y] /\ counterLock'[y] = counterLock[y]
    /\ \A i \in Issued' \ Issued :
         \A q \in Requests \ {r} : req[q].pc = "commit" => invoice'[i].order # req[q].order

LEMMA RequestsKept ==
    ASSUME InvoicesInv, NEW r \in Requests, StepOf(r), RequestOK(r)'
    PROVE  \A q \in Requests : RequestOK(q)'
<1> SUFFICES ASSUME NEW q \in Requests \ {r}
             PROVE  RequestOK(q)'
  OBVIOUS
<1>1. RequestOK(q) /\ req'[q] = req[q]
  BY DEF InvoicesInv, StepOf
<1>2. q \in Generations /\ invoice[q] = None => invoice'[q] = None
  BY DEF StepOf
<1>3. req[q].pc \in InTransaction =>
        /\ req[q].year \in Years
        /\ counter'[req[q].year] = counter[req[q].year]
        /\ counterLock'[req[q].year] = counterLock[req[q].year]
  BY <1>1 DEF StepOf, RequestOK, Billing
<1>4. req[q].pc = "commit" => \A i \in Issued' : invoice'[i].order # req[q].order
  BY <1>1 DEF StepOf, RequestOK
<1>5. req[q].pc \in {"render", "refer"} => req[q].inv \in Issued'
  BY <1>1 DEF StepOf, RequestOK
<1>6. req[q].pc = "refer" => document'[req[q].inv] # "none"
  BY <1>1 DEF StepOf, RequestOK
<1>7. paid \subseteq paid'
  BY DEF StepOf
<1> QED
  BY <1>1, <1>2, <1>3, <1>4, <1>5, <1>6, <1>7 DEF RequestOK

RequestType == [pc : Working \cup {"new", "done", "failed"},
                order : OrderIds \cup {None}, year : Years \cup {None},
                seq : Nat, inv : Generations \cup {None}]

(* Only the record of r changes: it begins, inserts or ends.               *)
LEMMA OnlyTheRequestMoves ==
    ASSUME InvoicesInv, NEW r \in Requests, NEW new \in RequestType,
           req' = [req EXCEPT ![r] = new],
           UNCHANGED <<bookVars, document, paid>>,
           req[r].pc \in InTransaction =>
              new.pc \in InTransaction /\ new.year = req[r].year,
           new.pc = "commit" => \A q \in Requests : req[q].pc = "commit" => req[q].order # new.order,
           RequestOK(r)'
    PROVE  InvoicesInv'
<1>1. /\ req' \in [Requests -> RequestType]
      /\ req'[r] = new
      /\ \A q \in Requests \ {r} : req'[q] = req[q]
  BY DEF InvoicesInv, InvoicesTypeOK, RequestType
<1>2. UNCHANGED <<invoice, counter, counterLock, document, paid>> /\ Issued' = Issued
  BY DEF bookVars, Issued
<1>3. InvoicesTypeOK'
  BY <1>1, <1>2 DEF InvoicesInv, InvoicesTypeOK, RequestType
<1>4. StepOf(r)
  BY <1>1, <1>2 DEF StepOf
<1>5. \A y \in Years : LockOK(y)'
  BY <1>1, <1>2 DEF InvoicesInv, LockOK, InvoicesTypeOK, Requests
<1>6. OneInsertPerOrder'
  BY <1>1 DEF InvoicesInv, OneInsertPerOrder
<1>7. \A i \in Issued : invoice'[i].pdf => document'[i] # "none"
  BY <1>2 DEF InvoicesInv, InvoiceOK
<1> QED
  BY <1>2, <1>3, <1>4, <1>5, <1>6, <1>7, RequestsKept, InvoicesKept DEF InvoicesInv

LEMMA BeginGenerateKeeps ==
    ASSUME InvoicesInv, OrdersInv, UNCHANGED vars,
           NEW r \in Generations, NEW o \in OrderIds, NEW y \in Years, BeginGenerate(r, o, y)
    PROVE  InvoicesInv'
<1> DEFINE new == [New EXCEPT !.pc = "counter", !.order = o, !.year = y]
<1>1. /\ new \in RequestType /\ new.pc = "counter" /\ new.order = o /\ new.year = y
  BY DEF RequestType, New, Working
<1>2. /\ r \in Requests /\ req[r].pc = "new" /\ req' = [req EXCEPT ![r] = new]
      /\ UNCHANGED <<bookVars, document, paid>>
  BY DEF BeginGenerate, Requests, vars
<1>3. o \in paid /\ o \in paid'
  BY DEF BeginGenerate, INVOICEABLE_STATES, OrdersInv, PaidStatusHasMoney, PaidStates, vars
<1>4. req'[r] = new
  BY <1>2 DEF InvoicesInv, InvoicesTypeOK
<1>5. invoice'[r] = None
  BY <1>2 DEF InvoicesInv, RequestOK, bookVars
<1>6. RequestOK(r)'
  BY <1>1, <1>3, <1>4, <1>5 DEF RequestOK, Billing, InTransaction
<1> HIDE DEF new
<1> QED
  BY <1>1, <1>2, <1>6, OnlyTheRequestMoves DEF InTransaction

LEMMA BeginDownloadKeeps ==
    ASSUME InvoicesInv, UNCHANGED vars,
           NEW r \in Downloads, NEW i \in Generations, BeginDownload(r, i)
    PROVE  InvoicesInv'
<1> DEFINE new == [New EXCEPT !.pc = "render", !.inv = i]
<1>1. /\ new \in RequestType /\ new.pc = "render" /\ new.inv = i
  BY DEF RequestType, New, Working
<1>2. /\ r \in Requests /\ req[r].pc = "new" /\ req' = [req EXCEPT ![r] = new]
      /\ i \in Issued' /\ UNCHANGED <<bookVars, document, paid>>
  BY DEF BeginDownload, Requests, vars, bookVars, Issued
<1>3. req'[r] = new
  BY <1>2 DEF InvoicesInv, InvoicesTypeOK
<1>4. RequestOK(r)'
  BY <1>1, <1>2, <1>3 DEF RequestOK, Billing, InTransaction
<1> HIDE DEF new
<1> QED
  BY <1>1, <1>2, <1>4, OnlyTheRequestMoves DEF InTransaction

LEMMA InsertKeeps ==
    ASSUME InvoicesInv, UNCHANGED vars, NEW r \in Requests, InsertInvoice(r)
    PROVE  InvoicesInv'
<1> DEFINE new == [req[r] EXCEPT !.pc = "commit"]
<1>1. req[r] \in RequestType /\ RequestOK(r) /\ req[r].pc = "insert"
  BY DEF InvoicesInv, InvoicesTypeOK, RequestType, InsertInvoice
<1>2. /\ new \in RequestType /\ new.pc = "commit" /\ new.order = req[r].order
      /\ new.year = req[r].year /\ new.seq = req[r].seq /\ new.inv = req[r].inv
  BY <1>1 DEF RequestType, Working, InTransaction
<1>3. /\ req' = [req EXCEPT ![r] = new] /\ UNCHANGED <<bookVars, document, paid>>
      /\ \A q \in Requests : req[q].pc = "commit" => req[q].order # new.order
      /\ \A i \in Issued : invoice[i].order # new.order
  BY <1>2 DEF InsertInvoice, Billed, vars
<1>4. req'[r] = new
  BY <1>3 DEF InvoicesInv, InvoicesTypeOK
<1>5. UNCHANGED <<invoice, counter, counterLock, document, paid>> /\ Issued' = Issued
  BY <1>3 DEF bookVars, Issued
<1>6. RequestOK(r)'
  BY <1>1, <1>2, <1>3, <1>4, <1>5 DEF RequestOK, Billing, InTransaction
<1> HIDE DEF new
<1> QED
  BY <1>1, <1>2, <1>3, <1>6, OnlyTheRequestMoves DEF InTransaction

LEMMA PdfFailsKeeps ==
    ASSUME InvoicesInv, UNCHANGED vars, NEW r \in Requests, PdfFails(r)
    PROVE  InvoicesInv'
<1> DEFINE new == [New EXCEPT !.pc = "done"]
<1>1. new \in RequestType /\ new.pc = "done"
  BY DEF RequestType, New
<1>2. /\ req[r].pc = "render" /\ req' = [req EXCEPT ![r] = new]
      /\ UNCHANGED <<bookVars, document, paid>>
  BY DEF PdfFails, Done, vars
<1>3. req'[r] = new
  BY <1>2 DEF InvoicesInv, InvoicesTypeOK
<1>4. RequestOK(r)'
  BY <1>1, <1>3 DEF RequestOK, Billing, InTransaction
<1> HIDE DEF new
<1> QED
  BY <1>1, <1>2, <1>4, OnlyTheRequestMoves DEF InTransaction

LEMMA TakeNumberKeeps ==
    ASSUME InvoicesInv, UNCHANGED vars, NEW r \in Requests, TakeNumber(r)
    PROVE  InvoicesInv'
<1> DEFINE y == req[r].year
           new == [req[r] EXCEPT !.pc = "insert", !.seq = NextNumber(y)]
<1>1. /\ req[r] \in RequestType /\ RequestOK(r) /\ req[r].pc = "counter"
      /\ r \in Generations /\ y \in Years /\ counter[y] \in Nat /\ counterLock[y] = None
      /\ r # None
  BY DEF InvoicesInv, InvoicesTypeOK, RequestType, TakeNumber, RequestOK, Billing
<1>2. /\ new \in RequestType /\ new.pc = "insert" /\ new.order = req[r].order
      /\ new.year = y /\ new.seq = counter[y] + 1
  <2> DEFINE n == NextNumber(y)
  <2>1. n \in Nat /\ n = counter[y] + 1
    BY <1>1 DEF NextNumber
  <2> HIDE DEF n
  <2>2. [req[r] EXCEPT !.pc = "insert", !.seq = n] \in RequestType
    BY <1>1, <2>1 DEF RequestType, Working, InTransaction
  <2>3. new = [req[r] EXCEPT !.pc = "insert", !.seq = n]
    BY DEF n
  <2> QED
    BY <1>1, <2>1, <2>2, <2>3 DEF RequestType
<1>3. /\ req' \in [Requests -> RequestType] /\ req'[r] = new
      /\ \A q \in Requests \ {r} : req'[q] = req[q]
  <2>1. req' = [req EXCEPT ![r] = new] /\ req \in [Requests -> RequestType]
    BY DEF TakeNumber, InvoicesInv, InvoicesTypeOK, RequestType
  <2> HIDE DEF new
  <2> QED
    BY <1>2, <2>1
<1>4. /\ counterLock' \in [Years -> Generations \cup {None}] /\ counterLock'[y] = r
      /\ \A x \in Years \ {y} : counterLock'[x] = counterLock[x]
  BY <1>1 DEF TakeNumber, InvoicesInv, InvoicesTypeOK
<1>5. UNCHANGED <<invoice, counter, document, paid>> /\ Issued' = Issued
  BY DEF TakeNumber, vars, Issued
<1> HIDE DEF new
<1>6. InvoicesTypeOK'
  BY <1>3, <1>4, <1>5 DEF InvoicesInv, InvoicesTypeOK, RequestType
<1>7. StepOf(r)
  BY <1>1, <1>3, <1>4, <1>5 DEF StepOf
<1>8. RequestOK(r)'
  BY <1>1, <1>2, <1>3, <1>4, <1>5 DEF RequestOK, Billing, InTransaction
<1>9. \A x \in Years : LockOK(x)'
  <2> SUFFICES ASSUME NEW x \in Years
               PROVE  LockOK(x)'
    OBVIOUS
  <2>1. CASE x = y
    BY <1>2, <1>3, <1>4, <2>1 DEF LockOK, InTransaction
  <2>2. CASE x # y
    <3>1. LockOK(x) /\ counterLock'[x] = counterLock[x] /\ counterLock[x] \in Generations \cup {None}
      BY <1>4, <2>2 DEF InvoicesInv, InvoicesTypeOK
    <3>2. counterLock[x] # r
      BY <1>1, <3>1 DEF LockOK, InTransaction
    <3> QED
      BY <1>3, <3>1, <3>2 DEF LockOK, Requests
  <2> QED
    BY <2>1, <2>2
<1>10. OneInsertPerOrder'
  BY <1>2, <1>3 DEF InvoicesInv, OneInsertPerOrder
<1>11. \A i \in Issued : invoice'[i].pdf => document'[i] # "none"
  BY <1>5 DEF InvoicesInv, InvoiceOK
<1> QED
  BY <1>5, <1>6, <1>7, <1>8, <1>9, <1>10, <1>11, RequestsKept, InvoicesKept DEF InvoicesInv

(* The transaction of r ends without a trace, or r had none.               *)
LEMMA ReleaseKeeps ==
    ASSUME InvoicesInv, NEW r \in Requests, NEW new \in RequestType,
           req' = [req EXCEPT ![r] = new], new.pc \notin InTransaction,
           counterLock' = Unlocked(r), UNCHANGED <<invoice, counter, document, paid>>,
           RequestOK(r)'
    PROVE  InvoicesInv'
<1>1. /\ req' \in [Requests -> RequestType] /\ req'[r] = new
      /\ \A q \in Requests \ {r} : req'[q] = req[q]
  BY DEF InvoicesInv, InvoicesTypeOK, RequestType
<1>2. /\ counterLock' \in [Years -> Generations \cup {None}]
      /\ \A y \in Years : counterLock'[y] = IF counterLock[y] = r THEN None ELSE counterLock[y]
  BY DEF Unlocked, InvoicesInv, InvoicesTypeOK
<1>3. Issued' = Issued
  BY DEF Issued
<1>4. InvoicesTypeOK'
  BY <1>1, <1>2 DEF InvoicesInv, InvoicesTypeOK, RequestType
<1>5. StepOf(r)
  BY <1>1, <1>2, <1>3 DEF StepOf
<1>6. \A y \in Years : LockOK(y)'
  BY <1>1, <1>2 DEF InvoicesInv, LockOK, InvoicesTypeOK, Requests
<1>7. OneInsertPerOrder'
  BY <1>1 DEF InvoicesInv, OneInsertPerOrder, InTransaction
<1>8. \A i \in Issued : invoice'[i].pdf => document'[i] # "none"
  BY DEF InvoicesInv, InvoiceOK
<1> QED
  BY <1>3, <1>4, <1>5, <1>6, <1>7, <1>8, RequestsKept, InvoicesKept DEF InvoicesInv

LEMMA AbortKeeps ==
    ASSUME InvoicesInv, UNCHANGED vars, NEW r \in Requests, Abort(r)
    PROVE  InvoicesInv'
<1> DEFINE new == [New EXCEPT !.pc = "failed"]
<1>1. new \in RequestType /\ new.pc = "failed"
  BY DEF RequestType, New
<1>2. /\ req' = [req EXCEPT ![r] = new] /\ counterLock' = Unlocked(r)
      /\ UNCHANGED <<invoice, counter, document, paid>>
  BY DEF Abort, vars
<1>3. req'[r] = new
  BY <1>2 DEF InvoicesInv, InvoicesTypeOK
<1>4. RequestOK(r)'
  BY <1>1, <1>3 DEF RequestOK, Billing, InTransaction
<1> HIDE DEF new
<1> QED
  BY <1>1, <1>2, <1>4, ReleaseKeeps DEF InTransaction

LEMMA LoseRaceKeeps ==
    ASSUME InvoicesInv, UNCHANGED vars, NEW r \in Requests, LoseRace(r)
    PROVE  InvoicesInv'
<1> PICK i \in Billed(req[r].order) :
      req' = [req EXCEPT ![r].pc = "render", ![r].inv = i]
  BY DEF LoseRace
<1> DEFINE new == [req[r] EXCEPT !.pc = "render", !.inv = i]
<1>1. req[r] \in RequestType /\ i \in Issued /\ i \in Generations
  BY DEF InvoicesInv, InvoicesTypeOK, RequestType, Billed, Issued
<1>2. new \in RequestType /\ new.pc = "render" /\ new.inv = i
  BY <1>1 DEF RequestType, Working
<1>3. /\ req' = [req EXCEPT ![r] = new] /\ counterLock' = Unlocked(r)
      /\ UNCHANGED <<invoice, counter, document, paid>>
  BY DEF LoseRace, vars
<1>4. req'[r] = new
  BY <1>3 DEF InvoicesInv, InvoicesTypeOK
<1>5. i \in Issued'
  BY <1>1, <1>3 DEF Issued
<1>6. RequestOK(r)'
  BY <1>2, <1>4, <1>5 DEF RequestOK, Billing, InTransaction
<1> HIDE DEF new
<1> QED
  BY <1>2, <1>3, <1>6, ReleaseKeeps DEF InTransaction

(* A step of r outside its transaction, about documents only.              *)
LEMMA DocumentStepKeeps ==
    ASSUME InvoicesInv, NEW r \in Requests, NEW new \in RequestType,
           req' = [req EXCEPT ![r] = new],
           req[r].pc \notin InTransaction, new.pc \notin InTransaction,
           UNCHANGED <<counter, counterLock, paid>>,
           invoice' \in [Generations -> Invoice \cup {None}], Issued' = Issued,
           document' \in [Generations -> {"none", "stored", "lost"}],
           \A i \in Issued : /\ invoice'[i].order = invoice[i].order
                             /\ invoice'[i].year = invoice[i].year
                             /\ invoice'[i].number = invoice[i].number
                             /\ invoice'[i].pdf => document'[i] # "none"
                             /\ document[i] # "none" => document'[i] # "none",
           RequestOK(r)'
    PROVE  InvoicesInv'
<1>1. /\ req' \in [Requests -> RequestType] /\ req'[r] = new
      /\ \A q \in Requests \ {r} : req'[q] = req[q]
  BY DEF InvoicesInv, InvoicesTypeOK, RequestType
<1>2. InvoicesTypeOK'
  BY <1>1 DEF InvoicesInv, InvoicesTypeOK, RequestType
<1>3. \A i \in Generations : invoice[i] = None => invoice'[i] = None
  BY DEF Issued
<1>4. StepOf(r)
  BY <1>1, <1>3 DEF StepOf
<1>5. \A y \in Years : LockOK(y)'
  BY <1>1 DEF InvoicesInv, LockOK, InvoicesTypeOK, Requests
<1>6. OneInsertPerOrder'
  BY <1>1 DEF InvoicesInv, OneInsertPerOrder, InTransaction
<1> QED
  BY <1>2, <1>4, <1>5, <1>6, RequestsKept, InvoicesKept DEF InvoicesInv

LEMMA StorePdfKeeps ==
    ASSUME InvoicesInv, UNCHANGED vars, NEW r \in Requests, StorePdf(r)
    PROVE  InvoicesInv'
<1> DEFINE i == req[r].inv
           new == [req[r] EXCEPT !.pc = "refer"]
<1>1. req[r] \in RequestType /\ req[r].pc = "render" /\ i \in Issued /\ i \in Generations
  BY DEF InvoicesInv, InvoicesTypeOK, RequestType, RequestOK, StorePdf, Issued
<1>2. new \in RequestType /\ new.pc = "refer" /\ new.inv = i
  BY <1>1 DEF RequestType, Working
<1>3. /\ req' = [req EXCEPT ![r] = new] /\ UNCHANGED <<invoice, counter, counterLock, paid>>
      /\ document' = [document EXCEPT ![i] = "stored"]
  BY DEF StorePdf, vars, bookVars
<1>4. /\ document' \in [Generations -> {"none", "stored", "lost"}] /\ document'[i] = "stored"
      /\ \A j \in Generations \ {i} : document'[j] = document[j]
  BY <1>1, <1>3 DEF InvoicesInv, InvoicesTypeOK
<1>5. req'[r] = new
  BY <1>3 DEF InvoicesInv, InvoicesTypeOK
<1>6. Issued' = Issued /\ invoice' \in [Generations -> Invoice \cup {None}]
  BY <1>3 DEF Issued, InvoicesInv, InvoicesTypeOK
<1>7. RequestOK(r)'
  BY <1>1, <1>2, <1>4, <1>5, <1>6 DEF RequestOK, Billing, InTransaction
<1>8. \A j \in Issued : invoice'[j].pdf \/ document[j] # "none" => document'[j] # "none"
  BY <1>3, <1>4 DEF InvoicesInv, InvoiceOK, Issued
<1> HIDE DEF new, i
<1> QED
  BY <1>1, <1>2, <1>3, <1>4, <1>6, <1>7, <1>8, DocumentStepKeeps DEF InTransaction

LEMMA ReferToPdfKeeps ==
    ASSUME InvoicesInv, UNCHANGED vars, NEW r \in Requests, ReferToPdf(r)
    PROVE  InvoicesInv'
<1> DEFINE i == req[r].inv
           new == [New EXCEPT !.pc = "done"]
<1>1. req[r].pc = "refer" /\ i \in Issued /\ i \in Generations /\ document[i] # "none"
  BY DEF InvoicesInv, RequestOK, ReferToPdf, Issued
<1>2. new \in RequestType /\ new.pc = "done"
  BY DEF RequestType, New
<1>3. /\ req' = [req EXCEPT ![r] = new] /\ UNCHANGED <<counter, counterLock, document, paid>>
      /\ invoice' = [invoice EXCEPT ![i].pdf = TRUE]
  BY DEF ReferToPdf, Refer, Done, vars
<1>4. invoice[i] \in Invoice
  BY <1>1 DEF InvoicesInv, InvoicesTypeOK, Issued
<1>5. [invoice[i] EXCEPT !.pdf = TRUE] \in Invoice
  BY <1>4 DEF Invoice
<1>6. /\ invoice' \in [Generations -> Invoice \cup {None}]
      /\ invoice'[i] = [invoice[i] EXCEPT !.pdf = TRUE]
      /\ \A j \in Generations \ {i} : invoice'[j] = invoice[j]
  BY <1>1, <1>3, <1>5 DEF InvoicesInv, InvoicesTypeOK
<1>7. Issued' = Issued
  BY <1>1, <1>5, <1>6 DEF Issued
<1>8. req'[r] = new
  BY <1>3 DEF InvoicesInv, InvoicesTypeOK
<1>9. RequestOK(r)'
  BY <1>2, <1>8 DEF RequestOK, Billing, InTransaction
<1>10. /\ invoice'[i].order = invoice[i].order
       /\ invoice'[i].year = invoice[i].year
       /\ invoice'[i].number = invoice[i].number
  BY <1>4, <1>6 DEF Invoice
<1>11. \A j \in Issued : invoice'[j].pdf => document'[j] # "none"
  BY <1>1, <1>3, <1>6 DEF InvoicesInv, InvoiceOK, Issued
<1>12. \A j \in Issued : /\ invoice'[j].order = invoice[j].order
                         /\ invoice'[j].year = invoice[j].year
                         /\ invoice'[j].number = invoice[j].number
  BY <1>6, <1>10 DEF Issued
<1>13. document' \in [Generations -> {"none", "stored", "lost"}]
  BY <1>3 DEF InvoicesInv, InvoicesTypeOK
<1> HIDE DEF new, i
<1> QED
  BY <1>1, <1>2, <1>3, <1>6, <1>7, <1>9, <1>11, <1>12, <1>13, DocumentStepKeeps DEF InTransaction

LEMMA LoseDocumentKeeps ==
    ASSUME InvoicesInv, UNCHANGED vars, NEW d \in Generations, LoseDocument(d)
    PROVE  InvoicesInv'
<1>1. /\ UNCHANGED <<invoice, counter, counterLock, req, paid>> /\ Issued' = Issued
      /\ document[d] = "stored" /\ document' = [document EXCEPT ![d] = "lost"]
  BY DEF LoseDocument, bookVars, vars, Issued
<1>2. /\ document' \in [Generations -> {"none", "stored", "lost"}]
      /\ \A i \in Generations : document[i] # "none" => document'[i] # "none"
  BY <1>1 DEF InvoicesInv, InvoicesTypeOK
<1>3. InvoicesTypeOK'
  BY <1>1, <1>2 DEF InvoicesInv, InvoicesTypeOK
<1>4. \A r \in Requests : RequestOK(r)'
  BY <1>1, <1>2 DEF InvoicesInv, RequestOK, Issued
<1>5. (\A y \in Years : LockOK(y)') /\ OneInsertPerOrder'
  BY <1>1 DEF InvoicesInv, LockOK, OneInsertPerOrder
<1>6. \A i \in Issued : invoice'[i].pdf => document'[i] # "none"
  BY <1>1, <1>2 DEF InvoicesInv, InvoiceOK, Issued
<1> QED
  BY <1>1, <1>3, <1>4, <1>5, <1>6, InvoicesKept DEF InvoicesInv

(* The step that issues an invoice gives it the next number of its year.   *)
LEMMA CommitInvoiceKeeps ==
    ASSUME InvoicesInv, UNCHANGED vars, NEW r \in Requests, CommitInvoice(r)
    PROVE  InvoicesInv'
<1> DEFINE y == req[r].year
           o == req[r].order
           n == req[r].seq
           row == [order |-> o, year |-> y, number |-> n, pdf |-> FALSE]
           new == [req[r] EXCEPT !.pc = "render", !.inv = r]
<1>1. /\ req[r] \in RequestType /\ RequestOK(r) /\ req[r].pc = "commit"
      /\ r \in Generations /\ invoice[r] = None
      /\ y \in Years /\ o \in OrderIds /\ o \in paid
      /\ counter[y] \in Nat /\ n = counter[y] + 1 /\ counterLock[y] = r
      /\ \A i \in Issued : invoice[i].order # o
  BY DEF InvoicesInv, InvoicesTypeOK, RequestType, CommitInvoice, RequestOK, Billing, InTransaction
<1>2. /\ row \in Invoice /\ row # None
      /\ row.order = o /\ row.year = y /\ row.number = n /\ row.pdf = FALSE
  <2>1. n \in Number
    BY <1>1 DEF Number
  <2>2. row \in Invoice
    BY <1>1, <2>1 DEF Invoice
  <2>3. row # None
    <3> HIDE DEF row
    <3> QED
      BY <2>2
  <2> QED
    BY <2>2, <2>3
<1>3. new \in RequestType /\ new.pc = "render" /\ new.inv = r
  BY <1>1 DEF RequestType, Working
<1>4. /\ invoice' = [invoice EXCEPT ![r] = row] /\ counter' = [counter EXCEPT ![y] = n]
      /\ counterLock' = Unlocked(r) /\ req' = [req EXCEPT ![r] = new]
      /\ UNCHANGED <<document, paid>>
  BY DEF CommitInvoice, vars
<1> HIDE DEF row, new
<1>5. /\ invoice' \in [Generations -> Invoice \cup {None}] /\ invoice'[r] = row
      /\ \A i \in Generations \ {r} : invoice'[i] = invoice[i]
  BY <1>1, <1>2, <1>4 DEF InvoicesInv, InvoicesTypeOK
<1>6. Issued' = Issued \cup {r} /\ r \notin Issued /\ Issued \subseteq Generations
  BY <1>1, <1>2, <1>5 DEF Issued
<1>7. /\ counter' \in [Years -> Nat] /\ counter'[y] = n
      /\ \A x \in Years \ {y} : counter'[x] = counter[x]
  BY <1>1, <1>4 DEF InvoicesInv, InvoicesTypeOK
<1>8. /\ counterLock' \in [Years -> Generations \cup {None}]
      /\ \A x \in Years : counterLock'[x] = IF counterLock[x] = r THEN None ELSE counterLock[x]
  BY <1>4 DEF Unlocked, InvoicesInv, InvoicesTypeOK
<1>9. /\ req' \in [Requests -> RequestType] /\ req'[r] = new
      /\ \A q \in Requests \ {r} : req'[q] = req[q]
  BY <1>3, <1>4 DEF InvoicesInv, InvoicesTypeOK, RequestType
<1>10. InvoicesTypeOK'
  BY <1>4, <1>5, <1>7, <1>8, <1>9 DEF InvoicesInv, InvoicesTypeOK, RequestType
<1>11. \A q \in Requests \ {r} : req[q].pc = "commit" => req[q].order # o
  BY <1>1 DEF InvoicesInv, OneInsertPerOrder
<1>12. StepOf(r)
  <2>1. \A x \in Years : counterLock[x] \notin {None, r} =>
          counter'[x] = counter[x] /\ counterLock'[x] = counterLock[x]
    BY <1>1, <1>7, <1>8
  <2>2. \A i \in Issued' \ Issued :
          \A q \in Requests \ {r} : req[q].pc = "commit" => invoice'[i].order # req[q].order
    BY <1>2, <1>5, <1>6, <1>11
  <2> QED
    BY <1>4, <1>5, <1>6, <1>9, <2>1, <2>2 DEF StepOf
<1>13. RequestOK(r)'
  BY <1>3, <1>6, <1>9 DEF RequestOK, Billing, InTransaction
<1>14. \A x \in Years : LockOK(x)'
  BY <1>8, <1>9 DEF InvoicesInv, InvoicesTypeOK, LockOK, Requests
<1>15. OneInsertPerOrder'
  BY <1>3, <1>9 DEF InvoicesInv, OneInsertPerOrder
<1>16. \A i \in Issued : invoice'[i] = invoice[i] /\ invoice[i] \in Invoice /\ InvoiceOK(i)
  BY <1>5, <1>6 DEF InvoicesInv, InvoicesTypeOK, Issued
<1>17. \A i \in Issued' : InvoiceOK(i)'
  <2>1. InvoiceOK(r)'
    BY <1>1, <1>2, <1>4, <1>5, <1>7 DEF InvoiceOK
  <2>2. ASSUME NEW i \in Issued
        PROVE  InvoiceOK(i)'
    <3>1. /\ invoice'[i] = invoice[i] /\ InvoiceOK(i)
          /\ invoice[i].year \in Years /\ invoice[i].number \in Nat
      BY <1>16 DEF Invoice, Number
    <3>2. invoice[i].number <= counter'[invoice[i].year]
      BY <1>1, <1>7, <3>1 DEF InvoiceOK
    <3> QED
      BY <1>4, <3>1, <3>2 DEF InvoiceOK
  <2> QED
    BY <1>6, <2>1, <2>2
<1>18. OneInvoicePerOrder'
  BY <1>1, <1>2, <1>5, <1>6, <1>16 DEF InvoicesInv, OneInvoicePerOrder
<1>19. OneInvoicePerNumber'
  <2>1. ASSUME NEW i \in Issued
        PROVE  invoice'[i].year # y \/ invoice'[i].number # n
    BY <1>1, <1>16 DEF InvoiceOK, Invoice, Number
  <2> QED
    BY <1>2, <1>5, <1>6, <1>16, <2>1 DEF InvoicesInv, OneInvoicePerNumber
<1>20. EveryNumberGiven'
  <2> SUFFICES ASSUME NEW x \in Years, NEW k \in 1 .. counter'[x]
               PROVE  \E i \in Issued' : invoice'[i].year = x /\ invoice'[i].number = k
    BY DEF EveryNumberGiven
  <2>1. CASE x = y /\ k = n
    BY <1>2, <1>5, <1>6, <2>1
  <2>2. CASE ~(x = y /\ k = n)
    <3>1. k \in 1 .. counter[x]
      BY <1>1, <1>7, <2>2
    <3>2. \E i \in Issued : invoice[i].year = x /\ invoice[i].number = k
      BY <3>1 DEF InvoicesInv, EveryNumberGiven
    <3> QED
      BY <1>6, <1>16, <3>2
  <2> QED
    BY <2>1, <2>2
<1> QED
  BY <1>10, <1>12, <1>13, <1>14, <1>15, <1>17, <1>18, <1>19, <1>20, RequestsKept DEF InvoicesInv

(* The orders go on: what is paid stays paid.                              *)
LEMMA OrdersGoOn ==
    ASSUME InvoicesInv, Next, UNCHANGED invoiceVars
    PROVE  InvoicesInv'
<1>1. UNCHANGED <<invoice, counter, counterLock, document, req>> /\ Issued' = Issued
  BY DEF invoiceVars, bookVars, Issued
<1>2. paid \subseteq paid'
  BY DEF Next, Write, Pay
<1>3. InvoicesTypeOK' /\ (\A y \in Years : LockOK(y)') /\ OneInsertPerOrder'
  BY <1>1 DEF InvoicesInv, InvoicesTypeOK, LockOK, OneInsertPerOrder
<1>4. \A r \in Requests : RequestOK(r)'
  BY <1>1, <1>2 DEF InvoicesInv, RequestOK
<1>5. \A i \in Issued : invoice'[i].pdf => document'[i] # "none"
  BY <1>1 DEF InvoicesInv, InvoiceOK
<1> QED
  BY <1>1, <1>2, <1>3, <1>4, <1>5, InvoicesKept DEF InvoicesInv

-----------------------------------------------------------------------------
LEMMA InitOrders == Init => OrdersInv
BY DEF Init, OrdersInv, PaidStatusHasMoney, OrderStatus, HoldingStates, PaidStates

LEMMA OrdersKeep == OrdersInv /\ [Next]_vars => OrdersInv'
<1> SUFFICES ASSUME OrdersInv, [Next]_vars
             PROVE  OrdersInv'
  OBVIOUS
<1>1. CASE UNCHANGED vars
  BY <1>1 DEF OrdersInv, PaidStatusHasMoney, vars
<1>2. ASSUME NEW o \in OrderIds, Pay(o)
      PROVE  OrdersInv'
  BY <1>2 DEF Pay, OrdersInv, PaidStatusHasMoney, OrderStatus, HoldingStates, PaidStates
<1>3. ASSUME NEW o \in OrderIds, NEW s \in OrderStatus, Write(o, s)
      PROVE  OrdersInv'
  BY <1>3 DEF Write, OrdersInv, PaidStatusHasMoney
<1> QED
  BY <1>1, <1>2, <1>3 DEF Next

BooksInv == OrdersInv /\ InvoicesInv

LEMMA InvoicesStepKeeps ==
    ASSUME BooksInv, InvoicesStep, UNCHANGED vars
    PROVE  BooksInv'
<1>1. OrdersInv'
  BY OrdersKeep DEF BooksInv
<1>2. ASSUME NEW r \in Requests, BeginInvoiceRequest(r)
      PROVE  InvoicesInv'
  BY <1>2, BeginGenerateKeeps, BeginDownloadKeeps DEF BeginInvoiceRequest, BooksInv
<1>3. ASSUME NEW r \in Requests, ContinueInvoiceRequest(r)
      PROVE  InvoicesInv'
  BY <1>3, TakeNumberKeeps, InsertKeeps, LoseRaceKeeps, CommitInvoiceKeeps, StorePdfKeeps,
     PdfFailsKeeps, ReferToPdfKeeps DEF ContinueInvoiceRequest, BooksInv
<1>4. ASSUME NEW r \in Requests, Abort(r)
      PROVE  InvoicesInv'
  BY <1>4, AbortKeeps DEF BooksInv
<1>5. ASSUME NEW i \in Generations, LoseDocument(i)
      PROVE  InvoicesInv'
  BY <1>5, LoseDocumentKeeps DEF BooksInv
<1> QED
  BY <1>1, <1>2, <1>3, <1>4, <1>5 DEF InvoicesStep, BooksInv

LEMMA NothingMoves ==
    ASSUME BooksInv, UNCHANGED allVars
    PROVE  BooksInv'
<1>1. OrdersInv'
  BY OrdersKeep DEF BooksInv, allVars
<1>2. UNCHANGED <<invoice, counter, counterLock, document, req, paid>> /\ Issued' = Issued
  BY DEF allVars, vars, invoiceVars, bookVars, Issued
<1>3. InvoicesTypeOK' /\ (\A y \in Years : LockOK(y)') /\ OneInsertPerOrder'
  BY <1>2 DEF BooksInv, InvoicesInv, InvoicesTypeOK, LockOK, OneInsertPerOrder
<1>4. \A r \in Requests : RequestOK(r)'
  BY <1>2 DEF BooksInv, InvoicesInv, RequestOK
<1>5. \A i \in Issued : invoice'[i].pdf => document'[i] # "none"
  BY <1>2 DEF BooksInv, InvoicesInv, InvoiceOK
<1> QED
  BY <1>1, <1>2, <1>3, <1>4, <1>5, InvoicesKept DEF InvoicesInv, BooksInv

LEMMA BooksInvariant == InvoicesSpec => []BooksInv
<1>1. InvoicesInit => BooksInv
  BY InitInvoices, InitOrders DEF InvoicesInit, BooksInv
<1>2. BooksInv /\ [InvoicesNext]_allVars => BooksInv'
  <2> SUFFICES ASSUME BooksInv, [InvoicesNext]_allVars
               PROVE  BooksInv'
    OBVIOUS
  <2>1. CASE InvoicesStep /\ UNCHANGED vars
    BY <2>1, InvoicesStepKeeps
  <2>2. CASE Next /\ UNCHANGED invoiceVars
    BY <2>2, OrdersGoOn, OrdersKeep DEF BooksInv
  <2>3. CASE (InvoicesAnswered /\ UNCHANGED vars) \/ UNCHANGED allVars
    BY <2>3, NothingMoves DEF InvoicesAnswered, allVars
  <2> QED
    BY <2>1, <2>2, <2>3 DEF InvoicesNext
<1> QED
  BY <1>1, <1>2, PTL DEF InvoicesSpec

(* The rows, counters, locks and requests keep their types.                *)
THEOREM InvoicesTypeCorrect == InvoicesSpec => []InvoicesTypeOK
<1>1. BooksInv => InvoicesTypeOK
  BY DEF BooksInv, InvoicesInv
<1> QED
  BY <1>1, BooksInvariant, PTL

(* The numbers of a year are 1 .. next_seq without a gap and without a     *)
(* double, however many transactions are rolled back (next_sequence).      *)
THEOREM NumbersAreGapFree == InvoicesSpec => []GapFreeNumbers
<1>1. ASSUME BooksInv, NEW y \in Years
      PROVE  {invoice[i].number : i \in {j \in Issued : invoice[j].year = y}} = 1 .. counter[y]
  <2>1. counter[y] \in Nat /\ \A i \in Issued : invoice[i] \in Invoice /\ InvoiceOK(i)
    BY <1>1 DEF BooksInv, InvoicesInv, InvoicesTypeOK, Issued
  <2>2. \A i \in Issued : invoice[i].year = y => invoice[i].number \in 1 .. counter[y]
    BY <2>1 DEF Invoice, Number, InvoiceOK
  <2>3. \A n \in 1 .. counter[y] : \E i \in Issued : invoice[i].year = y /\ invoice[i].number = n
    BY <1>1 DEF BooksInv, InvoicesInv, EveryNumberGiven
  <2> QED
    BY <2>2, <2>3
<1>2. BooksInv => GapFreeNumbers
  BY <1>1 DEF GapFreeNumbers, BooksInv, InvoicesInv, OneInvoicePerNumber
<1> QED
  BY <1>2, BooksInvariant, PTL

(* Every order with an invoice has been paid for, although generate reads  *)
(* its status without a lock and overlapping requests may change it.       *)
THEOREM InvoicesArePaidFor == InvoicesSpec => []InvoicedOrdersArePaid
<1>1. BooksInv => InvoicedOrdersArePaid
  BY DEF BooksInv, InvoicesInv, InvoiceOK, InvoicedOrdersArePaid
<1> QED
  BY <1>1, BooksInvariant, PTL

(* No invoice refers to a document that nobody stored, whatever the        *)
(* storage loses afterwards (_ensure_pdf).                                 *)
THEOREM ReferencesAreReal == InvoicesSpec => []NoFakeReference
<1>1. BooksInv => NoFakeReference
  BY DEF BooksInv, InvoicesInv, InvoiceOK, NoFakeReference
<1> QED
  BY <1>1, BooksInvariant, PTL

-----------------------------------------------------------------------------
Lines(y) == [n \in 1 .. counter[y] |-> NumberedOrder(y, n)]

Books == [y \in Years |-> Lines(y)]

NumberNamesItsOrder ==
    \A i \in Issued : NumberedOrder(invoice[i].year, invoice[i].number) = invoice[i].order

LEMMA LineOfInvoice == InvoicesInv => NumberNamesItsOrder
<1> SUFFICES ASSUME InvoicesInv, NEW i \in Issued
             PROVE  NumberedOrder(invoice[i].year, invoice[i].number) = invoice[i].order
  BY DEF NumberNamesItsOrder
<1> DEFINE c == CHOOSE j \in Issued : /\ invoice[j].year = invoice[i].year
                                      /\ invoice[j].number = invoice[i].number
<1>1. /\ c \in Issued
      /\ invoice[c].year = invoice[i].year /\ invoice[c].number = invoice[i].number
  OBVIOUS
<1>2. c = i
  BY <1>1 DEF InvoicesInv, OneInvoicePerNumber
<1> QED
  BY <1>2 DEF NumberedOrder

LEMMA LinesAreOrders ==
    InvoicesInv => \A y \in Years : Lines(y) \in Seq(OrderIds) /\ Len(Lines(y)) = counter[y]
<1> SUFFICES ASSUME InvoicesInv, NEW y \in Years
             PROVE  Lines(y) \in Seq(OrderIds) /\ Len(Lines(y)) = counter[y]
  OBVIOUS
<1>1. ASSUME NEW n \in 1 .. counter[y]
      PROVE  NumberedOrder(y, n) \in OrderIds
  <2>1. PICK i \in Issued : invoice[i].year = y /\ invoice[i].number = n
    BY DEF InvoicesInv, EveryNumberGiven
  <2>2. invoice[i] \in Invoice
    BY DEF InvoicesInv, InvoicesTypeOK, Issued
  <2> QED
    BY <2>1, <2>2, LineOfInvoice DEF NumberNamesItsOrder, Invoice
<1>2. counter[y] \in Nat
  BY DEF InvoicesInv, InvoicesTypeOK
<1> QED
  BY <1>1, <1>2 DEF Lines

SameInvoices ==
    /\ counter' = counter
    /\ Issued' = Issued
    /\ \A i \in Issued : /\ invoice'[i].order = invoice[i].order
                         /\ invoice'[i].year = invoice[i].year
                         /\ invoice'[i].number = invoice[i].number

LEMMA SameBooks == InvoicesInv /\ InvoicesInv' /\ SameInvoices => Books' = Books
<1>1. InvoicesInv' => NumberNamesItsOrder'
  BY LineOfInvoice, PTL
<1> SUFFICES ASSUME InvoicesInv, InvoicesInv', SameInvoices
             PROVE  Books' = Books
  OBVIOUS
<1>2. ASSUME NEW y \in Years, NEW n \in 1 .. counter[y]
      PROVE  NumberedOrder(y, n)' = NumberedOrder(y, n)
  <2>1. PICK i \in Issued : invoice[i].year = y /\ invoice[i].number = n
    BY DEF InvoicesInv, EveryNumberGiven
  <2>2. NumberedOrder(y, n) = invoice[i].order
    BY <2>1, LineOfInvoice DEF NumberNamesItsOrder
  <2>3. i \in Issued' /\ invoice'[i].year = y /\ invoice'[i].number = n
    BY <2>1 DEF SameInvoices
  <2>4. NumberedOrder(y, n)' = invoice'[i].order
    BY <1>1, <2>3 DEF NumberNamesItsOrder
  <2> QED
    BY <2>1, <2>2, <2>4 DEF SameInvoices
<1>3. ASSUME NEW y \in Years
      PROVE  Lines(y)' = Lines(y)
  BY <1>2 DEF Lines, SameInvoices
<1> QED
  BY <1>3 DEF Books

(* The line that a commit adds to the book of its year.                    *)
LEMMA CommitIssues ==
    ASSUME InvoicesInv, InvoicesInv', NEW r \in Requests, CommitInvoice(r),
           NEW y, NEW o, NEW n, req[r].year = y, req[r].order = o, req[r].seq = n
    PROVE  y \in Years /\ o \in OrderIds /\ Book!Issue(y, o)
<1> DEFINE row == [order |-> o, year |-> y, number |-> n, pdf |-> FALSE]
<1>1. /\ RequestOK(r) /\ req[r].pc = "commit" /\ r \in Generations /\ invoice[r] = None
      /\ y \in Years /\ o \in OrderIds /\ counter[y] \in Nat /\ n = counter[y] + 1
      /\ \A i \in Issued : invoice[i].order # o
  BY DEF InvoicesInv, InvoicesTypeOK, CommitInvoice, RequestOK, Billing, InTransaction
<1>2. row \in Invoice /\ row.order = o /\ row.year = y /\ row.number = n
  <2>1. n \in Number
    BY <1>1 DEF Number
  <2> QED
    BY <1>1, <2>1 DEF Invoice
<1>3. invoice' = [invoice EXCEPT ![r] = row] /\ counter' = [counter EXCEPT ![y] = n]
  BY DEF CommitInvoice
<1> HIDE DEF row
<1>4. row # None
  BY <1>2
<1>5. /\ invoice'[r] = row /\ counter'[y] = n
      /\ \A x \in Years \ {y} : counter'[x] = counter[x]
      /\ \A i \in Issued : invoice'[i] = invoice[i]
      /\ Issued \cup {r} \subseteq Issued'
  BY <1>1, <1>3, <1>4 DEF InvoicesInv, InvoicesTypeOK, Issued
<1>6. NumberNamesItsOrder'
  <2>1. InvoicesInv' => NumberNamesItsOrder'
    BY LineOfInvoice, PTL
  <2> QED
    BY <2>1
<1>7. ASSUME NEW x \in Years, NEW k \in 1 .. counter[x]
      PROVE  /\ NumberedOrder(x, k)' = NumberedOrder(x, k)
             /\ NumberedOrder(x, k) # o
  <2>1. PICK i \in Issued : invoice[i].year = x /\ invoice[i].number = k
    BY DEF InvoicesInv, EveryNumberGiven
  <2>2. NumberedOrder(x, k) = invoice[i].order
    BY <2>1, LineOfInvoice DEF NumberNamesItsOrder
  <2>3. NumberedOrder(x, k)' = invoice'[i].order
    BY <1>5, <1>6, <2>1 DEF NumberNamesItsOrder
  <2> QED
    BY <1>1, <1>5, <2>2, <2>3
<1>8. NumberedOrder(y, n)' = o
  BY <1>2, <1>5, <1>6 DEF NumberNamesItsOrder
<1>9. ASSUME NEW x \in Years \ {y}
      PROVE  Lines(x)' = Lines(x)
  BY <1>5, <1>7 DEF Lines
<1>10. Lines(y)' = Append(Lines(y), o)
  <2>1. Lines(y) \in Seq(OrderIds) /\ Len(Lines(y)) = counter[y]
    BY <1>1, LinesAreOrders
  <2>2. Lines(y)' = [k \in 1 .. counter[y] + 1 |-> IF k = counter[y] + 1 THEN o ELSE Lines(y)[k]]
    BY <1>1, <1>5, <1>7, <1>8 DEF Lines
  <2> DEFINE s == Lines(y)
  <2> HIDE DEF s
  <2>3. s \in Seq(OrderIds) /\ Len(s) = counter[y]
    BY <2>1 DEF s
  <2> DEFINE t == [k \in 1 .. Len(s) + 1 |-> IF k = Len(s) + 1 THEN o ELSE s[k]]
  <2>4. /\ Append(s, o) \in Seq(OrderIds) /\ Len(Append(s, o)) = Len(s) + 1
        /\ \A k \in 1 .. Len(s) : Append(s, o)[k] = s[k]
        /\ Append(s, o)[Len(s) + 1] = o
    BY <1>1, <2>3, AppendProperties
  <2>5. t \in Seq(OrderIds) /\ Len(t) = Len(s) + 1
    BY <1>1, <2>3
  <2>6. Append(s, o) = t
    <3>1. /\ Append(s, o) \in [1 .. Len(s) + 1 -> OrderIds]
          /\ t \in [1 .. Len(s) + 1 -> OrderIds]
      BY <2>4, <2>5, LenProperties
    <3>2. ASSUME NEW k \in 1 .. Len(s) + 1
          PROVE  Append(s, o)[k] = t[k]
      <4>1. CASE k = Len(s) + 1
        BY <2>4, <4>1
      <4>2. CASE k # Len(s) + 1
        <5>1. k \in 1 .. Len(s)
          BY <1>1, <2>3, <4>2
        <5> QED
          BY <2>4, <4>2, <5>1
      <4> QED
        BY <4>1, <4>2
    <3> HIDE DEF t
    <3> QED
      BY <3>1, <3>2
  <2> QED
    BY <2>2, <2>3, <2>6 DEF s
<1>11. Books' = [Books EXCEPT ![y] = Append(@, o)]
  BY <1>1, <1>9, <1>10 DEF Books
<1>12. ~Book!Entered(o)
  BY <1>7 DEF Book!Entered, Book!Range
<1> QED
  BY <1>1, <1>11, <1>12 DEF Book!Issue, Books, Lines

(* Every other step leaves the books alone.                                *)
LEMMA OthersIssueNothing ==
    ASSUME InvoicesInv, [InvoicesNext]_allVars, \A r \in Requests : ~CommitInvoice(r)
    PROVE  SameInvoices
<1>1. CASE UNCHANGED invoice /\ UNCHANGED counter
  BY <1>1 DEF SameInvoices, Issued
<1>2. ASSUME NEW r \in Requests, ReferToPdf(r)
      PROVE  SameInvoices
  <2> DEFINE i == req[r].inv
  <2>1. i \in Issued /\ invoice[i] \in Invoice
    BY <1>2 DEF ReferToPdf, InvoicesInv, RequestOK, InvoicesTypeOK, Issued
  <2>2. invoice' = [invoice EXCEPT ![i].pdf = TRUE] /\ counter' = counter
    BY <1>2 DEF ReferToPdf, Refer
  <2> HIDE DEF i
  <2>3. [invoice[i] EXCEPT !.pdf = TRUE] \in Invoice
    BY <2>1 DEF Invoice
  <2>4. /\ invoice'[i] = [invoice[i] EXCEPT !.pdf = TRUE] /\ invoice'[i] # None
        /\ \A j \in Generations \ {i} : invoice'[j] = invoice[j]
    BY <2>1, <2>2, <2>3 DEF InvoicesInv, InvoicesTypeOK, Issued
  <2>5. Issued' = Issued
    BY <2>1, <2>4 DEF Issued
  <2>6. /\ invoice'[i].order = invoice[i].order
        /\ invoice'[i].year = invoice[i].year
        /\ invoice'[i].number = invoice[i].number
    BY <2>1, <2>4 DEF Invoice
  <2> QED
    BY <2>2, <2>4, <2>5, <2>6 DEF SameInvoices, Issued
<1>3. \/ \E r \in Requests : ReferToPdf(r)
      \/ UNCHANGED invoice /\ UNCHANGED counter
  BY DEF InvoicesNext, InvoicesStep, InvoicesAnswered, BeginInvoiceRequest, BeginGenerate,
     BeginDownload, ContinueInvoiceRequest, TakeNumber, InsertInvoice, LoseRace, StorePdf,
     PdfFails, Abort, LoseDocument, allVars, invoiceVars, bookVars
<1> QED
  BY <1>1, <1>2, <1>3

(* The invoices implement the books: every commit enters one order in the  *)
(* next line of its year, no order is entered twice, and no line changes.  *)
THEOREM InvoicesKeepTheBooks == InvoicesSpec => BookSpec
<1>1. InvoicesInit => Book!Init
  <2> SUFFICES ASSUME InvoicesInit, NEW y \in Years
               PROVE  [n \in 1 .. counter[y] |-> NumberedOrder(y, n)] = <<>>
    BY DEF Book!Init
  <2>1. counter[y] = 0
    BY DEF InvoicesInit
  <2> QED
    BY <2>1
<1>2. BooksInv /\ BooksInv' /\ [InvoicesNext]_allVars
        => [Book!Next]_([y \in Years |-> [n \in 1 .. counter[y] |-> NumberedOrder(y, n)]])
  <2> SUFFICES ASSUME InvoicesInv, InvoicesInv', [InvoicesNext]_allVars
               PROVE  Book!Next \/ Books' = Books
    BY DEF BooksInv, Books, Lines
  <2>1. ASSUME NEW r \in Requests, CommitInvoice(r)
        PROVE  Book!Next
    <3>1. \A y, o, n : req[r].year = y /\ req[r].order = o /\ req[r].seq = n
            => y \in Years /\ o \in OrderIds /\ Book!Issue(y, o)
      BY <2>1, CommitIssues
    <3> QED
      BY <3>1 DEF Book!Next
  <2>2. CASE \A r \in Requests : ~CommitInvoice(r)
    BY <2>2, OthersIssueNothing, SameBooks
  <2> QED
    BY <2>1, <2>2
<1> QED
  BY <1>1, <1>2, BooksInvariant, PTL DEF InvoicesSpec, BookSpec, Book!Spec
=============================================================================
