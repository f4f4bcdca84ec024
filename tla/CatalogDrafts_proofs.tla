----------------------- MODULE CatalogDrafts_proofs -------------------------
(***************************************************************************)
(* Proofs about the catalog drafts, for any number of drafts and calls.    *)
(*                                                                         *)
(* What carries them: the copy a waiting call holds was read undecided,    *)
(* and the products that rows and copies name exist and belong to them, so *)
(* an UPDATE of the changed columns can only name one's own new product.   *)
(*                                                                         *)
(* While the calls about one draft do not overlap their copies are the     *)
(* rows themselves (FreshInv): a commit then never meets a decided draft.  *)
(***************************************************************************)
EXTENDS CatalogDrafts, TLAPS

Holding == Waiting \ {"inserting"}

(* A product id names a product of draft d whose approval has ended.       *)
NamesProductOf(p, d) ==
    p # None => /\ p \in Created
                /\ product[p].draft = d
                /\ call[p].at = "done"

CallOK(c) ==
    /\ call[c].at \in Holding =>
         /\ call[c].on \in Stored
         /\ call[c].seen \in Row
         /\ call[c].seen.status \notin Terminal
         /\ call[c].seen.key = draft[call[c].on].key
         /\ NamesProductOf(call[c].seen.product, call[c].on)
    /\ call[c].at \in {"idle", "inserting", "calling", "editing", "approving", "rejecting"}
         => product[c] = None
    /\ call[c].at = "linking" => c \in Created /\ product[c].draft = call[c].on

CallInv == \A c \in Calls : CallOK(c)

RowInv ==
    \A d \in Stored :
        /\ NamesProductOf(draft[d].product, d)
        /\ draft[d].status = "APPROVED" => draft[d].product # None

ProductInv ==
    \A c \in Created :
        /\ product[c].draft \in Stored
        /\ call[c].at \notin {"linking", "crashed"} => draft[product[c].draft].product # None

DraftsInv == DraftsTypeOK /\ CallInv /\ RowInv /\ ProductInv /\ OneDraftPerKey

LEMMA FlushedRow ==
    ASSUME NEW row \in Row, NEW seen \in Row, NEW copy \in Row
    PROVE  LET new == Flushed(row, seen, copy) IN
           /\ new \in Row
           /\ new.status = IF copy.status = seen.status THEN row.status ELSE copy.status
           /\ new.product = IF copy.product = seen.product THEN row.product ELSE copy.product
           /\ new.key = IF copy.key = seen.key THEN row.key ELSE copy.key
<1>1. DOMAIN row = {"status", "sku", "price", "product", "key"}
  BY DEF Row
<1>2. /\ row.status \in DraftStatus /\ copy.status \in DraftStatus
      /\ row.sku \in Skus \cup {None} /\ copy.sku \in Skus \cup {None}
      /\ row.price \in Prices \cup {None} /\ copy.price \in Prices \cup {None}
      /\ row.product \in Calls \cup {None} /\ copy.product \in Calls \cup {None}
      /\ row.key \in Keys \cup {None} /\ copy.key \in Keys \cup {None}
  BY DEF Row
<1> DEFINE new == Flushed(row, seen, copy)
<1>3. new = [col \in {"status", "sku", "price", "product", "key"} |->
               IF copy[col] = seen[col] THEN row[col] ELSE copy[col]]
  BY <1>1 DEF Flushed
<1>4. new \in Row
  BY <1>2, <1>3 DEF Row
<1> QED
  BY <1>3, <1>4

LEMMA InitDrafts == DraftsInit => DraftsInv
<1> SUFFICES ASSUME DraftsInit
             PROVE  DraftsInv
  OBVIOUS
<1> USE DraftsAssumption DEF DraftsInit, Stored, Created, Idle
<1>1. DraftsTypeOK
  <2>1. \A d \in Drafts : draft[d] \in Row \cup {None}
    BY DEF Row, DraftStatus
  <2> QED
    BY <2>1 DEF DraftsTypeOK
<1>2. CallInv
  BY DEF CallInv, CallOK, Holding, Waiting
<1>3. RowInv
  BY DEF RowInv, NamesProductOf
<1>4. ProductInv
  BY DEF ProductInv
<1>5. OneDraftPerKey
  BY DEF OneDraftPerKey
<1> QED
  BY <1>1, <1>2, <1>3, <1>4, <1>5 DEF DraftsInv

(* A step of c, which has not ended, leaves the other calls alone and      *)
(* changes no key.                                                         *)
StepOf(c) ==
    /\ call[c].at # "done"
    /\ Stored \subseteq Stored'
    /\ \A e \in Stored : draft'[e].key = draft[e].key
    /\ \A x \in Calls \ {c} : call'[x] = call[x] /\ product'[x] = product[x]

LEMMA NamesKept ==
    ASSUME DraftsInv, NEW c \in Calls, StepOf(c), NEW p, NEW d, NamesProductOf(p, d)
    PROVE  NamesProductOf(p, d)'
BY DEF NamesProductOf, StepOf, Created

LEMMA CallsKept ==
    ASSUME DraftsInv, NEW c \in Calls, StepOf(c), CallOK(c)'
    PROVE  CallInv'
<1> SUFFICES ASSUME NEW x \in Calls \ {c}
             PROVE  CallOK(x)'
  BY DEF CallInv
<1>1. CallOK(x) /\ call'[x] = call[x] /\ product'[x] = product[x]
  BY DEF DraftsInv, CallInv, StepOf
<1>2. x \in Created => x \in Created'
  BY <1>1 DEF Created
<1> QED
  BY <1>1, <1>2, NamesKept DEF CallOK, StepOf

(* The call c commits a copy that names no product of its own and decides  *)
(* nothing but a rejection: describe, fail, edit, reject.                  *)
LEMMA PlainCommit ==
    ASSUME DraftsInv, NEW c \in Calls,
           call[c].at \in {"calling", "editing", "rejecting"},
           NEW copy \in Row,
           copy.product = call[c].seen.product, copy.key = call[c].seen.key,
           copy.status # "APPROVED",
           Commit(c, copy), Finish(c), UNCHANGED product
    PROVE  DraftsInv'
<1> DEFINE d == call[c].on
           seen == call[c].seen
<1>1. /\ d \in Stored /\ d \in Drafts /\ draft[d] \in Row /\ seen \in Row
      /\ product[c] = None
      /\ NamesProductOf(seen.product, d)
  BY DEF DraftsInv, CallInv, CallOK, Holding, Waiting, DraftsTypeOK, Stored
<1>2. /\ draft' \in [Drafts -> Row \cup {None}]
      /\ draft'[d] \in Row
      /\ draft'[d].product = draft[d].product
      /\ draft'[d].key = draft[d].key
      /\ draft'[d].status = "APPROVED" => draft[d].status = "APPROVED"
      /\ \A x \in Drafts \ {d} : draft'[x] = draft[x]
  BY <1>1, FlushedRow DEF DraftsInv, DraftsTypeOK, Commit
<1>3. Stored' = Stored /\ Created' = Created
  BY <1>1, <1>2, DraftsAssumption DEF Stored, Created
<1>4. /\ call'[c].at = "done" /\ DOMAIN call' = Calls
      /\ \A x \in Calls \ {c} : call'[x] = call[x]
      /\ call' \in [Calls -> [at : Waiting \cup {"idle", "done", "crashed"},
                              on : Drafts \cup {None}, seen : Row \cup {None},
                              key : Keys \cup {None}]]
  BY DEF Finish, Idle, DraftsInv, DraftsTypeOK
<1>5. StepOf(c)
  BY <1>1, <1>2, <1>3, <1>4 DEF StepOf, Stored
<1>6. DraftsTypeOK'
  BY <1>2, <1>4 DEF DraftsInv, DraftsTypeOK
<1>7. CallInv'
  <2>1. CallOK(c)'
    BY <1>1, <1>4 DEF CallOK, Holding, Waiting
  <2> QED
    BY <1>5, <2>1, CallsKept
<1>8. RowInv'
  BY <1>2, <1>3, <1>5, NamesKept DEF DraftsInv, RowInv, Stored
<1>9. ProductInv'
  BY <1>1, <1>2, <1>3, <1>4 DEF DraftsInv, ProductInv, Created, Stored
<1>10. OneDraftPerKey'
  BY <1>2, <1>3 DEF DraftsInv, OneDraftPerKey, Stored
<1> QED
  BY <1>6, <1>7, <1>8, <1>9, <1>10 DEF DraftsInv

(* Only c moves: it looks a key up, reads a draft, is refused or crashes.  *)
LEMMA OnlyTheCallMoves ==
    ASSUME DraftsInv, NEW c \in Calls, call[c].at # "done",
           UNCHANGED <<draft, product>>,
           NEW new \in [at : Waiting \cup {"idle", "done", "crashed"},
                        on : Drafts \cup {None}, seen : Row \cup {None},
                        key : Keys \cup {None}],
           call' = [call EXCEPT ![c] = new],
           c \in Created => new.at = "crashed",
           CallOK(c)'
    PROVE  DraftsInv'
<1>1. StepOf(c)
  BY DEF StepOf, DraftsInv, DraftsTypeOK, Stored
<1>2. /\ call' \in [Calls -> [at : Waiting \cup {"idle", "done", "crashed"},
                              on : Drafts \cup {None}, seen : Row \cup {None},
                              key : Keys \cup {None}]]
      /\ \A x \in Calls : call'[x] = IF x = c THEN new ELSE call[x]
  BY DEF DraftsInv, DraftsTypeOK
<1>3. DraftsTypeOK'
  BY <1>2 DEF DraftsInv, DraftsTypeOK
<1>4. RowInv'
  BY <1>1, NamesKept DEF DraftsInv, RowInv, Stored
<1>5. ProductInv'
  BY <1>2 DEF DraftsInv, ProductInv, Created, Stored
<1>6. OneDraftPerKey'
  BY DEF DraftsInv, OneDraftPerKey, Stored
<1> QED
  BY <1>1, <1>3, <1>4, <1>5, <1>6, CallsKept DEF DraftsInv

LEMMA EditKeeps ==
    ASSUME NEW c \in Calls, call[c].seen \in Row,
           NEW s \in Skus \cup {None}, NEW p \in Prices \cup {None}
    PROVE  /\ Edited(c, s, p) \in Row
           /\ Edited(c, s, p).sku = s /\ Edited(c, s, p).price = p
           /\ Edited(c, s, p).status = call[c].seen.status
           /\ Edited(c, s, p).product = call[c].seen.product
           /\ Edited(c, s, p).key = call[c].seen.key
BY DEF Edited, Row

LEMMA InsertKeeps ==
    ASSUME DraftsInv, NEW c \in Calls, NEW d \in Drafts, InsertDraft(c, d)
    PROVE  DraftsInv'
<1> DEFINE row == [status |-> "PENDING", sku |-> None, price |-> None,
                   product |-> None, key |-> call[c].key]
<1>1. /\ call[c].at = "inserting" /\ d \notin Stored /\ draft[d] = None
      /\ product[c] = None /\ UNCHANGED product
      /\ row.key # None => \A e \in Stored : draft[e].key # row.key
  BY DEF InsertDraft, Stored, DraftsInv, CallInv, CallOK
<1>2. row \in Row /\ row # None
  BY DraftsAssumption DEF DraftsInv, DraftsTypeOK, Row, DraftStatus
<1>3. /\ draft' \in [Drafts -> Row \cup {None}]
      /\ \A x \in Drafts : draft'[x] = IF x = d THEN row ELSE draft[x]
  BY <1>2 DEF InsertDraft, DraftsInv, DraftsTypeOK
<1>4. /\ call' \in [Calls -> [at : Waiting \cup {"idle", "done", "crashed"},
                              on : Drafts \cup {None}, seen : Row \cup {None},
                              key : Keys \cup {None}]]
      /\ \A x \in Calls \ {c} : call'[x] = call[x]
      /\ call'[c].at = "calling" /\ call'[c].on = d /\ call'[c].seen = row
  BY <1>2 DEF InsertDraft, DraftsInv, DraftsTypeOK, Waiting
<1>5. Stored' = Stored \cup {d} /\ Created' = Created
  BY <1>1, <1>2, <1>3 DEF Stored, Created
<1>6. StepOf(c)
  BY <1>1, <1>3, <1>4, <1>5 DEF StepOf, Stored
<1>7. DraftsTypeOK'
  BY <1>1, <1>3, <1>4 DEF DraftsInv, DraftsTypeOK
<1>8. CallInv'
  <2>1. CallOK(c)'
    <3>1. draft'[d].key = row.key
      BY <1>3
    <3> QED
      BY <1>1, <1>2, <1>4, <1>5, <3>1 DEF CallOK, Holding, Waiting, Terminal, NamesProductOf
  <2> QED
    BY <1>6, <2>1, CallsKept
<1>9. RowInv'
  <2> SUFFICES ASSUME NEW x \in Stored'
               PROVE  /\ NamesProductOf(draft[x].product, x)'
                      /\ draft'[x].status = "APPROVED" => draft'[x].product # None
    BY DEF RowInv
  <2>1. CASE x = d
    BY <1>3, <2>1 DEF NamesProductOf
  <2>2. CASE x # d
    <3>1. x \in Stored /\ draft'[x] = draft[x]
      BY <1>3, <1>5, <2>2 DEF Stored
    <3> QED
      BY <1>6, <3>1, NamesKept DEF DraftsInv, RowInv
  <2> QED
    BY <2>1, <2>2
<1>10. ProductInv'
  BY <1>1, <1>3, <1>4, <1>5 DEF DraftsInv, ProductInv, Created, Stored
<1>11. OneDraftPerKey'
  BY <1>1, <1>3, <1>5 DEF DraftsInv, OneDraftPerKey, Stored
<1> QED
  BY <1>7, <1>8, <1>9, <1>10, <1>11 DEF DraftsInv

LEMMA CreateKeeps ==
    ASSUME DraftsInv, NEW c \in Calls, CreateProduct(c)
    PROVE  DraftsInv'
<1> DEFINE d == call[c].on
           seen == call[c].seen
<1>1. /\ d \in Stored /\ d \in Drafts /\ draft[d] \in Row /\ seen \in Row
      /\ call[c].at = "approving" /\ product[c] = None
      /\ seen.status \notin Terminal /\ seen.key = draft[d].key
      /\ NamesProductOf(seen.product, d)
  BY DEF CreateProduct, DraftsInv, CallInv, CallOK, Holding, Waiting, DraftsTypeOK, Stored
<1>2. PICK s \in Skus \cup {None}, p \in Prices \cup {None} :
        /\ Complete(s, p)
        /\ product' = [product EXCEPT ![c] = [draft |-> d, sku |-> s, price |-> p]]
        /\ Commit(c, Edited(c, s, p))
        /\ call' = [call EXCEPT ![c].at = "linking", ![c].seen = Edited(c, s, p)]
  BY DEF CreateProduct
<1>3. PICK copy \in Row : /\ copy = Edited(c, s, p) /\ copy.status = seen.status
                         /\ copy.product = seen.product /\ copy.key = seen.key
  BY <1>1, EditKeeps
<1>4. /\ draft' \in [Drafts -> Row \cup {None}]
      /\ draft'[d] \in Row
      /\ draft'[d].product = draft[d].product
      /\ draft'[d].key = draft[d].key
      /\ draft'[d].status = draft[d].status
      /\ \A x \in Drafts \ {d} : draft'[x] = draft[x]
  BY <1>1, <1>2, <1>3, FlushedRow DEF DraftsInv, DraftsTypeOK, Commit
<1>5. /\ call' \in [Calls -> [at : Waiting \cup {"idle", "done", "crashed"},
                              on : Drafts \cup {None}, seen : Row \cup {None},
                              key : Keys \cup {None}]]
      /\ \A x \in Calls \ {c} : call'[x] = call[x]
      /\ call'[c].at = "linking" /\ call'[c].on = d /\ call'[c].seen = copy
  BY <1>2, <1>3 DEF DraftsInv, DraftsTypeOK, Waiting
<1>6. /\ product' \in [Calls -> Product \cup {None}]
      /\ \A x \in Calls \ {c} : product'[x] = product[x]
      /\ product'[c] \in Product /\ product'[c].draft = d
  <2>1. s \in Skus /\ p \in Prices
    BY <1>2 DEF Complete
  <2> QED
    BY <1>1, <1>2, <2>1 DEF DraftsInv, DraftsTypeOK, Product
<1>7. Stored' = Stored /\ Created' = Created \cup {c}
  BY <1>1, <1>4, <1>6, DraftsAssumption DEF Stored, Created
<1>8. StepOf(c)
  BY <1>1, <1>4, <1>5, <1>6, <1>7 DEF StepOf, Stored
<1>9. DraftsTypeOK'
  BY <1>4, <1>5, <1>6 DEF DraftsInv, DraftsTypeOK
<1>10. CallInv'
  <2>1. copy.product # None => /\ copy.product \in Created'
                               /\ product'[copy.product].draft = d
                               /\ call'[copy.product].at = "done"
    BY <1>1, <1>3, <1>5, <1>6, <1>7 DEF NamesProductOf, Created
  <2>2. CallOK(c)'
    BY <1>1, <1>3, <1>4, <1>5, <1>6, <1>7, <2>1
       DEF CallOK, Holding, Waiting, NamesProductOf
  <2> QED
    BY <1>8, <2>2, CallsKept
<1>11. RowInv'
  BY <1>4, <1>7, <1>8, NamesKept DEF DraftsInv, RowInv, Stored
<1>12. ProductInv'
  <2> SUFFICES ASSUME NEW x \in Created'
               PROVE  /\ product'[x].draft \in Stored'
                      /\ call'[x].at \notin {"linking", "crashed"} =>
                           draft'[product'[x].draft].product # None
    BY DEF ProductInv
  <2>1. CASE x = c
    BY <1>1, <1>5, <1>6, <1>7, <2>1
  <2>2. CASE x # c
    <3>1. x \in Created /\ x \in Calls /\ product'[x] = product[x] /\ call'[x] = call[x]
      BY <1>5, <1>6, <1>7, <2>2 DEF Created
    <3> QED
      BY <1>4, <1>7, <3>1 DEF DraftsInv, ProductInv, Stored
  <2> QED
    BY <2>1, <2>2
<1>13. OneDraftPerKey'
  BY <1>4, <1>7 DEF DraftsInv, OneDraftPerKey, Stored
<1> QED
  BY <1>9, <1>10, <1>11, <1>12, <1>13 DEF DraftsInv

LEMMA LinkKeeps ==
    ASSUME DraftsInv, NEW c \in Calls, LinkProduct(c)
    PROVE  DraftsInv'
<1> DEFINE d == call[c].on
           seen == call[c].seen
<1>1. /\ d \in Stored /\ d \in Drafts /\ draft[d] \in Row /\ seen \in Row
      /\ call[c].at = "linking" /\ c \in Created /\ product[c].draft = d
      /\ seen.status \notin Terminal /\ seen.key = draft[d].key
      /\ NamesProductOf(seen.product, d)
      /\ UNCHANGED product
  BY DEF LinkProduct, DraftsInv, CallInv, CallOK, Holding, Waiting, DraftsTypeOK, Stored
<1> DEFINE copy == [seen EXCEPT !.status = "APPROVED", !.product = c]
<1>2. /\ copy \in Row /\ copy.status = "APPROVED"
      /\ copy.product = c /\ copy.key = seen.key
      /\ copy.product # seen.product
      /\ Commit(c, copy)
  <2>1. seen.product # c
    BY <1>1, DraftsAssumption DEF NamesProductOf
  <2>2. copy \in Row /\ copy.status = "APPROVED" /\ copy.product = c /\ copy.key = seen.key
    BY <1>1 DEF Row, DraftStatus, Terminal
  <2> QED
    BY <2>1, <2>2 DEF LinkProduct
<1> HIDE DEF copy
<1>3. /\ draft' \in [Drafts -> Row \cup {None}]
      /\ draft'[d] \in Row
      /\ draft'[d].product = c
      /\ draft'[d].key = draft[d].key
      /\ \A x \in Drafts \ {d} : draft'[x] = draft[x]
  BY <1>1, <1>2, FlushedRow DEF DraftsInv, DraftsTypeOK, Commit, LinkProduct
<1>4. /\ call' \in [Calls -> [at : Waiting \cup {"idle", "done", "crashed"},
                              on : Drafts \cup {None}, seen : Row \cup {None},
                              key : Keys \cup {None}]]
      /\ \A x \in Calls \ {c} : call'[x] = call[x]
      /\ call'[c].at = "done"
  BY DEF LinkProduct, Finish, Idle, DraftsInv, DraftsTypeOK
<1>5. Stored' = Stored /\ Created' = Created
  BY <1>1, <1>3, DraftsAssumption DEF Stored, Created
<1>6. StepOf(c)
  BY <1>1, <1>3, <1>4, <1>5 DEF StepOf, Stored
<1>7. DraftsTypeOK'
  BY <1>1, <1>3, <1>4 DEF DraftsInv, DraftsTypeOK
<1>8. CallInv'
  <2>1. CallOK(c)'
    BY <1>4 DEF CallOK, Holding, Waiting
  <2> QED
    BY <1>6, <2>1, CallsKept
<1>9. RowInv'
  <2> SUFFICES ASSUME NEW x \in Stored'
               PROVE  /\ NamesProductOf(draft[x].product, x)'
                      /\ draft'[x].status = "APPROVED" => draft'[x].product # None
    BY DEF RowInv
  <2>1. CASE x = d
    <3>1. c # None
      BY DraftsAssumption
    <3> QED
      BY <1>1, <1>3, <1>4, <1>5, <2>1, <3>1 DEF NamesProductOf
  <2>2. CASE x # d
    <3>1. x \in Stored /\ draft'[x] = draft[x]
      BY <1>3, <1>5, <2>2 DEF Stored
    <3> QED
      BY <1>6, <3>1, NamesKept DEF DraftsInv, RowInv
  <2> QED
    BY <2>1, <2>2
<1>10. ProductInv'
  BY <1>1, <1>3, <1>4, <1>5, DraftsAssumption DEF DraftsInv, ProductInv, Created, Stored
<1>11. OneDraftPerKey'
  BY <1>3, <1>5 DEF DraftsInv, OneDraftPerKey, Stored
<1> QED
  BY <1>7, <1>8, <1>9, <1>10, <1>11 DEF DraftsInv

(* The steps that leave every row and product alone.                       *)
LEMMA QuietSteps ==
    ASSUME DraftsInv, NEW c \in Calls,
           \/ \E k \in Keys \cup {None} : LookUpKey(c, k)
           \/ \E d \in Drafts :
                Regenerate(c, d) \/ BeginEdit(c, d) \/ BeginApprove(c, d) \/ BeginReject(c, d)
           \/ RefuseDraft(c) \/ RefuseProduct(c) \/ CrashCall(c)
    PROVE  DraftsInv'
<1> DEFINE CallType == [at : Waiting \cup {"idle", "done", "crashed"},
                        on : Drafts \cup {None}, seen : Row \cup {None},
                        key : Keys \cup {None}]
<1>1. call[c] \in CallType /\ CallOK(c) /\ Idle \in CallType
  BY DEF DraftsInv, DraftsTypeOK, CallInv, Idle
<1>2. CASE \E k \in Keys \cup {None} : LookUpKey(c, k)
  <2>1. PICK k \in Keys \cup {None} : LookUpKey(c, k)
    BY <1>2
  <2> DEFINE new == [call[c] EXCEPT !.at = "inserting", !.key = k]
  <2>2. /\ new \in CallType /\ call' = [call EXCEPT ![c] = new]
        /\ call[c].at = "idle" /\ UNCHANGED <<draft, product>>
    BY <1>1, <2>1 DEF LookUpKey, Waiting
  <2>3. c \notin Created /\ call'[c].at = "inserting"
    BY <1>1, <2>2 DEF CallOK, Created, DraftsInv, DraftsTypeOK
  <2>4. CallOK(c)'
    BY <2>2, <2>3 DEF CallOK, Holding, Created
  <2> QED
    BY <2>2, <2>3, <2>4, OnlyTheCallMoves
<1>3. ASSUME NEW d \in Drafts, NEW from, NEW at \in {"calling", "editing", "approving", "rejecting"},
             Read(c, d, from, at), from \cap Terminal = {}
      PROVE  DraftsInv'
  <2> DEFINE new == [call[c] EXCEPT !.at = at, !.on = d, !.seen = draft[d]]
  <2>1. /\ call[c].at = "idle" /\ d \in Stored /\ draft[d] \in Row
        /\ draft[d].status \notin Terminal /\ UNCHANGED <<draft, product>>
    BY <1>3 DEF Read, Stored, DraftsInv, DraftsTypeOK
  <2>2. new \in CallType /\ call' = [call EXCEPT ![c] = new]
    BY <1>1, <1>3, <2>1 DEF Read, Waiting
  <2>3. /\ product[c] = None
        /\ call'[c].at = at /\ call'[c].on = d /\ call'[c].seen = draft[d]
    BY <1>1, <2>1, <2>2 DEF CallOK, DraftsInv, DraftsTypeOK
  <2>4. NamesProductOf(draft[d].product, d)
    BY <2>1 DEF DraftsInv, RowInv
  <2>5. \A x \in Calls \ {c} : call'[x] = call[x]
    BY <2>2 DEF DraftsInv, DraftsTypeOK
  <2>6. draft[d].product # None => /\ draft[d].product \in Created'
                                  /\ product'[draft[d].product].draft = d
                                  /\ call'[draft[d].product].at = "done"
    BY <2>1, <2>3, <2>4, <2>5 DEF NamesProductOf, Created
  <2>7. CallOK(c)'
    BY <2>1, <2>3, <2>6 DEF CallOK, Holding, Waiting, NamesProductOf, Stored
  <2> QED
    BY <2>1, <2>2, <2>3, <2>7, OnlyTheCallMoves DEF Created
<1>4. CASE RefuseDraft(c) \/ RefuseProduct(c)
  <2> DEFINE new == [Idle EXCEPT !.at = "done"]
  <2>1. /\ call[c].at \in {"inserting", "approving"} /\ UNCHANGED <<draft, product>>
        /\ call' = [call EXCEPT ![c] = new]
        /\ new \in CallType /\ new.at = "done"
    BY <1>1, <1>4 DEF RefuseDraft, RefuseProduct, Finish, Idle
  <2>2. c \notin Created /\ call'[c].at = "done"
    BY <1>1, <2>1 DEF CallOK, Created, DraftsInv, DraftsTypeOK
  <2>3. CallOK(c)'
    BY <2>2 DEF CallOK, Holding, Waiting
  <2> QED
    BY <2>1, <2>2, <2>3, OnlyTheCallMoves
<1>5. CASE CrashCall(c)
  <2> DEFINE new == [Idle EXCEPT !.at = "crashed", !.on = call[c].on]
  <2>1. /\ call[c].at \in Waiting /\ UNCHANGED <<draft, product>>
        /\ call' = [call EXCEPT ![c] = new]
        /\ new \in CallType /\ new.at = "crashed"
    BY <1>1, <1>5 DEF CrashCall, Idle
  <2>2. CallOK(c)'
    BY <2>1 DEF CallOK, Holding, Waiting, DraftsInv, DraftsTypeOK
  <2> QED
    BY <2>1, <2>2, OnlyTheCallMoves DEF Waiting
<1> QED
  BY <1>2, <1>3, <1>4, <1>5
     DEF Regenerate, BeginEdit, BeginApprove, BeginReject, RegeneratableFrom,
         ApprovableFrom, DraftStatus, Terminal

(* The steps that commit a copy without a product of their own.            *)
LEMMA PlainSteps ==
    ASSUME DraftsInv, NEW c \in Calls,
           Describe(c) \/ ProviderFails(c) \/ CommitEdit(c) \/ CommitReject(c)
    PROVE  DraftsInv'
<1>1. /\ call[c].at \in {"calling", "editing", "rejecting"}
      /\ Finish(c) /\ UNCHANGED product
  BY DEF Describe, ProviderFails, CommitEdit, CommitReject
<1>2. call[c].seen \in Row /\ call[c].seen.status \notin Terminal
  BY <1>1 DEF DraftsInv, CallInv, CallOK, Holding, Waiting
<1>3. CASE Describe(c)
  <2>1. PICK s \in Skus \cup {None} :
          Commit(c, [call[c].seen EXCEPT !.status = "GENERATED", !.sku = s])
    BY <1>3 DEF Describe
  <2> DEFINE copy == [call[c].seen EXCEPT !.status = "GENERATED", !.sku = s]
  <2>2. /\ copy \in Row /\ copy.product = call[c].seen.product
        /\ copy.key = call[c].seen.key /\ copy.status # "APPROVED"
    BY <1>2 DEF Row, DraftStatus
  <2> QED
    BY <1>1, <2>1, <2>2, PlainCommit
<1>4. CASE ProviderFails(c)
  <2> DEFINE copy == [call[c].seen EXCEPT !.status = "FAILED"]
  <2>1. /\ copy \in Row /\ copy.product = call[c].seen.product
        /\ copy.key = call[c].seen.key /\ copy.status # "APPROVED"
    BY <1>2 DEF Row, DraftStatus
  <2> QED
    BY <1>1, <1>4, <2>1, PlainCommit DEF ProviderFails
<1>5. CASE CommitEdit(c)
  <2>1. PICK s \in Skus \cup {None}, p \in Prices \cup {None} : Commit(c, Edited(c, s, p))
    BY <1>5 DEF CommitEdit
  <2>2. Edited(c, s, p).status # "APPROVED"
    BY <1>2, EditKeeps DEF Terminal
  <2> QED
    BY <1>1, <1>2, <2>1, <2>2, EditKeeps, PlainCommit
<1>6. CASE CommitReject(c)
  <2> DEFINE copy == [call[c].seen EXCEPT !.status = "REJECTED"]
  <2>1. /\ copy \in Row /\ copy.product = call[c].seen.product
        /\ copy.key = call[c].seen.key /\ copy.status # "APPROVED"
    BY <1>2 DEF Row, DraftStatus, Terminal
  <2> QED
    BY <1>1, <1>6, <2>1, PlainCommit DEF CommitReject
<1> QED
  BY <1>3, <1>4, <1>5, <1>6

LEMMA NextDrafts == DraftsInv /\ [DraftsNext]_draftVars => DraftsInv'
<1> SUFFICES ASSUME DraftsInv, [DraftsNext]_draftVars
             PROVE  DraftsInv'
  OBVIOUS
<1>1. CASE UNCHANGED draftVars
  BY <1>1 DEF draftVars, DraftsInv, DraftsTypeOK, CallInv, CallOK, RowInv, ProductInv,
              OneDraftPerKey, NamesProductOf, Stored, Created
<1>2. ASSUME NEW c \in Calls, BeginCall(c) \/ CrashCall(c) \/ RefuseDraft(c) \/ RefuseProduct(c)
      PROVE  DraftsInv'
  BY <1>2, QuietSteps DEF BeginCall
<1>3. ASSUME NEW c \in Calls, Answer(c) \/ CommitEdit(c) \/ CommitReject(c)
      PROVE  DraftsInv'
  BY <1>3, PlainSteps DEF Answer
<1>4. ASSUME NEW c \in Calls, NEW d \in Drafts, InsertDraft(c, d)
      PROVE  DraftsInv'
  BY <1>4, InsertKeeps
<1>5. ASSUME NEW c \in Calls, CreateProduct(c) \/ LinkProduct(c)
      PROVE  DraftsInv'
  BY <1>5, CreateKeeps, LinkKeeps
<1> QED
  BY <1>1, <1>2, <1>3, <1>4, <1>5 DEF DraftsNext, ContinueCall, AllCallsEnded

LEMMA AlwaysDrafts == DraftsSpec => []DraftsInv
BY InitDrafts, NextDrafts, PTL DEF DraftsSpec

-----------------------------------------------------------------------------
(* The rows, products and calls keep their types for any number of calls.  *)
THEOREM DraftsTypeCorrect == DraftsSpec => []DraftsTypeOK
BY AlwaysDrafts, PTL DEF DraftsInv

(* An APPROVED draft names a product that was made from it, whatever       *)
(* overlaps or interrupts the two commits of approve.                      *)
THEOREM ApprovalsHaveProducts == DraftsSpec => []ApprovedHasItsProduct
<1>1. DraftsInv => ApprovedHasItsProduct
  BY DEF DraftsInv, RowInv, NamesProductOf, ApprovedHasItsProduct
<1> QED
  BY <1>1, AlwaysDrafts, PTL

(* A request key names at most one draft (generate_draft and its index).   *)
THEOREM KeysNameOneDraft == DraftsSpec => []OneDraftPerKey
BY AlwaysDrafts, PTL DEF DraftsInv

(* When the approval that made a product has ended, the draft names a      *)
(* product made from it: approved_product_id is never lost.                *)
THEOREM ProductsAreRemembered == DraftsSpec => []NoProductIsForgotten
<1>1. DraftsInv => NoProductIsForgotten
  BY DEF DraftsInv, RowInv, ProductInv, NamesProductOf, NoProductIsForgotten
<1> QED
  BY <1>1, AlwaysDrafts, PTL

-----------------------------------------------------------------------------
(* Calls about one draft that do not overlap.                              *)

CopiesAreFresh ==
    \A c \in Calls : call[c].at \in Holding => call[c].seen = draft[call[c].on]

EndedApprovalsDecided ==
    \A c \in Created :
        call[c].at \notin {"linking", "crashed"} => draft[product[c].draft].status = "APPROVED"

FreshInv == CopiesAreFresh /\ EndedApprovalsDecided /\ OneProductUnlessCrashed

(* A step of c on fresh copies: decided rows, and the rows other calls     *)
(* have read, stay as they are, and a product is made of an undecided      *)
(* draft only.                                                             *)
FreshMove(c) ==
    /\ call[c].at # "crashed"
    /\ \A x \in Calls \ {c} : call'[x] = call[x] /\ product'[x] = product[x]
    /\ \A d \in Stored : draft[d].status \in Terminal => draft'[d] = draft[d]
    /\ \A x \in Calls \ {c} :
         call[x].at \in Holding => draft'[call[x].on] = draft[call[x].on]
    /\ call'[c].at \in Holding => call'[c].seen = draft'[call'[c].on]
    /\ \/ /\ product'[c] = product[c]
          /\ c \in Created =>
               call'[c].at = "crashed" \/ draft'[product[c].draft].status = "APPROVED"
       \/ /\ call[c].at = "approving" /\ call'[c].at = "linking"
          /\ product'[c].draft = call[c].on

LEMMA FreshMoveKeeps ==
    ASSUME DraftsInv, FreshInv, OneCallPerDraft, NEW c \in Calls, FreshMove(c)
    PROVE  FreshInv'
<1>1. /\ call[c].at # "crashed"
      /\ \A x \in Calls \ {c} :
           call'[x] = call[x] /\ product'[x] = product[x] /\ (x \in Created' <=> x \in Created)
  BY DEF FreshMove, Created
<1>2. \A x \in Created : /\ product[x].draft \in Stored
                         /\ call[x].at = "linking" => product[x].draft = call[x].on
  BY DEF DraftsInv, ProductInv, CallInv, CallOK, Created
<1>3. CopiesAreFresh'
  BY <1>1 DEF FreshMove, FreshInv, CopiesAreFresh
<1>4. EndedApprovalsDecided'
  <2> SUFFICES ASSUME NEW x \in Created', call'[x].at \notin {"linking", "crashed"}
               PROVE  draft'[product'[x].draft].status = "APPROVED"
    BY DEF EndedApprovalsDecided
  <2>1. CASE x = c
    BY <2>1 DEF FreshMove, Created
  <2>2. CASE x # c
    <3>1. x \in Created /\ draft[product[x].draft].status = "APPROVED"
      BY <1>1, <2>2 DEF FreshInv, EndedApprovalsDecided, Created
    <3> QED
      BY <1>1, <1>2, <2>2, <3>1 DEF FreshMove, Terminal, Created
  <2> QED
    BY <2>1, <2>2
<1>5. ASSUME NEW x \in Created', x # c, c \in Created',
             call'[x].at # "crashed", call'[c].at # "crashed",
             product'[x].draft = product'[c].draft
      PROVE  FALSE
  <2>1. x \in Created /\ x \in Calls /\ call[x].at # "crashed" /\ product'[x] = product[x]
    BY <1>1, <1>5 DEF Created
  <2>2. CASE product'[c] = product[c]
    <3>1. c \in Created
      BY <1>5, <2>2 DEF Created
    <3> QED
      BY <1>1, <1>5, <2>1, <2>2, <3>1 DEF FreshInv, OneProductUnlessCrashed
  <2>3. CASE call[c].at = "approving" /\ product'[c].draft = call[c].on
    <3>1. /\ call[c].on \in Stored /\ call[c].on # None
          /\ draft[call[c].on].status \notin Terminal
      BY <2>3, DraftsAssumption
         DEF DraftsInv, CallInv, CallOK, FreshInv, CopiesAreFresh, Holding, Waiting, Stored
    <3>2. call[x].at # "linking"
      BY <1>2, <1>5, <2>1, <2>3, <3>1 DEF OneCallPerDraft, Waiting
    <3>3. draft[product[x].draft].status = "APPROVED"
      BY <2>1, <3>2 DEF FreshInv, EndedApprovalsDecided
    <3> QED
      BY <1>5, <2>1, <2>3, <3>1, <3>3 DEF Terminal
  <2> QED
    BY <2>2, <2>3 DEF FreshMove
<1>6. ASSUME NEW x \in Created', NEW y \in Created', x # c, y # c,
             call'[x].at # "crashed", call'[y].at # "crashed",
             product'[x].draft = product'[y].draft
      PROVE  x = y
  BY <1>1, <1>6 DEF FreshInv, OneProductUnlessCrashed, Created
<1>7. OneProductUnlessCrashed'
  BY <1>5, <1>6 DEF OneProductUnlessCrashed
<1> QED
  BY <1>3, <1>4, <1>7 DEF FreshInv

(* A fresh copy is written as it is, over a draft nobody else has read.    *)
LEMMA FreshCommit ==
    ASSUME DraftsInv, FreshInv, OneCallPerDraft, NEW c \in Calls, call[c].at \in Holding,
           NEW copy \in Row, Commit(c, copy)
    PROVE  /\ draft'[call[c].on] = copy
           /\ \A d \in Stored : draft[d].status \in Terminal => draft'[d] = draft[d]
           /\ \A x \in Calls \ {c} :
                call[x].at \in Holding => draft'[call[x].on] = draft[call[x].on]
<1> DEFINE d == call[c].on
<1>1. /\ d \in Stored /\ d \in Drafts /\ d # None /\ draft[d] = call[c].seen
      /\ draft[d] \in Row /\ draft[d].status \notin Terminal
  BY DraftsAssumption
     DEF DraftsInv, CallInv, CallOK, FreshInv, CopiesAreFresh, Stored
<1>2. Flushed(draft[d], draft[d], copy) = copy
  <2>1. /\ DOMAIN draft[d] = {"status", "sku", "price", "product", "key"}
        /\ copy = [col \in {"status", "sku", "price", "product", "key"} |-> copy[col]]
    BY <1>1 DEF Row
  <2>2. \A col \in DOMAIN draft[d] :
          (IF copy[col] = draft[d][col] THEN draft[d][col] ELSE copy[col]) = copy[col]
    OBVIOUS
  <2> QED
    BY <2>1, <2>2 DEF Flushed
<1>3. draft' = [draft EXCEPT ![d] = copy] /\ draft \in [Drafts -> Row \cup {None}]
  BY <1>1, <1>2 DEF Commit, DraftsInv, DraftsTypeOK
<1>4. \A x \in Calls \ {c} : call[x].at \in Holding => call[x].on # d
  BY <1>1 DEF OneCallPerDraft, Holding
<1>5. \A x \in Calls : call[x].at \in Holding => call[x].on \in Drafts
  BY DEF DraftsInv, CallInv, CallOK, Stored
<1> QED
  BY <1>1, <1>3, <1>4, <1>5 DEF Stored

LEMMA FreshSteps ==
    ASSUME DraftsInv, FreshInv, OneCallPerDraft, NEW c \in Calls,
           BeginCall(c) \/ ContinueCall(c) \/ CrashCall(c)
    PROVE  FreshMove(c)
<1>0. /\ DraftsTypeOK /\ CallOK(c) /\ product[c] \in Product \cup {None}
      /\ call[c].at \in Holding => call[c].seen \in Row
  BY DEF DraftsInv, CallInv, CallOK, DraftsTypeOK
<1>1. ASSUME call[c].at \in {"calling", "editing", "rejecting"}, NEW copy \in Row,
             Commit(c, copy), Finish(c), UNCHANGED product
      PROVE  FreshMove(c)
  <2>1. /\ call'[c].at = "done" /\ c \notin Created
        /\ \A x \in Calls \ {c} : call'[x] = call[x]
    BY <1>0, <1>1 DEF Finish, Idle, DraftsTypeOK, CallOK, Created
  <2> QED
    BY <1>1, <2>1, FreshCommit DEF FreshMove, Holding, Waiting
<1>2. CASE Describe(c) \/ ProviderFails(c) \/ CommitReject(c)
  <2>1. \E st \in {"GENERATED", "FAILED", "REJECTED"}, s \in Skus \cup {None} :
          \/ Commit(c, [call[c].seen EXCEPT !.status = st])
          \/ Commit(c, [call[c].seen EXCEPT !.status = st, !.sku = s])
    BY <1>2 DEF Describe, ProviderFails, CommitReject
  <2>2. \A st \in {"GENERATED", "FAILED", "REJECTED"}, s \in Skus \cup {None} :
          /\ [call[c].seen EXCEPT !.status = st] \in Row
          /\ [call[c].seen EXCEPT !.status = st, !.sku = s] \in Row
    BY <1>0, <1>2
       DEF Describe, ProviderFails, CommitReject, Holding, Waiting, Row, DraftStatus, Terminal
  <2>3. /\ call[c].at \in {"calling", "editing", "rejecting"} /\ Finish(c)
        /\ UNCHANGED product
    BY <1>2 DEF Describe, ProviderFails, CommitReject
  <2> QED
    BY <1>1, <2>1, <2>2, <2>3
<1>3. CASE CommitEdit(c)
  <2>1. PICK s \in Skus \cup {None}, p \in Prices \cup {None} : Commit(c, Edited(c, s, p))
    BY <1>3 DEF CommitEdit
  <2>2. Edited(c, s, p) \in Row
    BY <1>0, <1>3, EditKeeps DEF CommitEdit, Holding, Waiting
  <2> QED
    BY <1>1, <1>3, <2>1, <2>2 DEF CommitEdit
<1>4. CASE CreateProduct(c)
  <2>1. PICK s \in Skus \cup {None}, p \in Prices \cup {None} :
          /\ product' = [product EXCEPT ![c] = [draft |-> call[c].on, sku |-> s, price |-> p]]
          /\ Commit(c, Edited(c, s, p))
          /\ call' = [call EXCEPT ![c].at = "linking", ![c].seen = Edited(c, s, p)]
    BY <1>4 DEF CreateProduct
  <2>2. call[c].at = "approving" /\ Edited(c, s, p) \in Row
    BY <1>0, <1>4, EditKeeps DEF CreateProduct, Holding, Waiting
  <2>3. /\ call'[c].at = "linking" /\ call'[c].on = call[c].on
        /\ call'[c].seen = Edited(c, s, p) /\ product'[c].draft = call[c].on
        /\ \A x \in Calls \ {c} : call'[x] = call[x] /\ product'[x] = product[x]
    BY <1>0, <2>1 DEF DraftsTypeOK
  <2>4. PICK copy \in Row : copy = Edited(c, s, p)
    BY <2>2
  <2>5. /\ draft'[call[c].on] = copy
        /\ \A d \in Stored : draft[d].status \in Terminal => draft'[d] = draft[d]
        /\ \A x \in Calls \ {c} :
             call[x].at \in Holding => draft'[call[x].on] = draft[call[x].on]
    BY <2>1, <2>2, <2>4, FreshCommit DEF Holding, Waiting
  <2> QED
    BY <2>2, <2>3, <2>4, <2>5 DEF FreshMove
<1>5. CASE LinkProduct(c)
  <2> DEFINE copy == [call[c].seen EXCEPT !.status = "APPROVED", !.product = c]
  <2>1. /\ call[c].at = "linking" /\ product[c].draft = call[c].on
        /\ Commit(c, copy) /\ UNCHANGED product
    BY <1>0, <1>5 DEF LinkProduct, CallOK
  <2>2. copy \in Row /\ copy.status = "APPROVED"
    BY <1>0, <2>1 DEF Holding, Waiting, Row, DraftStatus, Terminal
  <2> HIDE DEF copy
  <2>3. /\ call'[c].at = "done" /\ \A x \in Calls \ {c} : call'[x] = call[x]
    BY <1>0, <1>5 DEF LinkProduct, Finish, Idle, DraftsTypeOK
  <2> QED
    BY <2>1, <2>2, <2>3, FreshCommit DEF FreshMove, Holding, Waiting
<1>6. ASSUME NEW d \in Drafts, InsertDraft(c, d)
      PROVE  FreshMove(c)
  <2>1. /\ call[c].at = "inserting" /\ d \notin Stored /\ UNCHANGED product
        /\ \A x \in Drafts \ {d} : draft'[x] = draft[x]
        /\ call'[c].seen = draft'[d] /\ call'[c].on = d
        /\ \A x \in Calls \ {c} : call'[x] = call[x]
    BY <1>0, <1>6 DEF InsertDraft, DraftsTypeOK
  <2>2. \A x \in Calls : call[x].at \in Holding => call[x].on \in Stored
    BY DEF DraftsInv, CallInv, CallOK
  <2>3. c \notin Created
    BY <1>0, <2>1 DEF CallOK, Created
  <2> QED
    BY <2>1, <2>2, <2>3 DEF FreshMove, Stored
<1>7. ASSUME UNCHANGED <<draft, product>>, call[c].at # "crashed",
             \A x \in Calls \ {c} : call'[x] = call[x],
             c \notin Created \/ call'[c].at = "crashed",
             call'[c].at \in Holding => call'[c].seen = draft[call'[c].on]
      PROVE  FreshMove(c)
  BY <1>7 DEF FreshMove
<1>8. CASE BeginCall(c)
  <2>1. call[c].at = "idle" /\ c \notin Created /\ UNCHANGED <<draft, product>>
    BY <1>0, <1>8
       DEF BeginCall, LookUpKey, Regenerate, BeginEdit, BeginApprove, BeginReject, Read,
           CallOK, Created
  <2>2. CASE \E k \in Keys \cup {None} : LookUpKey(c, k)
    <3>1. /\ call'[c].at = "inserting" /\ \A x \in Calls \ {c} : call'[x] = call[x]
      BY <1>0, <2>2 DEF LookUpKey, DraftsTypeOK
    <3> QED
      BY <1>7, <2>1, <3>1 DEF Holding
  <2>3. CASE \E d \in Drafts : \E from, at : Read(c, d, from, at)
    <3>1. PICK d \in Drafts : \E at :
            call' = [call EXCEPT ![c].at = at, ![c].on = d, ![c].seen = draft[d]]
      BY <2>3 DEF Read
    <3>2. /\ call'[c].seen = draft[call'[c].on] /\ \A x \in Calls \ {c} : call'[x] = call[x]
      BY <1>0, <3>1 DEF DraftsTypeOK
    <3> QED
      BY <1>7, <2>1, <3>2
  <2> QED
    BY <1>8, <2>2, <2>3 DEF BeginCall, Regenerate, BeginEdit, BeginApprove, BeginReject
<1>9. CASE RefuseDraft(c) \/ RefuseProduct(c) \/ CrashCall(c)
  <2>1. /\ UNCHANGED <<draft, product>> /\ call[c].at \in Waiting
        /\ \/ /\ call' = [call EXCEPT ![c] = [Idle EXCEPT !.at = "done"]]
              /\ call[c].at \in {"inserting", "approving"}
           \/ call' = [call EXCEPT ![c] = [Idle EXCEPT !.at = "crashed", !.on = call[c].on]]
    BY <1>9 DEF RefuseDraft, RefuseProduct, CrashCall, Finish, Waiting
  <2>2. /\ call'[c].at \in {"done", "crashed"} /\ \A x \in Calls \ {c} : call'[x] = call[x]
        /\ call'[c].at = "done" => call[c].at \in {"inserting", "approving"}
    BY <1>0, <2>1 DEF DraftsTypeOK, Idle
  <2>3. c \notin Created \/ call'[c].at = "crashed"
    BY <1>0, <2>2 DEF CallOK, Created
  <2> QED
    BY <1>7, <2>1, <2>2, <2>3 DEF Holding, Waiting
<1> QED
  BY <1>2, <1>3, <1>4, <1>5, <1>6, <1>8, <1>9 DEF ContinueCall, Answer

LEMMA InitFresh == DraftsInit => FreshInv
BY DEF DraftsInit, FreshInv, CopiesAreFresh, EndedApprovalsDecided, OneProductUnlessCrashed,
       Idle, Holding, Waiting, Created

LEMMA NextFresh ==
    DraftsInv /\ FreshInv /\ OneCallPerDraft /\ [DraftsNext]_draftVars => FreshInv'
<1> SUFFICES ASSUME DraftsInv, FreshInv, OneCallPerDraft, [DraftsNext]_draftVars
             PROVE  FreshInv'
  OBVIOUS
<1>1. CASE UNCHANGED draftVars
  BY <1>1 DEF draftVars, FreshInv, CopiesAreFresh, EndedApprovalsDecided,
              OneProductUnlessCrashed, Created
<1>2. ASSUME NEW c \in Calls, BeginCall(c) \/ ContinueCall(c) \/ CrashCall(c)
      PROVE  FreshInv'
  BY <1>2, FreshSteps, FreshMoveKeeps
<1> QED
  BY <1>1, <1>2 DEF DraftsNext, AllCallsEnded

(* As long as the calls about one draft do not overlap, a decided draft    *)
(* keeps its status, as models.py says; the violation needs the overlap.   *)
THEOREM SerialCallsKeepDecisions ==
    DraftsSpec /\ []OneCallPerDraft => DecisionsAreFinal
<1>1. DraftsInv /\ FreshInv /\ OneCallPerDraft /\ [DraftsNext]_draftVars =>
        [\A d \in Stored :
           draft[d].status \in Terminal => draft'[d].status = draft[d].status]_draftVars
  <2> SUFFICES ASSUME DraftsInv, FreshInv, OneCallPerDraft, DraftsNext, NEW d \in Stored,
                      draft[d].status \in Terminal
               PROVE  draft'[d].status = draft[d].status
    OBVIOUS
  <2>1. CASE UNCHANGED draftVars
    BY <2>1 DEF draftVars
  <2>2. ASSUME NEW c \in Calls, BeginCall(c) \/ ContinueCall(c) \/ CrashCall(c)
        PROVE  draft'[d] = draft[d]
    BY <2>2, FreshSteps DEF FreshMove
  <2> QED
    BY <2>1, <2>2 DEF DraftsNext, AllCallsEnded
<1> QED
  BY <1>1, InitFresh, NextFresh, AlwaysDrafts, PTL DEF DraftsSpec, DecisionsAreFinal

(* ... and a draft becomes one product, as approve's docstring says, of    *)
(* every approval that did not die between its two commits.                *)
THEOREM SerialApprovalsMakeOneProduct == DraftsSpec => SerialApprovals
<1>1. FreshInv => OneProductUnlessCrashed
  BY DEF FreshInv
<1> QED
  BY <1>1, InitFresh, NextFresh, AlwaysDrafts, PTL DEF DraftsSpec, SerialApprovals
=============================================================================
