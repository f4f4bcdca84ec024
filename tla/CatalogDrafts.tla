---------------------------- MODULE CatalogDrafts ----------------------------
(***************************************************************************)
(* The AI catalog drafts of app/catalogai: a photo becomes a draft, the    *)
(* draft is described by a provider, reviewed by the merchant and approved *)
(* into a product or rejected.                                             *)
(*                                                                         *)
(* The calls of CatalogAiService overlap.  Each reads the row of its draft *)
(* once, without a lock, decides on that copy, may wait for the provider,  *)
(* and commits.  The session writes back only the columns in which its     *)
(* copy changed (Flushed); there is no version check.                      *)
(*                                                                         *)
(* A row keeps the columns decisions depend on: its status, the SKU (which *)
(* stands for all the text a product needs), the price and the product it  *)
(* became.  A call that is refused on its first read leaves no trace and   *)
(* is a stuttering step.                                                   *)
(***************************************************************************)
EXTENDS FiniteSets

CONSTANTS
    Drafts,   \* identities of the drafts of one business
    Calls,    \* calls of the service; each is made once
    Keys,     \* request keys for idempotent generation
    Skus,     \* SKUs the provider suggests or the merchant enters
    Prices,   \* prices the merchant enters
    None      \* NULL

VARIABLES
    draft,    \* catalog_ai_draft rows
    product,  \* product rows, named by the call that created them
    call      \* where every call stands, its draft and the copy it has read

draftVars == <<draft, product, call>>

-----------------------------------------------------------------------------
Terminal == {"APPROVED", "REJECTED"}

DraftStatus == {"PENDING", "GENERATED", "FAILED"} \cup Terminal

RegeneratableFrom == {"GENERATED", "FAILED", "PENDING"}

(* Fault: an approved draft is not recognised as such.                     *)
ApprovableAgain == {"GENERATED", "APPROVED"}

ApprovableFrom == {"GENERATED"}

Row == [status : DraftStatus, sku : Skus \cup {None}, price : Prices \cup {None},
        product : Calls \cup {None}, key : Keys \cup {None}]

Product == [draft : Drafts, sku : Skus, price : Prices]

ASSUME DraftsAssumption ==
    /\ None \notin Drafts \cup Calls \cup Keys \cup Skus \cup Prices
    /\ None \notin Row
    /\ None \notin Product

Waiting == {"inserting", "calling", "editing", "approving", "linking", "rejecting"}

Stored == {d \in Drafts : draft[d] # None}
Created == {c \in Calls : product[c] # None}

(* Fault: the whole copy is written.                                       *)
WholeRow(row, seen, copy) == copy

(* What an UPDATE of the row makes of it when a session that read seen     *)
(* commits its copy: unchanged columns are not part of the UPDATE.         *)
Flushed(row, seen, copy) ==
    [col \in DOMAIN row |-> IF copy[col] = seen[col] THEN row[col] ELSE copy[col]]

Commit(c, copy) ==
    draft' = [draft EXCEPT ![call[c].on] = Flushed(@, call[c].seen, copy)]

(* The call ends and forgets its copy; a crashed one is remembered by its  *)
(* draft.                                                                  *)
Idle == [at |-> "idle", on |-> None, seen |-> None, key |-> None]

Finish(c) == call' = [call EXCEPT ![c] = [Idle EXCEPT !.at = "done"]]

(* Some drafts are there already, described or failed by earlier calls     *)
(* and perhaps edited since.                                               *)
DraftsInit ==
    /\ draft \in [Drafts -> {None} \cup
                     [status : {"GENERATED", "FAILED"}, sku : Skus \cup {None},
                      price : Prices \cup {None}, product : {None}, key : {None}]]
    /\ product = [c \in Calls |-> None]
    /\ call = [c \in Calls |-> Idle]

-----------------------------------------------------------------------------
(* generate_draft looks for a draft with its key ...                       *)
LookUpKey(c, k) ==
    /\ call[c].at = "idle"
    /\ k # None => \A d \in Stored : draft[d].key # k
    /\ call' = [call EXCEPT ![c].at = "inserting", ![c].key = k]
    /\ UNCHANGED <<draft, product>>

(* Fault: there is no unique index on the request key.                     *)
InsertUnchecked(c, d) ==
    LET row == [status |-> "PENDING", sku |-> None, price |-> None,
                product |-> None, key |-> call[c].key]
    IN  /\ call[c].at = "inserting"
        /\ d \notin Stored
        /\ draft' = [draft EXCEPT ![d] = row]
        /\ call' = [call EXCEPT ![c].at = "calling", ![c].on = d, ![c].seen = row]
        /\ UNCHANGED product

(* ... and commits a PENDING row; the unique index stops a second one.     *)
InsertDraft(c, d) ==
    LET row == [status |-> "PENDING", sku |-> None, price |-> None,
                product |-> None, key |-> call[c].key]
    IN  /\ call[c].at = "inserting"
        /\ d \notin Stored
        /\ row.key # None => \A e \in Stored : draft[e].key # row.key
        /\ draft' = [draft EXCEPT ![d] = row]
        /\ call' = [call EXCEPT ![c].at = "calling", ![c].on = d, ![c].seen = row]
        /\ UNCHANGED product

RefuseDraft(c) ==
    /\ call[c].at = "inserting"
    /\ \E d \in Stored : draft[d].key = call[c].key /\ call[c].key # None
    /\ Finish(c)
    /\ UNCHANGED <<draft, product>>

(* _require and the state check of every other call.                       *)
Read(c, d, from, at) ==
    /\ call[c].at = "idle"
    /\ d \in Stored
    /\ draft[d].status \in from
    /\ call' = [call EXCEPT ![c].at = at, ![c].on = d, ![c].seen = draft[d]]
    /\ UNCHANGED <<draft, product>>

Regenerate(c, d) == Read(c, d, RegeneratableFrom, "calling")
BeginEdit(c, d) == Read(c, d, DraftStatus \ Terminal, "editing")
BeginApprove(c, d) == Read(c, d, ApprovableFrom, "approving")
BeginReject(c, d) == Read(c, d, DraftStatus \ Terminal, "rejecting")

(* The provider answers: the payload replaces the text, never the price.   *)
Describe(c) ==
    /\ call[c].at = "calling"
    /\ \E s \in Skus \cup {None} :
         Commit(c, [call[c].seen EXCEPT !.status = "GENERATED", !.sku = s])
    /\ Finish(c)
    /\ UNCHANGED product

(* Fault: the failure is raised but not recorded.                          *)
FailsUnrecorded(c) ==
    /\ call[c].at = "calling"
    /\ Finish(c)
    /\ UNCHANGED <<draft, product>>

(* The provider fails or times out: the failure is recorded.               *)
ProviderFails(c) ==
    /\ call[c].at = "calling"
    /\ Commit(c, [call[c].seen EXCEPT !.status = "FAILED"])
    /\ Finish(c)
    /\ UNCHANGED product

(* What a merchant's edit makes of the copy: a field given as null is      *)
(* cleared, one not given keeps the value it has.                          *)
Edited(c, s, p) == [call[c].seen EXCEPT !.sku = s, !.price = p]

CommitEdit(c) ==
    /\ call[c].at = "editing"
    /\ \E s \in Skus \cup {None}, p \in Prices \cup {None} : Commit(c, Edited(c, s, p))
    /\ Finish(c)
    /\ UNCHANGED product

CommitReject(c) ==
    /\ call[c].at = "rejecting"
    /\ Commit(c, [call[c].seen EXCEPT !.status = "REJECTED"])
    /\ Finish(c)
    /\ UNCHANGED product

(* The SKU is free: neither the check nor the unique index objects.  Both  *)
(* look at live products only; no product is deleted here.                 *)
Free(s) == \A c \in Created : product[c].sku # s

(* Fault: the price is not asked for.                                      *)
HasSku(s, p) == s # None

Complete(s, p) == s # None /\ p # None

(* approve, first commit: CatalogService.create_product commits the        *)
(* product together with the edit that came with the approval.             *)
CreateProduct(c) ==
    /\ call[c].at = "approving"
    /\ \E s \in Skus \cup {None}, p \in Prices \cup {None} :
         /\ Complete(s, p)
         /\ Free(s)
         /\ product' = [product EXCEPT ![c] = [draft |-> call[c].on, sku |-> s, price |-> p]]
         /\ Commit(c, Edited(c, s, p))
         /\ call' = [call EXCEPT ![c].at = "linking", ![c].seen = Edited(c, s, p)]

(* Fault: the decision is committed before the product is created.         *)
RefuseAfterDecision(c) ==
    /\ call[c].at = "approving"
    /\ Commit(c, [call[c].seen EXCEPT !.status = "APPROVED"])
    /\ Finish(c)
    /\ UNCHANGED product

(* A missing field or a taken SKU: the edit is rolled back too.            *)
RefuseProduct(c) ==
    /\ call[c].at = "approving"
    /\ \E s \in Skus \cup {None}, p \in Prices \cup {None} : ~Complete(s, p) \/ ~Free(s)
    /\ Finish(c)
    /\ UNCHANGED <<draft, product>>

(* approve, second commit: the draft is APPROVED and names its product.    *)
LinkProduct(c) ==
    /\ call[c].at = "linking"
    /\ Commit(c, [call[c].seen EXCEPT !.status = "APPROVED", !.product = c])
    /\ Finish(c)
    /\ UNCHANGED product

(* The process dies, or the call ends in an error nothing handles.         *)
CrashCall(c) ==
    /\ call[c].at \in Waiting
    /\ call' = [call EXCEPT ![c] = [Idle EXCEPT !.at = "crashed", !.on = call[c].on]]
    /\ UNCHANGED <<draft, product>>

-----------------------------------------------------------------------------
BeginCall(c) ==
    \/ \E k \in Keys \cup {None} : LookUpKey(c, k)
    \/ \E d \in Drafts :
         Regenerate(c, d) \/ BeginEdit(c, d) \/ BeginApprove(c, d) \/ BeginReject(c, d)

Answer(c) == Describe(c) \/ ProviderFails(c)

ContinueCall(c) ==
    \/ \E d \in Drafts : InsertDraft(c, d)
    \/ RefuseDraft(c) \/ Answer(c) \/ CommitEdit(c) \/ CommitReject(c)
    \/ CreateProduct(c) \/ RefuseProduct(c) \/ LinkProduct(c)

AllCallsEnded ==
    /\ \A c \in Calls : call[c].at \in {"done", "crashed"}
    /\ UNCHANGED draftVars

DraftsNext ==
    \/ \E c \in Calls : BeginCall(c) \/ ContinueCall(c) \/ CrashCall(c)
    \/ AllCallsEnded

DraftsSpec == DraftsInit /\ [][DraftsNext]_draftVars

(* Every provider call has a timeout (30 s in adapters/gemini.py), so a    *)
(* call that waits for one goes on.                                        *)
DraftsFairness == \A c \in Calls : WF_draftVars(Answer(c))

-----------------------------------------------------------------------------
DraftsTypeOK ==
    /\ draft \in [Drafts -> Row \cup {None}]
    /\ product \in [Calls -> Product \cup {None}]
    /\ call \in [Calls -> [at : Waiting \cup {"idle", "done", "crashed"},
                           on : Drafts \cup {None}, seen : Row \cup {None},
                           key : Keys \cup {None}]]

(* An APPROVED draft names a product, and that product was made from it:   *)
(* whatever overlaps the approval, wherever it stops (CatalogAiService.    *)
(* approve commits the product first and the decision second).             *)
ApprovedHasItsProduct ==
    \A d \in Stored :
        draft[d].status = "APPROVED" =>
            /\ draft[d].product \in Created
            /\ product[draft[d].product].draft = d

(* Two calls of generate_draft with one request key leave one draft,       *)
(* however their look-ups and inserts interleave.                          *)
OneDraftPerKey ==
    \A d, e \in Stored : draft[d].key = draft[e].key /\ draft[d].key # None => d = e

(* No product is forgotten: once its approval has ended, its draft names   *)
(* it or the product of a rival approval.  An edit, a rejection or an      *)
(* answer that read the draft before keeps the approved_product_id it      *)
(* never saw, since the session writes only the columns it changed.        *)
NoProductIsForgotten ==
    \A c \in Created :
        \/ call[c].at \in {"linking", "crashed"}
        \/ /\ draft[product[c].draft].product \in Created
           /\ product[draft[product[c].draft].product].draft = product[c].draft

(* "Terminal states never change again" (models.py): once approved or      *)
(* rejected a draft keeps its status.  A provider's answer to a call that  *)
(* read the draft before the decision breaks it.                           *)
DecisionsAreFinal ==
    [][\A d \in Stored :
         draft[d].status \in Terminal => draft'[d].status = draft[d].status]_draftVars

(* The calls about one draft do not overlap, as when one merchant waits    *)
(* for every answer.                                                       *)
OneCallPerDraft ==
    \A c, e \in Calls :
        call[c].at \in Waiting /\ call[e].at \in Waiting /\ call[c].on = call[e].on =>
            c = e \/ call[c].on = None

(* Every draft is answered: a PENDING draft leaves that state, unless the  *)
(* call that was to describe it died.                                      *)
PendingIsAnswered ==
    \A d \in Drafts :
        LET Pending == d \in Stored /\ draft[d].status = "PENDING"
        IN  Pending ~> \/ ~Pending
                       \/ \E c \in Calls : call[c].on = d /\ call[c].at = "crashed"

(* "Idempotent: re-approving returns the already-created product" (the     *)
(* docstring of approve): a draft becomes one product.                     *)
OneProductPerDraft ==
    \A c, e \in Created : product[c].draft = product[e].draft => c = e

(* An approval that did not die between its two commits made a product     *)
(* that no other such approval of its draft made.                          *)
OneProductUnlessCrashed ==
    \A c, e \in Created :
        /\ product[c].draft = product[e].draft
        /\ call[c].at # "crashed" /\ call[e].at # "crashed"
        => c = e

(* As long as the calls about one draft do not overlap, the docstring is   *)
(* right about every approval that was not cut off: one that crashed after *)
(* its first commit leaves a GENERATED draft, to be approved again.        *)
SerialApprovals == []OneCallPerDraft => []OneProductUnlessCrashed
=============================================================================
