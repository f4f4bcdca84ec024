---------------------------- MODULE Conversation ----------------------------
(***************************************************************************)
(* The WhatsApp conversation (app/conversation): a message becomes an      *)
(* intent, the product it names is looked for in the catalog, and the      *)
(* stock of the one product found is read or adjusted.  The AI provider    *)
(* may answer anything: what is modelled is what the service does with it. *)
(***************************************************************************)
EXTENDS Inventory, Directory

CONSTANTS
    Queries,       \* product queries: per search word, in the order they are
                   \* tried, the product names that contain it
    NoProduct

ASSUME ConversationAssumption ==
    /\ Queries \subseteq Seq(SUBSET Labels) \ {<<>>}
    /\ Products \subseteq Ids
    /\ NoProduct \notin Ids

VARIABLE conv      \* state of every message

talkVars == <<invVars, dirVars, conv>>

ACTIONABLE == {"SEARCH_PRODUCT", "GET_STOCK", "ADJUST_STOCK"}

Outcome ==
    {"EXECUTED", "CLARIFICATION", "UNSUPPORTED", "NOT_FOUND", "REJECTED", "ERROR"}

(* The business, with the principal, is not the message's to choose.       *)
Unheard ==
    [pc |-> "new", intent |-> "UNSUPPORTED", biz |-> Null, query |-> <<>>, word |-> 1,
     delta |-> 0, product |-> NoProduct, outcome |-> "ERROR"]

ConvInit == conv = [r \in ConversationRequests |-> Unheard]

TalkInit == InvInit /\ DirInit /\ ConvInit

Say(r, outcome) == [conv[r] EXCEPT !.pc = "send", !.outcome = outcome]

-----------------------------------------------------------------------------
(* Nothing is looked up for an empty text or a provider that fails, for a  *)
(* low confidence, an intent without a handler, a missing product or       *)
(* quantity.                                                               *)
BeginSmallTalk(r, outcome) ==
    /\ conv[r].pc = "new"
    /\ outcome \in {"CLARIFICATION", "UNSUPPORTED", "ERROR"}
    /\ conv' = [conv EXCEPT ![r] = Say(r, outcome)]
    /\ UNCHANGED <<invVars, dirVars>>

BeginIntent(r, b, intent, query, d) ==
    /\ conv[r].pc = "new"
    /\ b \in Shops
    /\ intent \in ACTIONABLE
    /\ intent = "ADJUST_STOCK" <=> d # 0
    /\ conv' = [conv EXCEPT ![r] =
         [@ EXCEPT !.pc = "resolve", !.intent = intent, !.biz = b, !.query = query,
                   !.delta = d]]
    /\ UNCHANGED <<invVars, dirVars>>

(* list_products: live products of the business whose name has the word.   *)
Matches(b, names) ==
    {p \in Ids : Visible("product", b, p) /\ db["product"][p].label \in names}

(* resolve sends one SELECT per word of _candidates, the query and then    *)
(* its shorter forms, until one finds something.                           *)
Found(r) == Matches(conv[r].biz, conv[r].query[conv[r].word])

TryNextWord(r) ==
    /\ conv[r].pc = "resolve"
    /\ Found(r) = {}
    /\ conv' = [conv EXCEPT ![r] =
         IF @.word < Len(@.query) THEN [@ EXCEPT !.word = conv[r].word + 1]
                                  ELSE Say(r, "NOT_FOUND")]
    /\ UNCHANGED <<invVars, dirVars>>

(* SearchProductHandler shows what it found; the other two want one        *)
(* product.                                                                *)
ShowOrAsk(r) ==
    /\ conv[r].pc = "resolve"
    /\ Found(r) # {}
    /\ conv[r].intent = "SEARCH_PRODUCT" \/ Cardinality(Found(r)) > 1
    /\ conv' = [conv EXCEPT ![r] =
         Say(r, IF @.intent = "SEARCH_PRODUCT" THEN "EXECUTED" ELSE "CLARIFICATION")]
    /\ UNCHANGED <<invVars, dirVars>>

(* Fault: the first of several products is taken.                          *)
ChooseFirst(r) ==
    /\ conv[r].pc = "resolve"
    /\ conv[r].intent # "SEARCH_PRODUCT"
    /\ \E p \in Found(r) :
        conv' = [conv EXCEPT ![r] = [@ EXCEPT !.pc = "stock", !.product = p]]
    /\ UNCHANGED <<invVars, dirVars>>

ChooseProduct(r) ==
    /\ conv[r].pc = "resolve"
    /\ conv[r].intent # "SEARCH_PRODUCT"
    /\ \E p \in Ids :
        /\ Found(r) = {p}
        /\ conv' = [conv EXCEPT ![r] = [@ EXCEPT !.pc = "stock", !.product = p]]
    /\ UNCHANGED <<invVars, dirVars>>

(* get_inventory_by_product answers GET_STOCK; a product without a row,    *)
(* ends an adjustment too.                                                 *)
TellStock(r) ==
    /\ conv[r].pc = "stock"
    /\ conv[r].intent = "GET_STOCK" \/ conv[r].product \notin rows
    /\ conv' = [conv EXCEPT ![r] =
         Say(r, IF conv[r].product \in rows THEN "EXECUTED" ELSE "NOT_FOUND")]
    /\ UNCHANGED <<invVars, dirVars>>

(* adjust_stock_by_product, on the row the session keeps.                  *)
AdjustStock(r) ==
    /\ conv[r].pc = "stock"
    /\ conv[r].intent = "ADJUST_STOCK"
    /\ conv[r].product \in rows
    /\ BeginAdjustByProduct(r, conv[r].product, conv[r].delta)
    /\ conv' = [conv EXCEPT ![r] = [@ EXCEPT !.pc = "adjust"]]
    /\ UNCHANGED dirVars

(* A shortage is REJECTED; what the handler does not expect is an ERROR.   *)
TellAdjusted(r) ==
    /\ conv[r].pc = "adjust"
    /\ adj[r].pc \in {"done", "failed"}
    /\ conv' = [conv EXCEPT ![r] =
         Say(r, IF adj[r].pc = "done" THEN "EXECUTED"
                ELSE IF adj[r].q + adj[r].arg < 0 THEN "REJECTED" ELSE "ERROR")]
    /\ UNCHANGED <<invVars, dirVars>>

(* _finish sends the reply; a failure to send ends the request, whatever   *)
(* has been committed.                                                     *)
SendReply(r) ==
    /\ conv[r].pc = "send"
    /\ \E label \in {"done", "failed"} :
        conv' = [conv EXCEPT ![r] = [Unheard EXCEPT !.pc = label]]
    /\ UNCHANGED <<invVars, dirVars>>

(* A thread that dies in adjust_stock is CrashAdj's and says nothing more. *)
CrashConv(r) ==
    /\ conv[r].pc \in {"resolve", "stock", "send"}
    /\ conv' = [conv EXCEPT ![r] = [Unheard EXCEPT !.pc = "crashed"]]
    /\ UNCHANGED <<invVars, dirVars>>

BeginConv(r) ==
    \/ \E outcome \in Outcome : BeginSmallTalk(r, outcome)
    \/ \E b \in Shops, intent \in ACTIONABLE, query \in Queries, d \in Deltas \cup {0} :
         BeginIntent(r, b, intent, query, d)

ContinueConv(r) ==
    \/ TryNextWord(r) \/ ShowOrAsk(r) \/ ChooseProduct(r) \/ TellStock(r)
    \/ AdjustStock(r) \/ TellAdjusted(r) \/ SendReply(r)

ConvNext ==
    \E r \in ConversationRequests : BeginConv(r) \/ ContinueConv(r) \/ CrashConv(r)

(* The steps of adjust_stock and those of the dashboard's requests.        *)
AdjStep ==
    \/ \E r \in InventoryRequests : ContinueAdj(r) \/ CrashAdj(r)
    \/ \E r \in DashboardRequests : BeginAdj(r)

TalkNext ==
    \/ ConvNext
    \/ AdjStep /\ UNCHANGED <<dirVars, conv>>
    \/ DirNext /\ UNCHANGED <<invVars, conv>>

TalkSpec == TalkInit /\ [][TalkNext]_talkVars

-----------------------------------------------------------------------------
(* What one look at the catalog would find for a query.                    *)
Resolved(b, query) ==
    LET hits == {i \in 1 .. Len(query) : Matches(b, query[i]) # {}} IN
    IF hits = {} THEN {}
    ELSE Matches(b, query[CHOOSE i \in hits : \A j \in hits : i <= j])

(* Every later word of the query is part of the earlier ones, as in        *)
(* "notebooks", "notebook".                                                *)
Widening(query) ==
    \A i, j \in 1 .. Len(query) : i <= j => query[i] \subseteq query[j]

(* Although resolve looks several times while products come, go and are    *)
(* renamed, the one product it settles on, or its finding none, is what    *)
(* one look at the moment of its last SELECT would give.                   *)
ResolutionIsAtomic ==
    [][\A r \in ConversationRequests :
         conv[r].pc = "resolve" /\ Widening(conv[r].query) =>
            /\ conv'[r].pc = "stock" =>
                 Resolved(conv[r].biz, conv[r].query) = {conv'[r].product}
            /\ conv'[r].pc = "send" /\ conv'[r].outcome = "NOT_FOUND" =>
                 Resolved(conv[r].biz, conv[r].query) = {}]_talkVars
=============================================================================
