-------------------------- MODULE BackOffice_proofs --------------------------
(***************************************************************************)
(* Proofs about the conversation, the sessions, and the pool of threads    *)
(* that serves them together with the master data: the pool is no more     *)
(* than its parts, and the product a message settles on is the one a       *)
(* single look at the catalog would find.                                  *)
(***************************************************************************)
EXTENDS BackOffice, Directory_proofs, Inventory_proofs

-----------------------------------------------------------------------------
(* Refresh tokens.  A denylist entry outlives its token because the token  *)
(* was issued before the entry was made and both live for RefreshTTL.      *)

(* Only what has been issued is presented, and a request issues its token  *)
(* last.                                                                   *)
SessRequestOK(r) ==
    /\ sess[r].pc \notin SessEnded => expiry[r] = 0
    /\ sess[r].pc \in {"check", "rotate", "revoke"} => expiry[sess[r].jti] # 0

TokenOK(k) ==
    /\ expiry[k] <= now + RefreshTTL
    /\ k \in spent => expiry[k] # 0 /\ (denied[k] >= expiry[k] \/ expiry[k] <= now)

SessInv ==
    /\ SessTypeOK
    /\ \A r \in SessionRequests : SessRequestOK(r)
    /\ \A k \in Tokens : TokenOK(k)

USE SessionsAssumption DEF Tokens

LEMMA InitSessions == SessInit => SessInv
<1> SUFFICES ASSUME SessInit
             PROVE  SessInv
  OBVIOUS
<1>1. SessTypeOK
  BY DEF SessInit, SessTypeOK, SessState
<1>2. \A r \in SessionRequests : SessRequestOK(r)
  BY DEF SessInit, SessRequestOK
<1>3. \A k \in Tokens : TokenOK(k)
  BY DEF SessInit, TokenOK
<1> QED
  BY <1>1, <1>2, <1>3 DEF SessInv

(* A step of request r that writes its own state only.                     *)
OwnStep(r) ==
    /\ sess' \in [SessionRequests -> SessState]
    /\ \A q \in SessionRequests \ {r} : sess'[q] = sess[q]
    /\ SessRequestOK(r)'

LEMMA SessKept ==
    ASSUME SessInv, NEW r \in SessionRequests, OwnStep(r),
           UNCHANGED <<now, expiry, denied, spent>>
    PROVE  SessInv'
<1>1. SessTypeOK'
  BY DEF SessInv, SessTypeOK, OwnStep
<1>2. \A q \in SessionRequests : SessRequestOK(q)'
  BY DEF SessInv, SessRequestOK, OwnStep
<1>3. \A k \in Tokens : TokenOK(k)'
  BY DEF SessInv, TokenOK
<1> QED
  BY <1>1, <1>2, <1>3 DEF SessInv

(* The requests that only look, and those that end.                        *)
LEMMA LookingKeeps ==
    ASSUME SessInv, NEW r \in SessionRequests,
           BeginSess(r) \/ CheckRevoked(r) \/ CrashSess(r)
    PROVE  SessInv'
<1>1. CASE BeginLogin(r)
  <2>1. OwnStep(r)
    BY <1>1 DEF BeginLogin, SessGoto, SessInv, SessTypeOK, SessState, SessRequestOK,
                OwnStep, SessEnded
  <2> QED
    BY <1>1, <2>1, SessKept DEF BeginLogin
<1>2. ASSUME NEW k \in Tokens, BeginRefresh(r, k) \/ BeginLogout(r, k)
      PROVE  SessInv'
  <2>1. now \in Nat /\ expiry[k] \in Nat
    BY DEF SessInv, SessTypeOK
  <2>2. OwnStep(r)
    BY <1>2, <2>1 DEF BeginRefresh, BeginLogout, Decodes, SessInv, SessTypeOK, SessState,
                      SessRequestOK, OwnStep, SessEnded
  <2> QED
    BY <1>2, <2>2, SessKept DEF BeginRefresh, BeginLogout
<1>3. CASE CheckRevoked(r)
  <2>1. OwnStep(r)
    BY <1>3 DEF CheckRevoked, SessGoto, SessInv, SessTypeOK, SessState, SessRequestOK,
                OwnStep, SessEnded
  <2> QED
    BY <1>3, <2>1, SessKept DEF CheckRevoked
<1>4. CASE CrashSess(r)
  <2>1. OwnStep(r)
    BY <1>4 DEF CrashSess, SessGoto, SessInv, SessTypeOK, SessState, SessRequestOK,
                OwnStep, SessEnded
  <2> QED
    BY <1>4, <2>1, SessKept DEF CrashSess
<1> QED
  BY <1>1, <1>2, <1>3, <1>4 DEF BeginSess

LEMMA RevokeKeeps ==
    ASSUME SessInv, NEW r \in SessionRequests, Revoke(r)
    PROVE  SessInv'
<1> DEFINE j == sess[r].jti
<1>0. j \in Tokens /\ expiry[j] # 0 /\ expiry[r] = 0
  BY DEF SessInv, SessTypeOK, SessState, SessRequestOK, Revoke, SessEnded
<1>1. SessTypeOK'
  BY <1>0 DEF SessInv, SessTypeOK, SessState, Revoke, Purged, SessGoto, SessEnded
<1>2. \A q \in SessionRequests : SessRequestOK(q)'
  BY DEF SessInv, SessTypeOK, SessState, SessRequestOK, Revoke, SessGoto, SessEnded
<1>3. ASSUME NEW k \in Tokens
      PROVE  TokenOK(k)'
  <2>1. TokenOK(k) /\ now \in Nat /\ expiry[k] \in Nat /\ denied[k] \in Nat
    BY DEF SessInv, SessTypeOK
  <2>2. /\ now' = now /\ expiry' = expiry /\ spent' = spent \cup {j}
        /\ denied'[k] = IF k = j THEN now + RefreshTTL
                        ELSE IF denied[k] <= now THEN 0 ELSE denied[k]
    BY <1>0 DEF Revoke, Purged
  <2> QED
    BY <1>0, <2>1, <2>2 DEF TokenOK
<1> QED
  BY <1>1, <1>2, <1>3 DEF SessInv

LEMMA IssueKeeps ==
    ASSUME SessInv, NEW r \in SessionRequests, Issue(r)
    PROVE  SessInv'
<1>0. r \in Tokens /\ expiry[r] = 0 /\ r \notin spent
  BY DEF SessInv, SessRequestOK, TokenOK, Issue, SessEnded
<1>1. SessTypeOK'
  BY <1>0 DEF SessInv, SessTypeOK, SessState, Issue, SessGoto, SessEnded
<1>2. \A q \in SessionRequests : SessRequestOK(q)'
  BY <1>0 DEF SessInv, SessTypeOK, SessState, SessRequestOK, Issue, SessGoto, SessEnded
<1>3. \A k \in Tokens : TokenOK(k)'
  BY <1>0 DEF SessInv, SessTypeOK, TokenOK, Issue
<1> QED
  BY <1>1, <1>2, <1>3 DEF SessInv

LEMMA TickKeeps ==
    ASSUME SessInv, Tick
    PROVE  SessInv'
<1>1. SessTypeOK'
  BY DEF SessInv, SessTypeOK, Tick
<1>2. \A r \in SessionRequests : SessRequestOK(r)'
  BY DEF SessInv, SessRequestOK, Tick
<1>3. \A k \in Tokens : TokenOK(k)'
  BY DEF SessInv, SessTypeOK, TokenOK, Tick
<1> QED
  BY <1>1, <1>2, <1>3 DEF SessInv

LEMMA NextSessions == SessInv /\ [SessNext]_sessVars => SessInv'
<1> SUFFICES ASSUME SessInv, [SessNext]_sessVars
             PROVE  SessInv'
  OBVIOUS
<1>1. CASE UNCHANGED sessVars
  BY <1>1 DEF sessVars, SessInv, SessTypeOK, SessRequestOK, TokenOK
<1>2. ASSUME NEW r \in SessionRequests, BeginSess(r) \/ ContinueSess(r) \/ CrashSess(r)
      PROVE  SessInv'
  BY <1>2, LookingKeeps, RevokeKeeps, IssueKeeps DEF ContinueSess
<1>3. CASE Tick
  BY <1>3, TickKeeps
<1> QED
  BY <1>1, <1>2, <1>3 DEF SessNext

THEOREM SessionsCorrect == SessSpec => []SessInv
<1> QED
  BY InitSessions, NextSessions, PTL DEF SessSpec

(* Every variable of the refresh tokens keeps its type.                    *)
THEOREM SessionsTypeCorrect == SessSpec => []SessTypeOK
<1>1. SessInv => SessTypeOK
  BY DEF SessInv
<1> QED
  BY <1>1, SessionsCorrect, PTL

(* A revoked token stays refused until it expires by itself.               *)
THEOREM RevocationOutlivesTokens == SessSpec => RevokedStaysRefused
<1> DEFINE Step ==
      \A r \in SessionRequests :
         sess[r].pc = "check" /\ sess'[r].pc = "rotate" /\ Decodes(sess[r].jti)
            => sess[r].jti \notin spent
<1>1. SessInv /\ [SessNext]_sessVars => [Step]_sessVars
  <2> SUFFICES ASSUME SessInv, SessNext, NEW r \in SessionRequests,
                      sess[r].pc = "check", sess'[r].pc = "rotate", Decodes(sess[r].jti)
               PROVE  sess[r].jti \notin spent
    OBVIOUS
  <2>1. CheckRevoked(r)
    <3>1. PICK q \in SessionRequests : BeginSess(q) \/ ContinueSess(q) \/ CrashSess(q)
      BY DEF SessNext, Tick
    <3>2. q = r
      BY <3>1 DEF BeginSess, ContinueSess, CheckRevoked, Revoke, Issue, CrashSess, BeginLogin,
                  BeginRefresh, BeginLogout, SessGoto, SessInv, SessTypeOK, SessState
    <3> QED
      BY <3>1, <3>2 DEF BeginSess, ContinueSess, Revoke, Issue, CrashSess, BeginLogin,
                        BeginRefresh, BeginLogout, SessGoto, SessInv, SessTypeOK, SessState
  <2>2. ~(now < denied[sess[r].jti])
    BY <2>1 DEF CheckRevoked, SessGoto, SessInv, SessTypeOK, SessState
  <2>3. /\ sess[r].jti \in Tokens
        /\ now \in Nat /\ expiry[sess[r].jti] \in Nat /\ denied[sess[r].jti] \in Nat
    BY DEF SessInv, SessTypeOK, SessState
  <2> QED
    BY <2>2, <2>3 DEF SessInv, TokenOK, Decodes
<1> QED
  BY <1>1, InitSessions, NextSessions, PTL DEF SessSpec, RevokedStaysRefused

-----------------------------------------------------------------------------
(* The conversation.                                                       *)

ConvState ==
    [pc : {"new", "resolve", "stock", "adjust", "send", "done", "failed", "crashed"},
     intent : ACTIONABLE \cup {"UNSUPPORTED"},
     biz : Ids \cup {Null},
     query : Seq(SUBSET Labels),
     word : Nat,
     delta : Int,
     product : Ids \cup {NoProduct},
     outcome : Outcome]

(* A message that is being resolved has a word to look for, and an         *)
(* adjustment a change that a client may ask for.                          *)
MessageOK(q) ==
    /\ q.pc = "new" => q.word = 1
    /\ q.pc = "resolve" => q.word \in 1 .. Len(q.query)
    /\ q.pc \in {"resolve", "stock"} /\ q.intent = "ADJUST_STOCK" => q.delta \in Deltas

TalkInv ==
    /\ conv \in [ConversationRequests -> ConvState]
    /\ \A r \in ConversationRequests : MessageOK(conv[r])

LEMMA UnheardType ==
    /\ Unheard \in ConvState /\ MessageOK(Unheard)
    /\ \A label \in {"done", "failed", "crashed"} :
         /\ [Unheard EXCEPT !.pc = label] \in ConvState
         /\ MessageOK([Unheard EXCEPT !.pc = label])
<1>0. <<>> \in Seq(SUBSET Labels)
  OBVIOUS
<1>1. PICK e \in Seq(SUBSET Labels) : e = <<>>
  BY <1>0, Zenon
<1>2. \A label : [Unheard EXCEPT !.pc = label] =
        [pc |-> label, intent |-> "UNSUPPORTED", biz |-> Null, query |-> e, word |-> 1,
         delta |-> 0, product |-> NoProduct, outcome |-> "ERROR"]
  BY <1>1 DEF Unheard
<1>3. Unheard = [Unheard EXCEPT !.pc = "new"]
  BY DEF Unheard
<1>4. ASSUME NEW label \in {"new", "done", "failed", "crashed"}
      PROVE  /\ [Unheard EXCEPT !.pc = label] \in ConvState
             /\ MessageOK([Unheard EXCEPT !.pc = label])
  <2>0. /\ label \in {"new", "resolve", "stock", "adjust", "send", "done", "failed",
                      "crashed"}
        /\ "UNSUPPORTED" \in ACTIONABLE \cup {"UNSUPPORTED"}
        /\ Null \in Ids \cup {Null} /\ NoProduct \in Ids \cup {NoProduct}
        /\ 1 \in Nat /\ 0 \in Int /\ "ERROR" \in Outcome
    BY DEF Outcome
  <2>1. [Unheard EXCEPT !.pc = label] \in ConvState
    BY <1>1, <1>2, <2>0, Zenon DEF ConvState
  <2>2. MessageOK([Unheard EXCEPT !.pc = label])
    BY <1>2 DEF MessageOK
  <2> QED
    BY <2>1, <2>2
<1> QED
  BY <1>3, <1>4

LEMMA InitTalk == ConvInit => TalkInv
BY UnheardType DEF ConvInit, TalkInv

LEMMA MessageKeeps ==
    ASSUME TalkInv, NEW r \in ConversationRequests, NEW q \in ConvState, MessageOK(q),
           conv' = [conv EXCEPT ![r] = q]
    PROVE  TalkInv'
BY DEF TalkInv

LEMMA ConvKeeps ==
    ASSUME TalkInv, InvTypeOK, NEW r \in ConversationRequests,
           BeginConv(r) \/ ContinueConv(r) \/ CrashConv(r)
    PROVE  TalkInv'
<1> DEFINE q == conv[r]
<1>0. q \in ConvState /\ MessageOK(q)
  BY DEF TalkInv
<1>1. \A outcome \in Outcome : Say(r, outcome) \in ConvState /\ MessageOK(Say(r, outcome))
  BY <1>0 DEF ConvState, MessageOK, Say
<1>3. ASSUME NEW outcome \in Outcome, conv' = [conv EXCEPT ![r] = Say(r, outcome)]
      PROVE  TalkInv'
  BY <1>1, <1>3, MessageKeeps
<1>4. ASSUME NEW b \in Shops, NEW intent \in ACTIONABLE, NEW query \in Queries,
             NEW d \in Deltas \cup {0}, BeginIntent(r, b, intent, query, d)
      PROVE  TalkInv'
  <2> DEFINE new == [q EXCEPT !.pc = "resolve", !.intent = intent, !.biz = b,
                              !.query = query, !.delta = d]
  <2>1. /\ conv' = [conv EXCEPT ![r] = new] /\ q.pc = "new"
        /\ intent = "ADJUST_STOCK" <=> d # 0
        /\ b \in Ids /\ d \in Int
    BY <1>4, InventoryAssumption DEF BeginIntent, Shops, TalkInv
  <2>2. query \in Seq(SUBSET Labels) /\ 1 \in 1 .. Len(query)
    BY ConversationAssumption
  <2>3. new \in ConvState /\ MessageOK(new)
    BY <1>0, <2>1, <2>2 DEF ConvState, MessageOK
  <2> HIDE DEF new
  <2> QED
    BY <2>1, <2>3, MessageKeeps
<1>5. CASE TryNextWord(r)
  <2>1. CASE q.word < Len(q.query)
    <3> DEFINE new == [q EXCEPT !.word = @ + 1]
    <3>1. conv' = [conv EXCEPT ![r] = new] /\ q.pc = "resolve"
      BY <1>5, <2>1 DEF TryNextWord
    <3>2. q.word + 1 \in 1 .. Len(q.query)
      BY <1>0, <2>1, <3>1 DEF ConvState, MessageOK
    <3>3. new \in ConvState /\ MessageOK(new)
      BY <1>0, <3>1, <3>2 DEF ConvState, MessageOK
    <3> HIDE DEF new
    <3> QED
      BY <3>1, <3>3, MessageKeeps
  <2>2. CASE ~(q.word < Len(q.query))
    BY <1>3, <1>5, <2>2 DEF TryNextWord, TalkInv, Outcome
  <2> QED
    BY <2>1, <2>2
<1>6. CASE ShowOrAsk(r) \/ TellStock(r) \/ TellAdjusted(r)
  <2>1. \E outcome \in Outcome : conv' = [conv EXCEPT ![r] = Say(r, outcome)]
    BY <1>6 DEF ShowOrAsk, TellStock, TellAdjusted, TalkInv, Outcome
  <2> QED
    BY <1>3, <2>1
<1>7. CASE ChooseProduct(r)
  <2>1. PICK p \in Ids : conv' = [conv EXCEPT ![r] = [@ EXCEPT !.pc = "stock", !.product = p]]
    BY <1>7 DEF ChooseProduct
  <2> DEFINE new == [q EXCEPT !.pc = "stock", !.product = p]
  <2>2. conv' = [conv EXCEPT ![r] = new] /\ q.pc = "resolve"
    BY <1>7, <2>1 DEF ChooseProduct, TalkInv
  <2>3. new \in ConvState /\ MessageOK(new)
    BY <1>0, <2>2 DEF ConvState, MessageOK
  <2> HIDE DEF new
  <2> QED
    BY <2>2, <2>3, MessageKeeps
<1>8. CASE AdjustStock(r)
  <2> DEFINE new == [q EXCEPT !.pc = "adjust"]
  <2>1. conv' = [conv EXCEPT ![r] = new]
    BY <1>8 DEF AdjustStock, TalkInv
  <2>2. new \in ConvState /\ MessageOK(new)
    BY <1>0 DEF ConvState, MessageOK
  <2> HIDE DEF new
  <2> QED
    BY <2>1, <2>2, MessageKeeps
<1>9. CASE SendReply(r) \/ CrashConv(r)
  <2>1. \E label \in {"done", "failed", "crashed"} :
          conv' = [conv EXCEPT ![r] = [Unheard EXCEPT !.pc = label]]
    BY <1>9 DEF SendReply, CrashConv
  <2> QED
    BY <2>1, UnheardType, MessageKeeps
<1>10. CASE BeginConv(r)
  <2>1. CASE \E outcome \in Outcome : BeginSmallTalk(r, outcome)
    BY <1>3, <2>1 DEF BeginSmallTalk
  <2> QED
    BY <1>4, <1>10, <2>1 DEF BeginConv
<1> QED
  BY <1>5, <1>6, <1>7, <1>8, <1>9, <1>10 DEF ContinueConv

(* The first word that finds anything finds what the widest one does.      *)
LEMMA OneLookFinds ==
    ASSUME NEW b, NEW query \in Seq(SUBSET Labels), Widening(query),
           NEW w \in 1 .. Len(query)
    PROVE  /\ \A p : Matches(b, query[w]) = {p} => Resolved(b, query) = {p}
           /\ w = Len(query) /\ Matches(b, query[w]) = {} => Resolved(b, query) = {}
<1> DEFINE hits == {i \in 1 .. Len(query) : Matches(b, query[i]) # {}}
           first == CHOOSE i \in hits : \A j \in hits : i <= j
<1>1. \A i \in 1 .. Len(query) : i <= w => Matches(b, query[i]) \subseteq Matches(b, query[w])
  BY DEF Widening, Matches
<1>2. ASSUME NEW p, Matches(b, query[w]) = {p}
      PROVE  Resolved(b, query) = {p}
  <2>1. w \in hits
    BY <1>2
  <2>2. \E i \in hits : \A j \in hits : i <= j
    <3>1. hits \in SUBSET Nat /\ hits # {}
      <4>1. \A i \in hits : i \in Nat
        OBVIOUS
      <4> QED
        BY <2>1, <4>1
    <3> HIDE DEF hits
    <3> QED
      BY <3>1, LeastNat
  <2>3. first \in hits /\ first <= w
    BY <2>1, <2>2
  <2>4. Matches(b, query[first]) # {} /\ Matches(b, query[first]) \subseteq {p}
    BY <1>1, <1>2, <2>3
  <2>5. Resolved(b, query) = Matches(b, query[first])
    BY <2>1 DEF Resolved
  <2> QED
    BY <2>4, <2>5
<1>3. ASSUME w = Len(query), Matches(b, query[w]) = {}
      PROVE  Resolved(b, query) = {}
  <2>1. hits = {}
    BY <1>1, <1>3
  <2> QED
    BY <2>1 DEF Resolved
<1> QED
  BY <1>2, <1>3

-----------------------------------------------------------------------------
(* The pool of threads.                                                    *)

BackInv == InvTypeOK /\ TalkInv

(* A message reaches the stock by one door: adjust_stock_by_product, for a *)
(* product that has a row and a change that a client may ask for.          *)
LEMMA ConvIsInventory ==
    ASSUME BackInv, NEW r \in ConversationRequests,
           BeginConv(r) \/ ContinueConv(r) \/ CrashConv(r)
    PROVE  AdjNext \/ UNCHANGED invVars
<1>1. CASE AdjustStock(r)
  <2>1. conv[r].product \in Products /\ conv[r].delta \in Deltas
    BY <1>1 DEF BackInv, InvTypeOK, StockTypeOK, TalkInv, MessageOK, AdjustStock
  <2>2. BeginAdjustByProduct(r, conv[r].product, conv[r].delta)
    BY <1>1 DEF AdjustStock
  <2>3. BeginAdj(r)
    BY <2>1, <2>2 DEF BeginAdj
  <2> QED
    BY <2>3 DEF AdjNext, InventoryRequests
<1>2. CASE ~AdjustStock(r)
  BY <1>2 DEF BeginConv, ContinueConv, CrashConv, BeginSmallTalk, BeginIntent, TryNextWord,
              ShowOrAsk, ChooseProduct, TellStock, TellAdjusted, SendReply
<1> QED
  BY <1>1, <1>2

(* Every step of the pool is a step of one of its parts.                   *)
LEMMA BackStepIsInventory ==
    BackInv /\ [BackNext]_backVars => [InvNext]_invVars
<1> SUFFICES ASSUME BackInv, [BackNext]_backVars
             PROVE  AdjNext \/ UNCHANGED invVars
  BY DEF InvNext
<1>1. ASSUME NEW r \in ConversationRequests,
             BeginConv(r) \/ ContinueConv(r) \/ CrashConv(r)
      PROVE  AdjNext \/ UNCHANGED invVars
  BY <1>1, ConvIsInventory
<1>2. CASE AdjStep
  BY <1>2 DEF AdjStep, AdjNext, InventoryRequests
<1>3. CASE UNCHANGED talkVars
  BY <1>3 DEF talkVars
<1> QED
  BY <1>1, <1>2, <1>3 DEF BackNext, backVars

LEMMA BackStepIsDirectory == [BackNext]_backVars => [DirNext]_dirVars
<1> SUFFICES ASSUME [BackNext]_backVars
             PROVE  DirNext \/ UNCHANGED dirVars
  OBVIOUS
<1>1. ASSUME NEW r \in ConversationRequests,
             BeginConv(r) \/ ContinueConv(r) \/ CrashConv(r)
      PROVE  UNCHANGED dirVars
  BY <1>1 DEF BeginConv, ContinueConv, CrashConv, BeginSmallTalk, BeginIntent, TryNextWord,
              ShowOrAsk, ChooseProduct, TellStock, AdjustStock, TellAdjusted, SendReply
<1>2. CASE UNCHANGED talkVars
  BY <1>2 DEF talkVars
<1> QED
  BY <1>1, <1>2 DEF BackNext, DirNext, backVars

LEMMA BackStepIsSessions == [BackNext]_backVars => [SessNext]_sessVars
BY DEF BackNext, SessNext, backVars

LEMMA NextBack == BackInv /\ [BackNext]_backVars => BackInv'
<1> SUFFICES ASSUME BackInv, [BackNext]_backVars
             PROVE  BackInv'
  OBVIOUS
<1>1. InvTypeOK'
  <2>1. AdjNext \/ UNCHANGED invVars
    BY BackStepIsInventory DEF InvNext
  <2>2. CASE UNCHANGED invVars
    BY <2>2 DEF invVars, stockVars, BackInv, InvTypeOK, StockTypeOK, AdjTypeOK
  <2> QED
    BY <2>1, <2>2, AdjNextTypeOK DEF BackInv
<1>2. TalkInv'
  <2>1. ASSUME NEW r \in ConversationRequests,
               BeginConv(r) \/ ContinueConv(r) \/ CrashConv(r)
        PROVE  TalkInv'
    BY <2>1, ConvKeeps DEF BackInv
  <2>2. CASE conv' = conv
    BY <2>2 DEF BackInv, TalkInv
  <2> QED
    BY <2>1, <2>2 DEF BackNext, backVars, talkVars
<1> QED
  BY <1>1, <1>2 DEF BackInv

(* The types of the messages, and what a message that is being resolved    *)
(* carries, whatever else the pool serves.                                 *)
THEOREM MessagesAreWellFormed == BackSpec => []BackInv
<1>1. BackInit => BackInv
  BY InitTypeOK, InitTalk DEF BackInit, TalkInit, BackInv
<1> QED
  BY <1>1, NextBack, PTL DEF BackSpec

(* Threads that serve messages, master data and sessions together do       *)
(* nothing that the parts alone would not: each part's specification holds *)
(* of the whole.                                                           *)
THEOREM BackOfficeIsItsParts == BackSpec => InvSpec /\ DirSpec /\ SessSpec
<1>1. BackInit => InvInit /\ DirInit /\ SessInit
  BY DEF BackInit, TalkInit
<1> QED
  BY <1>1, MessagesAreWellFormed, BackStepIsInventory, BackStepIsDirectory,
     BackStepIsSessions, PTL DEF BackSpec, InvSpec, DirSpec, SessSpec

(* Stock rows agree with their history and the master data keep their      *)
(* keys, references and owners, soft-deleted rows stay deleted and revoked *)
(* tokens refused, while one pool serves them all.                         *)
THEOREM BackOfficeCorrect ==
    BackSpec => /\ []LastMovementIsQuantity /\ []LockDiscipline
                /\ []OneLiveRowPerKey /\ []ReferencesResolve /\ []EveryBusinessHasOwner
                /\ DeletedStaysDeleted /\ RevokedStaysRefused
BY BackOfficeIsItsParts, RowMatchesHistory, LocksAreDisciplined, KeysAreUnique,
   NoDanglingReference, RegistrationIsAtomic, DeletionIsFinal, RevocationOutlivesTokens

(* The one product a message settles on, or its finding none, is what one  *)
(* look at the catalog gives at its last SELECT.                           *)
LEMMA ResolutionStep ==
    ASSUME BackInv, BackNext, NEW r \in ConversationRequests,
           conv[r].pc = "resolve", Widening(conv[r].query)
    PROVE  /\ conv'[r].pc = "stock" =>
                 Resolved(conv[r].biz, conv[r].query) = {conv'[r].product}
           /\ conv'[r].pc = "send" /\ conv'[r].outcome = "NOT_FOUND" =>
                 Resolved(conv[r].biz, conv[r].query) = {}
<1> DEFINE b == conv[r].biz
           query == conv[r].query
           w == conv[r].word
<1>0. /\ conv \in [ConversationRequests -> ConvState]
      /\ query \in Seq(SUBSET Labels) /\ w \in 1 .. Len(query)
  BY DEF BackInv, TalkInv, ConvState, MessageOK
<1>1. CASE conv'[r] = conv[r]
  BY <1>1
<1>2. ASSUME NEW q \in ConversationRequests, q # r,
             BeginConv(q) \/ ContinueConv(q) \/ CrashConv(q)
      PROVE  conv'[r] = conv[r]
  <2>1. \E own : conv' = [conv EXCEPT ![q] = own]
    BY <1>2, Zenon DEF BeginConv, ContinueConv, CrashConv, BeginSmallTalk, BeginIntent,
       TryNextWord, ShowOrAsk, ChooseProduct, TellStock, AdjustStock, TellAdjusted, SendReply
  <2> QED
    BY <1>0, <1>2, <2>1
<1>3. CASE TryNextWord(r)
  <2>1. CASE w < Len(query)
    <3>1. conv'[r] = [conv[r] EXCEPT !.word = conv[r].word + 1]
      BY <1>0, <1>3, <2>1 DEF TryNextWord
    <3> QED
      BY <1>0, <3>1 DEF ConvState
  <2>2. CASE ~(w < Len(query))
    <3>1. conv'[r].pc = "send"
      BY <1>0, <1>3, <2>2 DEF TryNextWord, Say, ConvState
    <3>2. w = Len(query) /\ Matches(b, query[w]) = {}
      BY <1>0, <1>3, <2>2 DEF TryNextWord, Found
    <3>3. Resolved(b, query) = {}
      BY <1>0, <3>2, OneLookFinds
    <3> QED
      BY <3>1, <3>3
  <2> QED
    BY <2>1, <2>2
<1>4. CASE ShowOrAsk(r)
  BY <1>0, <1>4 DEF ShowOrAsk, Say, ConvState
<1>5. CASE ChooseProduct(r)
  <2>1. PICK p \in Ids : /\ Found(r) = {p}
                         /\ conv' = [conv EXCEPT ![r] =
                                [@ EXCEPT !.pc = "stock", !.product = p]]
    BY <1>5 DEF ChooseProduct
  <2>2. conv'[r].pc = "stock" /\ conv'[r].product = p
    BY <1>0, <2>1 DEF ConvState
  <2>3. Matches(b, query[w]) = {p}
    BY <2>1 DEF Found
  <2>4. Resolved(b, query) = {p}
    BY <1>0, <2>3, OneLookFinds
  <2> QED
    BY <2>2, <2>4
<1>6. CASE CrashConv(r)
  BY <1>0, <1>6 DEF CrashConv, Unheard
<1>7. ASSUME BeginConv(r) \/ ContinueConv(r)
      PROVE  TryNextWord(r) \/ ShowOrAsk(r) \/ ChooseProduct(r)
  BY <1>7 DEF BeginConv, ContinueConv, BeginSmallTalk, BeginIntent, TellStock, AdjustStock,
              TellAdjusted, SendReply
<1>8. \/ conv' = conv
      \/ \E q \in ConversationRequests : BeginConv(q) \/ ContinueConv(q) \/ CrashConv(q)
  BY DEF BackNext, backVars, talkVars
<1> QED
  BY <1>1, <1>2, <1>3, <1>4, <1>5, <1>6, <1>7, <1>8

(* Although products are created, renamed and deleted while a message is   *)
(* resolved word by word, it settles on the product one look would find.   *)
THEOREM ResolvedAsByOneLook == BackSpec => ResolutionIsAtomic
<1> DEFINE Step ==
      \A r \in ConversationRequests :
         conv[r].pc = "resolve" /\ Widening(conv[r].query) =>
            /\ conv'[r].pc = "stock" =>
                 Resolved(conv[r].biz, conv[r].query) = {conv'[r].product}
            /\ conv'[r].pc = "send" /\ conv'[r].outcome = "NOT_FOUND" =>
                 Resolved(conv[r].biz, conv[r].query) = {}
<1>1. BackInv /\ [BackNext]_backVars => [Step]_talkVars
  BY ResolutionStep DEF backVars
<1> QED
  BY <1>1, MessagesAreWellFormed, PTL DEF BackSpec, ResolutionIsAtomic
=============================================================================
