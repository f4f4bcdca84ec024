------------------------------ MODULE Sessions ------------------------------
(***************************************************************************)
(* Refresh tokens (app/auth): login and registration issue a pair, refresh *)
(* rotates it, logout ends it.  A refresh token is a signed JWT that only  *)
(* carries its expiry; what makes it useless earlier is the denylist, whose*)
(* entries expire too.  Access tokens are not revocable and not modelled.  *)
(***************************************************************************)
EXTENDS Naturals

CONSTANTS
    OldTokens,         \* refresh tokens issued before
    SessionRequests,   \* requests; the token one issues has its name as jti
    AccessTTL,         \* jwt_access_ttl_seconds
    RefreshTTL,        \* jwt_refresh_ttl_seconds
    MaxTime            \* bound on the clock

ASSUME SessionsAssumption ==
    /\ AccessTTL \in Nat \ {0} /\ RefreshTTL \in Nat \ {0} /\ MaxTime \in Nat
    /\ AccessTTL < RefreshTTL
    /\ OldTokens \cap SessionRequests = {}

Tokens == OldTokens \cup SessionRequests

VARIABLES
    now,       \* the clock
    expiry,    \* when a token expires; 0: not issued yet
    denied,    \* when a token's denylist entry expires; 0: it has none
    spent,     \* history: tokens that were revoked
    sess       \* state of every request

sessVars == <<now, expiry, denied, spent, sess>>

SessEnded == {"done", "failed", "crashed"}

SessState ==
    [pc : {"new", "check", "rotate", "revoke", "issue"} \cup SessEnded,
     jti : Tokens]

SessTypeOK ==
    /\ now \in Nat
    /\ expiry \in [Tokens -> Nat]
    /\ denied \in [Tokens -> Nat]
    /\ spent \subseteq Tokens
    /\ sess \in [SessionRequests -> SessState]

SessInit ==
    /\ now = 0
    /\ expiry \in [Tokens -> 0 .. RefreshTTL]
    /\ \A r \in SessionRequests : expiry[r] = 0
    /\ denied = [k \in Tokens |-> 0]
    /\ spent = {}
    /\ \E k \in Tokens : sess = [r \in SessionRequests |-> [pc |-> "new", jti |-> k]]

-----------------------------------------------------------------------------
SessGoto(r, label) == sess' = [sess EXCEPT ![r].pc = label]

(* decode_token: the signature is good and the expiry ahead.               *)
Decodes(k) == now < expiry[k]

(* login: the credentials are good, or not.                                *)
BeginLogin(r) ==
    /\ sess[r].pc = "new"
    /\ \E label \in {"issue", "failed"} : SessGoto(r, label)
    /\ UNCHANGED <<now, expiry, denied, spent>>

BeginRefresh(r, k) ==
    /\ sess[r].pc = "new"
    /\ sess' = [sess EXCEPT ![r] =
         [pc |-> IF Decodes(k) THEN "check" ELSE "failed", jti |-> k]]
    /\ UNCHANGED <<now, expiry, denied, spent>>

(* is_revoked: an entry counts until it expires.  The user's row is read   *)
(* next; nothing deactivates users.                                        *)
CheckRevoked(r) ==
    /\ sess[r].pc = "check"
    /\ SessGoto(r, IF now < denied[sess[r].jti] THEN "failed" ELSE "rotate")
    /\ UNCHANGED <<now, expiry, denied, spent>>

(* logout revokes without looking.                                         *)
BeginLogout(r, k) ==
    /\ sess[r].pc = "new"
    /\ sess' = [sess EXCEPT ![r] =
         [pc |-> IF Decodes(k) THEN "revoke" ELSE "failed", jti |-> k]]
    /\ UNCHANGED <<now, expiry, denied, spent>>

(* Fault: the entry lives as long as an access token.                      *)
RevokeBriefly(r) ==
    /\ sess[r].pc \in {"rotate", "revoke"}
    /\ denied' = [denied EXCEPT ![sess[r].jti] = now + AccessTTL]
    /\ spent' = spent \cup {sess[r].jti}
    /\ SessGoto(r, IF sess[r].pc = "rotate" THEN "issue" ELSE "done")
    /\ UNCHANGED <<now, expiry>>

(* Expired entries are purged, by revoke or by Redis.                      *)
Purged == [k \in Tokens |-> IF denied[k] <= now THEN 0 ELSE denied[k]]

(* The entry lives as long as a token issued now would.                    *)
Revoke(r) ==
    /\ sess[r].pc \in {"rotate", "revoke"}
    /\ denied' = [Purged EXCEPT ![sess[r].jti] = now + RefreshTTL]
    /\ spent' = spent \cup {sess[r].jti}
    /\ SessGoto(r, IF sess[r].pc = "rotate" THEN "issue" ELSE "done")
    /\ UNCHANGED <<now, expiry>>

(* _issue_tokens.                                                          *)
Issue(r) ==
    /\ sess[r].pc = "issue"
    /\ expiry' = [expiry EXCEPT ![r] = now + RefreshTTL]
    /\ SessGoto(r, "done")
    /\ UNCHANGED <<now, denied, spent>>

CrashSess(r) ==
    /\ sess[r].pc \notin SessEnded \cup {"new"}
    /\ SessGoto(r, "crashed")
    /\ UNCHANGED <<now, expiry, denied, spent>>

Tick ==
    /\ now < MaxTime
    /\ now' = now + 1
    /\ UNCHANGED <<expiry, denied, spent, sess>>

-----------------------------------------------------------------------------
BeginSess(r) == BeginLogin(r) \/ \E k \in Tokens : BeginRefresh(r, k) \/ BeginLogout(r, k)

ContinueSess(r) == CheckRevoked(r) \/ Revoke(r) \/ Issue(r)

SessNext ==
    \/ \E r \in SessionRequests : BeginSess(r) \/ ContinueSess(r) \/ CrashSess(r)
    \/ Tick

SessSpec == SessInit /\ [][SessNext]_sessVars

-----------------------------------------------------------------------------
(* A token that logout or a rotation has revoked is refused as long as it  *)
(* has not expired by itself, although the denylist forgets its entries.   *)
(* Two refreshes that look before either revokes both pass.                *)
RevokedStaysRefused ==
    [][\A r \in SessionRequests :
         sess[r].pc = "check" /\ sess'[r].pc = "rotate" /\ Decodes(sess[r].jti)
            => sess[r].jti \notin spent]_sessVars
=============================================================================
