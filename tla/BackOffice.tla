----------------------------- MODULE BackOffice -----------------------------
(***************************************************************************)
(* The conversation, the master data and the sessions together: one pool   *)
(* of request threads, each of which serves one request of any of them.    *)
(***************************************************************************)
EXTENDS Conversation, Sessions

backVars == <<talkVars, sessVars>>

BackInit == TalkInit /\ SessInit

(* Thread r has not been given a request yet.                              *)
Free(r) ==
    /\ r \in ConversationRequests => conv[r].pc = "new"
    /\ r \in DirRequests => dir[r].pc = "new"
    /\ r \in SessionRequests => sess[r].pc = "new"

(* No request is under way.                                                *)
BackQuiet ==
    /\ \A r \in ConversationRequests :
         conv[r].pc \in {"new"} \cup DirEnded \/ adj[r].pc = "crashed"
    /\ \A r \in DirRequests : dir[r].pc \in {"new"} \cup DirEnded
    /\ \A r \in SessionRequests : sess[r].pc \in {"new"} \cup SessEnded
    /\ \A r \in DashboardRequests : adj[r].pc \in {"new"} \cup Finished

BackNext ==
    \/ /\ \E r \in ConversationRequests :
            ContinueConv(r) \/ CrashConv(r) \/ (Free(r) /\ BeginConv(r))
       /\ UNCHANGED sessVars
    \/ AdjStep /\ UNCHANGED <<dirVars, conv, sessVars>>
    \/ /\ \E r \in DirRequests : ContinueDir(r) \/ CrashDir(r) \/ (Free(r) /\ BeginDir(r))
       /\ UNCHANGED <<invVars, conv, sessVars>>
    \/ /\ \/ \E r \in SessionRequests :
               ContinueSess(r) \/ CrashSess(r) \/ (Free(r) /\ BeginSess(r))
          \/ Tick
       /\ UNCHANGED talkVars
    \/ BackQuiet /\ UNCHANGED backVars

BackSpec == BackInit /\ [][BackNext]_backVars
=============================================================================
