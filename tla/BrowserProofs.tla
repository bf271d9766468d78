----------------------------- MODULE BrowserProofs -----------------------------
(***************************************************************************)
(* What several contexts share on one device, for any number of them.      *)
(*                                                                         *)
(* The browser's upload loop: as long as the row was not written under     *)
(* somebody who acts on it, a claim is exclusive: "uploading" in the row   *)
(* stands for the one context between its claim and its outcome, and what  *)
(* it read is current.                                                     *)
(*                                                                         *)
(* The browser's session: only the holder of the lock presents a refresh   *)
(* token, and the pair in the store is the server's, or about to be        *)
(* replaced by what the holder was granted, unless the server handled a    *)
(* request that nobody waited for.                                         *)
(*                                                                         *)
(* The app's refined stamp: while the hold lasts the drain has not seen    *)
(* the photo, and once it has, what it read is what the row says.          *)
(***************************************************************************)
EXTENDS BrowserUpload, WebTokens, StampHold, FiniteSetTheorems, TLAPS

\* From the claim to the write of the outcome.
Holds(c) == loop[c].at \in {"sending", "accepted", "busy", "failed"}

Loop == [at : {"idle", "look", "found", "sending", "accepted", "evict", "busy", "failed"},
         version : Nat]

RowType == [status : {"pending", "uploading", "processing", "completed", "failed"},
            version : Nat, deleted : BOOLEAN, blob : BOOLEAN]

TypesOk ==
    /\ kept \in RowType
    /\ loop \in [Contexts -> Loop]
    /\ remote \in [status : RemoteStatus, version : Nat]

ClaimIsExclusive ==
    /\ \A c \in Contexts : Holds(c) => kept.status = "uploading"
    /\ \A c, d \in Contexts : Holds(c) /\ Holds(d) => c = d

\* What is in hand, on the server and in the row is one version.
VersionsAgree ==
    /\ \A c \in Contexts : /\ Acting(c) => loop[c].version = kept.version
                           /\ loop[c].at = "accepted" => remote.version = kept.version
    /\ kept.status \in {"processing", "completed"} => remote.version = kept.version

BrowserInv ==
    /\ raced \in BOOLEAN
    /\ ~ raced => TypesOk /\ ClaimIsExclusive /\ VersionsAgree

-----------------------------------------------------------------------------
\* A context takes a place outside the claim, and what it knows is still so.
LEMMA Released ==
    ASSUME BrowserInv, ~ raced, NEW c \in Contexts, NEW at \in {"idle", "look", "evict"},
           Forgets(c, at), UNCHANGED raced,
           kept' \in RowType, kept'.version = kept.version,
           remote' \in [status : RemoteStatus, version : Nat],
           kept'.status # kept.status => Holds(c) \/ \A d \in Contexts : ~ Holds(d),
           kept'.status \in {"processing", "completed"} => remote'.version = kept'.version,
           remote'.version # remote.version => Holds(c)
    PROVE  BrowserInv'
<1>1. TypesOk /\ ClaimIsExclusive /\ VersionsAgree
  BY DEF BrowserInv
<1>2. /\ loop' \in [Contexts -> Loop] /\ loop'[c].at = at
      /\ \A d \in Contexts : d # c => loop'[d] = loop[d]
  BY <1>1 DEF TypesOk, Forgets, Loop
<1>3. ~ Holds(c)' /\ ~ Acting(c)' /\ loop'[c].at # "accepted"
  BY <1>2 DEF Holds, Acting
<1>4. \A d \in Contexts : d # c => (Holds(d)' <=> Holds(d)) /\ (Acting(d)' <=> Acting(d))
  BY <1>2 DEF Holds, Acting
<1>5. ClaimIsExclusive'
  BY <1>1, <1>3, <1>4 DEF ClaimIsExclusive
<1>6. \A d \in Contexts : d # c /\ loop'[d].at = "accepted" => remote'.version = kept'.version
  <2> SUFFICES ASSUME NEW d \in Contexts, d # c, loop'[d].at = "accepted"
               PROVE  remote'.version = kept'.version
    OBVIOUS
  <2>1. Holds(d) /\ remote.version = kept.version
    BY <1>1, <1>2 DEF Holds, VersionsAgree
  <2>2. ~ Holds(c)
    BY <1>1, <2>1 DEF ClaimIsExclusive
  <2>3. QED
    BY <2>1, <2>2
<1>7. VersionsAgree'
  BY <1>1, <1>2, <1>3, <1>4, <1>6 DEF VersionsAgree
<1>8. QED
  BY <1>1, <1>2, <1>5, <1>7 DEF BrowserInv, TypesOk

\* The holder goes from the answer to its write.
LEMMA HolderGoes ==
    ASSUME BrowserInv, ~ raced, NEW c \in Contexts, loop[c].at = "sending",
           NEW at \in {"accepted", "busy", "failed"}, Goes(c, at),
           UNCHANGED <<raced, kept>>, remote' \in {remote, Sent(c)},
           at = "accepted" => remote' = Sent(c)
    PROVE  BrowserInv'
<1>1. TypesOk /\ ClaimIsExclusive /\ VersionsAgree
  BY DEF BrowserInv
<1>2. /\ loop' \in [Contexts -> Loop] /\ loop'[c].at = at /\ loop'[c].version = loop[c].version
      /\ \A d \in Contexts : d # c => loop'[d] = loop[d]
  BY <1>1 DEF TypesOk, Goes, Loop
<1>3. Holds(c) /\ Holds(c)' /\ Acting(c) /\ Acting(c)'
  BY <1>2 DEF Holds, Acting
<1>4. \A d \in Contexts : d # c => (Holds(d)' <=> Holds(d)) /\ (Acting(d)' <=> Acting(d))
  BY <1>2 DEF Holds, Acting
<1>5. ClaimIsExclusive'
  BY <1>1, <1>3, <1>4 DEF ClaimIsExclusive
<1>6. \A d \in Contexts : d # c => loop'[d].at # "accepted"
  BY <1>1, <1>2, <1>3 DEF ClaimIsExclusive, Holds
<1>7. kept.status = "uploading" /\ loop[c].version = kept.version
  BY <1>1, <1>3 DEF ClaimIsExclusive, VersionsAgree
<1>8. /\ remote' \in [status : RemoteStatus, version : Nat]
      /\ at = "accepted" => remote'.version = kept.version
  BY <1>1, <1>7 DEF TypesOk, Sent, RemoteStatus, Loop, RowType
<1>9. VersionsAgree'
  BY <1>1, <1>2, <1>3, <1>4, <1>6, <1>7, <1>8 DEF VersionsAgree
<1>10. QED
  BY <1>1, <1>2, <1>5, <1>8, <1>9 DEF BrowserInv, TypesOk

LEMMA LoopSteps ==
    ASSUME BrowserInv, ~ raced, NEW c \in Contexts,
           \/ StartLoop(c) \/ StopLoop(c) \/ MarkUploaded(c) \/ DeleteBlob(c)
           \/ ReleaseClaim(c) \/ MarkFailed(c) \/ ContextDies(c)
    PROVE  BrowserInv'
<1>1. TypesOk /\ ClaimIsExclusive /\ VersionsAgree /\ UNCHANGED raced
  BY DEF BrowserInv, StartLoop, StopLoop, MarkUploaded, DeleteBlob, ReleaseClaim, MarkFailed,
         ContextDies
<1>2. CASE StartLoop(c) \/ StopLoop(c)
  BY <1>1, <1>2, Released DEF StartLoop, StopLoop, TypesOk, VersionsAgree
<1>3. CASE MarkUploaded(c)
  <2>1. Holds(c) /\ remote.version = kept.version /\ UNCHANGED remote
    BY <1>1, <1>3 DEF MarkUploaded, Holds, VersionsAgree
  <2>2. kept' \in RowType /\ kept'.version = kept.version
    BY <1>1, <1>3 DEF MarkUploaded, TypesOk, RowType
  <2>3. PICK at \in {"look", "evict"} : Forgets(c, at)
    BY <1>3 DEF MarkUploaded
  <2>4. QED
    BY <1>1, <2>1, <2>2, <2>3, Released DEF TypesOk
<1>4. CASE DeleteBlob(c)
  <2>1. /\ kept' \in RowType /\ kept'.version = kept.version /\ kept'.status = kept.status
        /\ UNCHANGED remote
    BY <1>1, <1>4 DEF DeleteBlob, TypesOk, RowType
  <2>2. QED
    BY <1>1, <1>4, <2>1, Released DEF DeleteBlob, TypesOk, VersionsAgree
<1>5. CASE ReleaseClaim(c) \/ MarkFailed(c)
  <2>1. Holds(c) /\ kept.status = "uploading" /\ UNCHANGED remote
    BY <1>1, <1>5 DEF ReleaseClaim, MarkFailed, Holds, ClaimIsExclusive
  <2>2. kept' \in RowType /\ kept'.version = kept.version /\ kept'.status \in {"pending", "failed"}
    BY <1>1, <1>5, <2>1 DEF ReleaseClaim, MarkFailed, TypesOk, RowType
  <2>3. QED
    BY <1>1, <1>5, <2>1, <2>2, Released DEF ReleaseClaim, MarkFailed, TypesOk
<1>6. CASE ContextDies(c)
  <2>1. Forgets(c, "idle") /\ UNCHANGED kept
    BY <1>6 DEF ContextDies
  <2>2. CASE loop[c].at = "sending"
    <3>1. Holds(c) /\ kept.status = "uploading" /\ remote' \in {remote, Sent(c)}
      BY <1>1, <1>6, <2>2 DEF ContextDies, Holds, ClaimIsExclusive
    <3>2. remote' \in [status : RemoteStatus, version : Nat]
      BY <1>1, <3>1 DEF TypesOk, Sent, RemoteStatus, Loop
    <3>3. QED
      BY <1>1, <2>1, <3>1, <3>2, Released DEF TypesOk
  <2>3. CASE loop[c].at # "sending"
    BY <1>1, <1>6, <2>1, <2>3, Released DEF ContextDies, TypesOk, VersionsAgree
  <2>4. QED
    BY <2>2, <2>3
<1>7. QED
  BY <1>2, <1>3, <1>4, <1>5, <1>6

LEMMA FindNextKeeps ==
    ASSUME BrowserInv, ~ raced, NEW c \in Contexts, FindNext(c)
    PROVE  BrowserInv'
<1>1. TypesOk /\ ClaimIsExclusive /\ VersionsAgree /\ UNCHANGED <<raced, kept, remote>>
  BY DEF BrowserInv, FindNext
<1>2. /\ loop' \in [Contexts -> Loop] /\ loop'[c] = [at |-> "found", version |-> kept.version]
      /\ \A d \in Contexts : d # c => loop'[d] = loop[d]
  BY <1>1 DEF TypesOk, FindNext, Loop, RowType
<1>3. ~ Holds(c)' /\ loop'[c].version = kept.version /\ loop'[c].at # "accepted"
  BY <1>2 DEF Holds
<1>4. \A d \in Contexts : d # c => (Holds(d)' <=> Holds(d)) /\ (Acting(d)' <=> Acting(d))
  BY <1>2 DEF Holds, Acting
<1>5. ClaimIsExclusive' /\ VersionsAgree'
  BY <1>1, <1>2, <1>3, <1>4 DEF ClaimIsExclusive, VersionsAgree
<1>6. QED
  BY <1>1, <1>2, <1>5 DEF BrowserInv, TypesOk

\* The status is read again in the transaction that writes it: nobody holds a
\* row that can be claimed.
LEMMA TryClaimKeeps ==
    ASSUME BrowserInv, ~ raced, NEW c \in Contexts, TryClaim(c)
    PROVE  BrowserInv'
<1>1. TypesOk /\ ClaimIsExclusive /\ VersionsAgree /\ UNCHANGED <<raced, remote>>
  BY DEF BrowserInv, TryClaim
<1>2. CASE Claimable
  <2>1. kept' = [kept EXCEPT !.status = "uploading"] /\ Goes(c, "sending") /\ loop[c].at = "found"
    BY <1>2 DEF TryClaim
  <2>2. /\ kept' \in RowType /\ kept'.status = "uploading" /\ kept'.version = kept.version
    BY <1>1, <2>1 DEF TypesOk, RowType
  <2>3. /\ loop' \in [Contexts -> Loop] /\ loop'[c].at = "sending"
        /\ loop'[c].version = loop[c].version
        /\ \A d \in Contexts : d # c => loop'[d] = loop[d]
    BY <1>1, <2>1 DEF TypesOk, Goes, Loop
  <2>4. \A d \in Contexts : ~ Holds(d)
    BY <1>1, <1>2 DEF ClaimIsExclusive, Claimable
  <2>5. \A d \in Contexts : d # c => ~ Holds(d)' /\ (Acting(d)' <=> Acting(d))
    BY <2>3, <2>4 DEF Holds, Acting
  <2>6. Acting(c)
    BY <2>1 DEF Acting
  <2>7. ClaimIsExclusive' /\ VersionsAgree'
    BY <1>1, <2>2, <2>3, <2>5, <2>6 DEF ClaimIsExclusive, VersionsAgree, Holds
  <2>8. QED
    BY <1>1, <2>2, <2>3, <2>7 DEF BrowserInv, TypesOk
<1>3. CASE ~ Claimable
  BY <1>1, <1>3, Released DEF TryClaim, TypesOk, VersionsAgree
<1>4. QED
  BY <1>2, <1>3

LEMMA AnswerSteps ==
    ASSUME BrowserInv, ~ raced, NEW c \in Contexts, Answered(c) \/ Refused(c) \/ WorkerBusy(c)
    PROVE  BrowserInv'
<1>1. CASE Answered(c)
  BY <1>1, HolderGoes DEF Answered
<1>2. CASE Refused(c)
  BY <1>2, HolderGoes DEF Refused
<1>3. CASE WorkerBusy(c)
  BY <1>3, HolderGoes DEF WorkerBusy
<1>4. QED
  BY <1>1, <1>2, <1>3

-----------------------------------------------------------------------------
\* A status that is written changes a row in "processing", which nobody holds,
\* or races.
LEMMA WriteStatusKeeps ==
    ASSUME BrowserInv, ~ raced, NEW y \in Syncs, WriteStatus(y)
    PROVE  BrowserInv'
<1>1. TypesOk /\ ClaimIsExclusive /\ VersionsAgree /\ UNCHANGED <<loop, remote>>
  BY DEF BrowserInv, WriteStatus
<1>2. raced' = (kept'.status # kept.status /\ kept.status # "processing")
  BY DEF WriteStatus
<1>3. kept' \in RowType /\ kept'.version = kept.version
      /\ (kept'.status = kept.status \/ kept'.status \in {"completed", "failed"})
  BY <1>1 DEF WriteStatus, Written, TypesOk, RowType
<1>4. CASE raced'
  BY <1>2, <1>4 DEF BrowserInv
<1>5. CASE ~ raced'
  <2>1. kept'.status = kept.status \/ kept.status = "processing"
    BY <1>2, <1>5
  <2>2. \A c \in Contexts : (Holds(c)' <=> Holds(c)) /\ (Acting(c)' <=> Acting(c))
    BY <1>1 DEF Holds, Acting
  <2>3. ClaimIsExclusive'
    BY <1>1, <2>1, <2>2 DEF ClaimIsExclusive
  <2>4. VersionsAgree'
    BY <1>1, <1>3, <2>1, <2>2 DEF VersionsAgree
  <2>5. QED
    BY <1>1, <1>2, <1>3, <2>3, <2>4 DEF BrowserInv, TypesOk
<1>6. QED
  BY <1>4, <1>5

\* The override races with everybody who acts on the row.
LEMMA SetOverrideKeeps ==
    ASSUME BrowserInv, ~ raced, SetOverride
    PROVE  BrowserInv'
<1>1. TypesOk /\ ClaimIsExclusive /\ UNCHANGED <<loop, remote>>
  BY DEF BrowserInv, SetOverride
<1>2. raced' \in BOOLEAN /\ (~ raced' => \A c \in Contexts : ~ Acting(c))
  BY DEF SetOverride
<1>3. kept' \in RowType /\ kept'.status = "pending"
  <2>1. kept \in RowType /\ kept.version + 1 \in Nat
    BY <1>1 DEF TypesOk, RowType
  <2>2. kept' = [kept EXCEPT !.version = kept.version + 1, !.status = "pending"]
    BY DEF SetOverride, Requeued
  <2>3. QED
    BY <2>1, <2>2 DEF RowType
<1>4. ~ raced' => \A c \in Contexts : ~ Holds(c)' /\ ~ Acting(c)' /\ loop'[c].at # "accepted"
  BY <1>1, <1>2 DEF Holds, Acting
<1>5. QED
  BY <1>1, <1>2, <1>3, <1>4 DEF BrowserInv, TypesOk, ClaimIsExclusive, VersionsAgree

\* Reading, asking, and what happens on the server.
LEMMA QuietSteps ==
    ASSUME BrowserInv, UNCHANGED <<kept, loop, raced>>,
           remote' = remote \/ \E s \in RemoteStatus : remote' = [remote EXCEPT !.status = s]
    PROVE  BrowserInv'
<1>1. TypesOk => /\ remote' \in [status : RemoteStatus, version : Nat]
                 /\ remote'.version = remote.version
  BY DEF TypesOk
<1>2. QED
  BY <1>1 DEF BrowserInv, TypesOk, ClaimIsExclusive, VersionsAgree, Holds, Acting

LEMMA BrowserInvariant == BrowserSpec => []BrowserInv
<1>1. BrowserInit => BrowserInv
  <2> SUFFICES ASSUME BrowserInit PROVE BrowserInv
    OBVIOUS
  <2>1. /\ kept = [status |-> "pending", version |-> 1, deleted |-> FALSE, blob |-> TRUE]
        /\ loop = [c \in Contexts |-> [at |-> "idle", version |-> 1]]
        /\ remote = [status |-> "absent", version |-> 0] /\ raced = FALSE
    BY DEF BrowserInit
  <2>2. \A c \in Contexts : loop[c].at = "idle"
    BY <2>1
  <2>3. TypesOk
    BY <2>1 DEF TypesOk, RowType, Loop, RemoteStatus
  <2>4. QED
    BY <2>1, <2>2, <2>3 DEF BrowserInv, ClaimIsExclusive, VersionsAgree, Holds, Acting
<1>2. BrowserInv /\ [BrowserNext]_browserVars => BrowserInv'
  <2> SUFFICES ASSUME BrowserInv, [BrowserNext]_browserVars PROVE BrowserInv'
    OBVIOUS
  <2>1. CASE UNCHANGED browserVars
    BY <2>1, QuietSteps DEF browserVars
  <2>2. ASSUME NEW y \in Syncs, AskStatus(y) \/ HearStatus(y) \/ AskFails(y) PROVE BrowserInv'
    BY <2>2, QuietSteps DEF AskStatus, HearStatus, AskFails
  <2>3. CASE OpenMenu \/ RemoteStep
    BY <2>3, QuietSteps DEF OpenMenu, RemoteStep, RemoteStatus
  <2>4. CASE BrowserNext
    BY <2>2, <2>3, <2>4, LoopSteps, FindNextKeeps, TryClaimKeeps, AnswerSteps,
       WriteStatusKeeps, SetOverrideKeeps DEF BrowserNext
  <2>5. QED
    BY <2>1, <2>4
<1>3. QED
  BY <1>1, <1>2, PTL DEF BrowserSpec

\* Two contexts never send the photo at once, for any number of them.
THEOREM NeverTwoSenders == BrowserSpec => []OneSender
<1>1. BrowserInv => OneSender
  <2> SUFFICES ASSUME BrowserInv, ~ raced
               PROVE  Cardinality({c \in Contexts : loop[c].at = "sending"}) <= 1
    BY DEF OneSender
  <2> DEFINE S == {c \in Contexts : loop[c].at = "sending"}
  <2>1. \A c, d \in S : c = d
    BY DEF BrowserInv, ClaimIsExclusive, Holds
  <2> HIDE DEF S
  <2>2. CASE S = {}
    BY <2>2, FS_EmptySet DEF S
  <2>3. CASE S # {}
    <3>1. PICK c : S = {c}
      BY <2>1, <2>3
    <3>2. Cardinality(S) = 1
      BY <3>1, FS_Singleton
    <3>3. QED
      BY <3>2 DEF S
  <2>4. QED
    BY <2>2, <2>3
<1>2. QED
  BY <1>1, BrowserInvariant, PTL

\* An uploaded photo was sent with its last override, for any number of them.
THEOREM LastOverride == BrowserSpec => []LastOverrideSent
<1>1. BrowserInv => LastOverrideSent
  BY DEF BrowserInv, VersionsAgree, LastOverrideSent
<1>2. QED
  BY <1>1, BrowserInvariant, PTL

-----------------------------------------------------------------------------
(* A browser's session                                                     *)

UnderLock == {"asking", "granted", "refused", "unanswered"}

Issued(token) == token.sid \in 1..MaxSessions /\ family[token.sid].at # "new"

Late(sid) == family[sid].unheard

\* The stored pair is the server's, or is about to be replaced by it.
StoredIsCurrent ==
    LoggedIn =>
        /\ Issued(jar.token)
        /\ \/ Late(jar.token.sid)
           \/ Current(jar.token)
           \/ /\ family[jar.token.sid].at = "alive"
              /\ \E c \in Everybody : /\ refresh[c].at = "granted"
                                      /\ refresh[c].token.sid = jar.token.sid

\* What a context presents is current, unless a request was answered late or
\* the store has left that session.
Presentable(c) ==
    /\ Issued(refresh[c].token)
    /\ \/ Late(refresh[c].token.sid) \/ Current(refresh[c].token)
       \/ jar.token.sid # refresh[c].token.sid

WebTokensInv ==
    /\ WebTokensTypeOK
    /\ \A c \in Everybody : refresh[c].at \in UnderLock => webLock = c
    /\ \A c \in Workers : refresh[c].at = "queued" => Issued(refresh[c].token)
    /\ \A c \in Everybody : refresh[c].at \in {"asking", "unanswered"} => Presentable(c)
    /\ \A c \in Everybody : refresh[c].at = "granted" =>
          /\ Issued(refresh[c].token)
          /\ Late(refresh[c].token.sid) \/ Current(refresh[c].token)
    /\ abandoned # NoRefresh => Issued(abandoned)
    /\ \A s \in 1..MaxSessions : family[s].at = "new" => family[s].turn = 0
    /\ StoredIsCurrent

LEMMA WebTokensBegin == WebTokensInit => WebTokensInv
<1> SUFFICES ASSUME WebTokensInit PROVE WebTokensInv
  OBVIOUS
<1>1. MaxSessions \in Nat /\ MaxRotations \in Nat
  BY WebTokensAssumption
<1>2. NoRefresh \in Refreshing
  BY <1>1 DEF NoRefresh, Refreshing
<1>3. Resting \in [at : {"idle", "queued", "asking", "granted", "refused", "unanswered",
                         "leaving"}, token : Refreshing, force : BOOLEAN, retried : BOOLEAN]
  BY <1>2 DEF Resting
<1>4. WebTokensTypeOK
  BY <1>1, <1>2, <1>3 DEF WebTokensInit, WebTokensTypeOK, Ages
<1>5. \A c \in Everybody : refresh[c].at = "idle"
  BY DEF WebTokensInit, Resting
<1>6. QED
  BY <1>4, <1>5 DEF WebTokensInit, WebTokensInv, StoredIsCurrent, LoggedIn, UnderLock, Everybody

Doings == [at : {"idle", "queued", "asking", "granted", "refused", "unanswered", "leaving"},
           token : Refreshing, force : BOOLEAN, retried : BOOLEAN]

LEMMA WebTypes ==
    /\ NoRefresh \in Refreshing /\ NoRefresh.sid = 0
    /\ Resting \in Doings /\ Resting.at = "idle" /\ Resting.token = NoRefresh
    /\ "free" \notin Everybody /\ \A c \in Tabs : c \notin Workers
<1>1. MaxSessions \in Nat /\ MaxRotations \in Nat
  BY WebTokensAssumption
<1>2. NoRefresh \in Refreshing /\ NoRefresh.sid = 0
  BY <1>1 DEF NoRefresh, Refreshing
<1>3. Resting \in Doings /\ Resting.at = "idle" /\ Resting.token = NoRefresh
  BY <1>2 DEF Resting, Doings
<1>4. QED
  BY <1>2, <1>3, WebTokensAssumption DEF Everybody

\* One context goes on; the store and the server stay as they are.
LEMMA ContextMoves ==
    ASSUME WebTokensInv, NEW c \in Everybody, NEW x \in Doings,
           refresh' = [refresh EXCEPT ![c] = x], UNCHANGED <<jar, family>>,
           refresh[c].at # "granted", x.at # "granted",
           abandoned' = abandoned
             \/ (refresh[c].at = "asking" /\ abandoned' = refresh[c].token),
           webLock' \in Everybody \cup {"free"},
           x.at \in UnderLock => webLock' = c,
           \A d \in Everybody \ {c} : refresh[d].at \in UnderLock => webLock' = webLock,
           c \in Workers /\ x.at = "queued" => Issued(x.token),
           x.at \in {"asking", "unanswered"} =>
              /\ Issued(x.token)
              /\ Late(x.token.sid) \/ Current(x.token) \/ jar.token.sid # x.token.sid
    PROVE  WebTokensInv'
<1> USE DEF WebTokensInv
<1>1. /\ refresh'[c] = x /\ \A d \in Everybody \ {c} : refresh'[d] = refresh[d]
      /\ refresh' \in [Everybody -> Doings]
  BY DEF WebTokensTypeOK, Doings
<1>2. WebTokensTypeOK'
  <2>1. abandoned' \in Refreshing
    BY DEF WebTokensTypeOK
  <2>2. QED
    BY <1>1, <2>1 DEF WebTokensTypeOK, Doings
<1>3. \A d \in Everybody : refresh'[d].at \in UnderLock => webLock' = d
  BY <1>1
<1>4. \A d \in Workers : refresh'[d].at = "queued" => Issued(refresh[d].token)'
  BY <1>1 DEF Issued, Everybody
<1>5. \A d \in Everybody : refresh'[d].at \in {"asking", "unanswered"} => Presentable(d)'
  BY <1>1 DEF Presentable, Issued, Late, Current
<1>6. \A d \in Everybody : refresh'[d].at = "granted" =>
          Issued(refresh[d].token)' /\ (Late(refresh[d].token.sid)' \/ Current(refresh[d].token)')
  BY <1>1 DEF Issued, Late, Current
<1>7. abandoned' # NoRefresh => Issued(abandoned)'
  BY DEF Presentable, Issued
<1>8. StoredIsCurrent'
  BY <1>1 DEF StoredIsCurrent, LoggedIn, Issued, Late, Current
<1>9. QED
  BY <1>2, <1>3, <1>4, <1>5, <1>6, <1>7, <1>8

\* With the lock free, the stored pair is what the server expects.
LEMMA FreeLock ==
    ASSUME WebTokensInv, webLock = "free", LoggedIn
    PROVE  Issued(jar.token) /\ (Late(jar.token.sid) \/ Current(jar.token))
  BY WebTypes DEF WebTokensInv, StoredIsCurrent, UnderLock

LEMMA LockKept ==
    ASSUME WebTokensInv, NEW c \in Everybody, Unlocks(c)
    PROVE  /\ webLock' \in Everybody \cup {"free"}
           /\ \A d \in Everybody \ {c} : refresh[d].at \in UnderLock => webLock' = webLock
  BY DEF WebTokensInv, WebTokensTypeOK, Unlocks

LEMMA TabsMove ==
    ASSUME WebTokensInv, NEW c \in Tabs,
           (\E force \in BOOLEAN : TabWants(c, force)) \/ TabLocks(c) \/ TabRetries(c) \/ TabRefused(c)
    PROVE  WebTokensInv'
<1>0. /\ c \in Everybody /\ c \notin Workers
      /\ jar \in [token : Refreshing, age : Ages] /\ refresh[c] \in Doings
      /\ webLock \in Everybody \cup {"free"}
      /\ \A d \in Everybody : refresh[d].at \in UnderLock => webLock = d
  BY WebTypes DEF Everybody, WebTokensInv, WebTokensTypeOK, Doings
<1>1. CASE \E force \in BOOLEAN : TabWants(c, force)
  <2>1. PICK force \in BOOLEAN : TabWants(c, force)
    BY <1>1
  <2>2. PICK x : x = [Resting EXCEPT !.at = "queued", !.force = force]
    OBVIOUS
  <2>3. x \in Doings /\ x.at = "queued"
    BY <2>2, WebTypes DEF Doings
  <2>4. QED
    BY <1>0, <2>1, <2>2, <2>3, ContextMoves DEF TabWants, UnderLock
<1>2. CASE TabLocks(c)
  <2>1. /\ refresh[c].at = "queued" /\ webLock = "free" /\ UNCHANGED <<jar, family, abandoned>>
    BY <1>2 DEF TabLocks, Admitted
  <2>2. \A d \in Everybody : refresh[d].at \notin UnderLock
    BY <1>0, <2>1, WebTypes
  <2>3. CASE LoggedIn /\ Asks(c, jar.token)
    <3>1. PICK x : x = [Resting EXCEPT !.at = "asking", !.token = jar.token]
      OBVIOUS
    <3>2. x \in Doings /\ x.at = "asking" /\ x.token = jar.token
      BY <1>0, <3>1, WebTypes DEF Doings
    <3>3. Issued(x.token) /\ (Late(x.token.sid) \/ Current(x.token))
      BY <2>1, <2>3, <3>2, FreeLock
    <3>4. webLock' = c /\ refresh' = [refresh EXCEPT ![c] = x]
      BY <2>3, <3>1 DEF Asks
    <3>5. QED
      BY <1>0, <2>1, <2>2, <3>2, <3>3, <3>4, ContextMoves
  <2>4. CASE Rests(c) /\ UNCHANGED webLock
    BY <1>0, <2>1, <2>4, WebTypes, ContextMoves DEF Rests, UnderLock
  <2>5. CASE Leaving(c) /\ UNCHANGED webLock
    <3>1. PICK x : x = [Resting EXCEPT !.at = "leaving"]
      OBVIOUS
    <3>2. x \in Doings /\ x.at = "leaving"
      BY <3>1, WebTypes DEF Doings
    <3>3. QED
      BY <1>0, <2>1, <2>5, <3>1, <3>2, ContextMoves DEF Leaving, UnderLock
  <2>6. QED
    BY <1>2, <2>3, <2>4, <2>5 DEF TabLocks
<1>3. CASE TabRetries(c)
  <2>1. PICK token \in {refresh[c].token, jar.token} \ {NoRefresh} :
          refresh' = [refresh EXCEPT ![c] = [refresh[c] EXCEPT !.at = "asking", !.token = token,
                                                               !.retried = TRUE]]
    BY <1>3 DEF TabRetries
  <2>2. refresh[c].at = "unanswered" /\ webLock = c /\ UNCHANGED <<jar, family, abandoned, webLock>>
    BY <1>0, <1>3 DEF TabRetries, UnderLock
  <2>3. PICK x : x = [refresh[c] EXCEPT !.at = "asking", !.token = token, !.retried = TRUE]
    OBVIOUS
  <2>4. token \in Refreshing
    BY <1>0 DEF Doings
  <2>5. x \in Doings /\ x.at = "asking" /\ x.token = token
    BY <1>0, <2>3, <2>4 DEF Doings
  <2>6. Issued(token) /\ (Late(token.sid) \/ Current(token) \/ jar.token.sid # token.sid)
    <3>1. CASE token = refresh[c].token
      BY <1>0, <2>2, <3>1 DEF WebTokensInv, Presentable
    <3>2. CASE token = jar.token
      <4>1. LoggedIn /\ \A d \in Everybody : refresh[d].at # "granted"
        BY <1>0, <2>1, <2>2, <3>2 DEF LoggedIn, UnderLock
      <4>2. QED
        BY <3>2, <4>1 DEF WebTokensInv, StoredIsCurrent
    <3>3. QED
      BY <2>1, <3>1, <3>2
  <2>7. QED
    BY <1>0, <2>1, <2>2, <2>3, <2>5, <2>6, ContextMoves
<1>4. CASE TabRefused(c)
  <2>1. /\ refresh[c].at = "refused" /\ Unlocks(c) /\ UNCHANGED <<jar, family, abandoned>>
        /\ Rests(c) \/ Leaving(c)
    BY <1>4 DEF TabRefused
  <2>2. PICK x \in {Resting, [Resting EXCEPT !.at = "leaving"]} :
           refresh' = [refresh EXCEPT ![c] = x]
    BY <2>1 DEF Rests, Leaving
  <2>3. x \in Doings /\ x.at \in {"idle", "leaving"}
    BY <2>2, WebTypes DEF Doings
  <2>4. QED
    BY <1>0, <2>1, <2>2, <2>3, LockKept, ContextMoves DEF UnderLock
<1>5. QED
  BY <1>1, <1>2, <1>3, <1>4

LEMMA WorkersMove ==
    ASSUME WebTokensInv, NEW c \in Workers, WorkerWants(c) \/ WorkerLocks(c) \/ WorkerRefused(c)
    PROVE  WebTokensInv'
<1>0. /\ c \in Everybody
      /\ jar \in [token : Refreshing, age : Ages] /\ refresh[c] \in Doings
      /\ webLock \in Everybody \cup {"free"}
      /\ \A d \in Everybody : refresh[d].at \in UnderLock => webLock = d
  BY DEF Everybody, WebTokensInv, WebTokensTypeOK, Doings
<1>1. CASE WorkerWants(c)
  <2>1. PICK x : x = [Resting EXCEPT !.at = "queued", !.token = jar.token]
    OBVIOUS
  <2>2. x \in Doings /\ x.at = "queued" /\ x.token = jar.token
    BY <1>0, <2>1, WebTypes DEF Doings
  <2>3. Issued(x.token)
    BY <1>1, <2>2 DEF WorkerWants, WebTokensInv, StoredIsCurrent
  <2>4. /\ refresh[c].at = "idle" /\ refresh' = [refresh EXCEPT ![c] = x]
        /\ UNCHANGED <<jar, family, abandoned, webLock>>
    BY <1>1, <2>1 DEF WorkerWants
  <2>5. QED
    BY <1>0, <2>2, <2>3, <2>4, ContextMoves DEF UnderLock
<1>2. CASE WorkerLocks(c)
  <2>1. /\ refresh[c].at = "queued" /\ webLock = "free" /\ UNCHANGED <<jar, family, abandoned>>
    BY <1>2 DEF WorkerLocks, Admitted
  <2>2. \A d \in Everybody : refresh[d].at \notin UnderLock
    BY <1>0, <2>1, WebTypes
  <2>3. ASSUME NEW token \in Refreshing, Asks(c, token), Issued(token),
               Late(token.sid) \/ Current(token) \/ jar.token.sid # token.sid
        PROVE  WebTokensInv'
    <3>1. PICK x : x = [Resting EXCEPT !.at = "asking", !.token = token]
      OBVIOUS
    <3>2. x \in Doings /\ x.at = "asking" /\ x.token = token
      BY <3>1, WebTypes DEF Doings
    <3>3. webLock' = c /\ refresh' = [refresh EXCEPT ![c] = x]
      BY <2>3, <3>1 DEF Asks
    <3>4. QED
      BY <1>0, <2>1, <2>2, <2>3, <3>2, <3>3, ContextMoves
  <2>4. CASE LoggedIn /\ Asks(c, jar.token)
    BY <1>0, <2>1, <2>3, <2>4, FreeLock
  <2>5. CASE ~ LoggedIn /\ Asks(c, refresh[c].token)
    <3>1. refresh[c].token \in Refreshing /\ Issued(refresh[c].token)
      BY <1>0, <2>1 DEF Doings, WebTokensInv
    <3>2. jar.token.sid # refresh[c].token.sid
      BY <2>5, <3>1, WebTypes DEF LoggedIn, Issued
    <3>3. QED
      BY <2>3, <2>5, <3>1, <3>2
  <2>6. CASE Rests(c) /\ UNCHANGED webLock
    BY <1>0, <2>1, <2>6, WebTypes, ContextMoves DEF Rests, UnderLock
  <2>7. QED
    BY <1>2, <2>4, <2>5, <2>6 DEF WorkerLocks
<1>3. CASE WorkerRefused(c)
  <2>1. /\ refresh[c].at = "refused" /\ UNCHANGED <<jar, family, abandoned>>
        /\ \/ Rests(c) /\ Unlocks(c)
           \/ Leaving(c) /\ UNCHANGED webLock
    BY <1>3 DEF WorkerRefused
  <2>2. PICK x \in {Resting, [Resting EXCEPT !.at = "leaving"]} :
           refresh' = [refresh EXCEPT ![c] = x]
    BY <2>1 DEF Rests, Leaving
  <2>3. x \in Doings /\ x.at \in {"idle", "leaving"}
    BY <2>2, WebTypes DEF Doings
  <2>4. QED
    BY <1>0, <2>1, <2>2, <2>3, LockKept, ContextMoves DEF UnderLock
<1>4. QED
  BY <1>1, <1>2, <1>3

LEMMA RequestLeft ==
    ASSUME NEW c \in Everybody, LeavesRequest(c)
    PROVE  abandoned' = abandoned \/ abandoned' = refresh[c].token
  BY DEF LeavesRequest

\* A timeout, the last attempt, a context that closes without an answer.
LEMMA RefreshGivenUp ==
    ASSUME WebTokensInv, NEW c \in Everybody,
           Unanswered(c) \/ KeepsSession(c) \/ (ContextCloses(c) /\ refresh[c].at # "granted")
    PROVE  WebTokensInv'
<1>0. /\ refresh[c] \in Doings /\ webLock \in Everybody \cup {"free"}
      /\ \A d \in Everybody : refresh[d].at \in UnderLock => webLock = d
  BY DEF WebTokensInv, WebTokensTypeOK, Doings
<1>1. CASE Unanswered(c)
  <2>1. PICK x : x = [refresh[c] EXCEPT !.at = "unanswered"]
    OBVIOUS
  <2>2. x \in Doings /\ x.at = "unanswered" /\ x.token = refresh[c].token
    BY <1>0, <2>1 DEF Doings
  <2>3. /\ refresh[c].at = "asking" /\ refresh' = [refresh EXCEPT ![c] = x]
        /\ LeavesRequest(c) /\ UNCHANGED <<jar, family, webLock>>
    BY <1>1, <2>1 DEF Unanswered, NowAt
  <2>4. Issued(x.token) /\ (Late(x.token.sid) \/ Current(x.token) \/ jar.token.sid # x.token.sid)
    BY <2>2, <2>3 DEF WebTokensInv, Presentable
  <2>5. QED
    BY <1>0, <2>2, <2>3, <2>4, RequestLeft, ContextMoves DEF UnderLock
<1>2. CASE KeepsSession(c)
  BY <1>0, <1>2, WebTypes, LockKept, ContextMoves DEF KeepsSession, Rests, UnderLock
<1>3. CASE ContextCloses(c) /\ refresh[c].at # "granted"
  <2>1. /\ Rests(c) /\ Unlocks(c) /\ UNCHANGED <<jar, family>>
        /\ UNCHANGED abandoned \/ (refresh[c].at = "asking" /\ LeavesRequest(c))
    BY <1>3 DEF ContextCloses
  <2>2. QED
    BY <1>0, <1>3, <2>1, WebTypes, LockKept, RequestLeft, ContextMoves DEF Rests, UnderLock
<1>4. QED
  BY <1>1, <1>2, <1>3

\* A change of the store alone: it is empty, older, or has a pair it may keep.
LEMMA StoreMoves ==
    ASSUME WebTokensInv, UNCHANGED <<family, refresh, abandoned, webLock>>,
           jar' \in [token : Refreshing, age : Ages],
           jar'.token \in {jar.token, NoRefresh}
    PROVE  WebTokensInv'
<1> USE DEF WebTokensInv
<1>1. WebTokensTypeOK'
  BY DEF WebTokensTypeOK
<1>2. \A c \in Everybody : refresh[c].at \in {"asking", "unanswered"} => Presentable(c)'
  BY WebTypes DEF Presentable, Issued, Late, Current
<1>3. StoredIsCurrent'
  BY WebTypes DEF StoredIsCurrent, LoggedIn, Issued, Late, Current
<1>4. QED
  BY <1>1, <1>2, <1>3 DEF Issued, Late, Current

\* A granted pair is stored, or the store is cleared after a refusal.
LEMMA Settles ==
    ASSUME WebTokensInv, NEW c \in Everybody, StoresPair(c) \/ ClearsPair(c)
    PROVE  WebTokensInv'
<1> USE DEF WebTokensInv
<1>1. /\ refresh' = [refresh EXCEPT ![c] = Resting] /\ Unlocks(c)
      /\ UNCHANGED <<family, abandoned>>
      /\ \/ refresh[c].at = "granted" /\ jar' = [token |-> refresh[c].token, age |-> "fresh"]
         \/ /\ refresh[c].at = "leaving"
            /\ jar' \in {jar, [token |-> NoRefresh, age |-> "fresh"]}
  BY DEF StoresPair, ClearsPair, Rests
<1>2. /\ refresh'[c] = Resting /\ \A d \in Everybody \ {c} : refresh'[d] = refresh[d]
      /\ refresh' \in [Everybody -> Doings] /\ refresh[c].token \in Refreshing
  BY <1>1, WebTypes DEF WebTokensTypeOK, Doings
<1>3. WebTokensTypeOK'
  <2>1. jar' \in [token : Refreshing, age : Ages]
    BY <1>1, <1>2, WebTypes DEF WebTokensTypeOK, Ages
  <2>2. webLock' \in Everybody \cup {"free"}
    BY <1>1, LockKept
  <2>3. QED
    BY <1>1, <1>2, <2>1, <2>2 DEF WebTokensTypeOK, Doings
<1>4. \A d \in Everybody : refresh'[d].at \in UnderLock => d # c /\ webLock' = d
  BY <1>1, <1>2, LockKept, WebTypes DEF UnderLock
<1>5. \A d \in Workers : refresh'[d].at = "queued" => Issued(refresh[d].token)'
  BY <1>1, <1>2, WebTypes DEF Issued, Everybody
<1>6. \A d \in Everybody : refresh'[d].at \in {"asking", "unanswered"} => Presentable(d)'
  <2>1. ASSUME NEW d \in Everybody, refresh'[d].at \in {"asking", "unanswered"}
        PROVE  d # c /\ refresh'[d] = refresh[d] /\ refresh[c].at # "granted"
    BY <1>2, <2>1, WebTypes DEF UnderLock
  <2>2. ASSUME NEW d \in Everybody, refresh'[d].at \in {"asking", "unanswered"}
        PROVE  Presentable(d)'
    BY <1>1, <2>1, <2>2, WebTypes DEF Presentable, Issued, Late, Current
  <2>3. QED
    BY <2>2
<1>7. \A d \in Everybody : refresh'[d].at = "granted" =>
          Issued(refresh[d].token)' /\ (Late(refresh[d].token.sid)' \/ Current(refresh[d].token)')
  BY <1>1, <1>2, WebTypes DEF Issued, Late, Current
<1>8. abandoned' # NoRefresh => Issued(abandoned)'
  BY <1>1 DEF Issued
<1>9. StoredIsCurrent'
  <2>1. CASE refresh[c].at = "granted"
    BY <1>1, <2>1 DEF StoredIsCurrent, LoggedIn, Issued, Late, Current
  <2>2. CASE refresh[c].at # "granted"
    <3>1. jar'.token = jar.token \/ jar'.token = NoRefresh
      BY <1>1, <2>2
    <3>2. QED
      BY <1>1, <1>2, <2>2, <3>1 DEF StoredIsCurrent, LoggedIn, Issued, Late, Current
  <2>3. QED
    BY <2>1, <2>2
<1>10. QED
  BY <1>1, <1>3, <1>4, <1>5, <1>6, <1>7, <1>8, <1>9

LEMMA LogInKeeps ==
    ASSUME WebTokensInv, NEW s \in 1..MaxSessions, LogIn(s)
    PROVE  WebTokensInv'
<1> USE DEF WebTokensInv
<1>1. /\ family[s].at = "new" /\ family' = [family EXCEPT ![s].at = "alive"]
      /\ jar' = [token |-> [sid |-> s, turn |-> 0], age |-> "fresh"]
      /\ UNCHANGED <<refresh, abandoned, webLock>>
  BY DEF LogIn
<1>2. PICK first : first = [sid |-> s, turn |-> 0]
  OBVIOUS
<1>3. first \in Refreshing /\ first.sid = s /\ first.turn = 0 /\ jar'.token = first
  BY <1>1, <1>2, WebTokensAssumption DEF Refreshing
<1>4. /\ family' \in [1..MaxSessions -> [at : {"new", "alive", "revoked"},
                                         turn : 0..MaxRotations, unheard : BOOLEAN]]
      /\ family'[s].at = "alive" /\ family'[s].turn = family[s].turn
      /\ \A r \in 1..MaxSessions \ {s} : family'[r] = family[r]
  BY <1>1 DEF WebTokensTypeOK
<1>5. WebTokensTypeOK'
  <2>1. jar' \in [token : Refreshing, age : Ages]
    BY <1>1, <1>2, <1>3 DEF Ages
  <2>2. QED
    BY <1>1, <1>4, <2>1 DEF WebTokensTypeOK
<1>6. \A t : Issued(t) => /\ t.sid # s /\ Issued(t)' /\ Late(t.sid)' = Late(t.sid)
                          /\ Current(t)' = Current(t)
  BY <1>1, <1>4 DEF Issued, Late, Current
<1>7. \A c \in Workers : refresh[c].at = "queued" => Issued(refresh[c].token)'
  BY <1>1, <1>6 DEF Issued, Everybody
<1>8. \A c \in Everybody : refresh[c].at \in {"asking", "unanswered"} => Presentable(c)'
  BY <1>1, <1>3, <1>6 DEF Presentable, Issued, Late, Current
<1>9. \A c \in Everybody : refresh[c].at = "granted" =>
          Issued(refresh[c].token)' /\ (Late(refresh[c].token.sid)' \/ Current(refresh[c].token)')
  BY <1>1, <1>6 DEF Issued, Late, Current
<1>10. abandoned # NoRefresh => Issued(abandoned)'
  BY <1>1, <1>6 DEF Issued
<1>11. StoredIsCurrent'
  <2>1. Issued(jar.token)'
    BY <1>3, <1>4 DEF Issued
  <2>2. family'[s].turn = 0
    BY <1>1, <1>4
  <2>3. QED
    BY <1>3, <1>4, <2>1, <2>2 DEF StoredIsCurrent, LoggedIn, Late, Current
<1>12. QED
  BY <1>1, <1>4, <1>5, <1>7, <1>8, <1>9, <1>10, <1>11

\* A family goes on, or is revoked.
LEMMA FamilyTyped ==
    ASSUME WebTokensInv, NEW s \in 1..MaxSessions,
           NEW x \in [at : {"alive", "revoked"}, turn : 0..MaxRotations, unheard : BOOLEAN],
           family' = [family EXCEPT ![s] = x]
    PROVE  /\ family' \in [1..MaxSessions -> [at : {"new", "alive", "revoked"},
                                             turn : 0..MaxRotations, unheard : BOOLEAN]]
           /\ family'[s] = x /\ \A r \in 1..MaxSessions \ {s} : family'[r] = family[r]
           /\ \A r \in 1..MaxSessions : family'[r].at = "new" => family'[r].turn = 0
           /\ \A t : Issued(t) => Issued(t)'
           /\ \A t : Issued(t) /\ t.sid # s =>
                 (Late(t.sid)' <=> Late(t.sid)) /\ (Current(t)' <=> Current(t))
<1>1. /\ family' \in [1..MaxSessions -> [at : {"new", "alive", "revoked"},
                                         turn : 0..MaxRotations, unheard : BOOLEAN]]
      /\ family'[s] = x /\ \A r \in 1..MaxSessions \ {s} : family'[r] = family[r]
      /\ x.at # "new"
  BY DEF WebTokensInv, WebTokensTypeOK
<1>2. QED
  BY <1>1 DEF WebTokensInv, Issued, Late, Current

\* The server rotates a token that is current and revokes the session of one
\* that is not.
LEMMA AnswersKeep ==
    ASSUME WebTokensInv, NEW c \in Everybody, ServerAnswers(c)
    PROVE  WebTokensInv'
<1> USE DEF WebTokensInv
<1>1. PICK token : token = refresh[c].token
  OBVIOUS
<1>2. PICK s : s = token.sid
  OBVIOUS
<1>3. /\ refresh[c].at = "asking" /\ webLock = c /\ refresh[c] \in Doings /\ token \in Refreshing
      /\ UNCHANGED <<jar, abandoned, webLock>>
      /\ Issued(token) /\ s \in 1..MaxSessions
      /\ Late(s) \/ Current(token) \/ jar.token.sid # s
  BY <1>1, <1>2 DEF ServerAnswers, UnderLock, WebTokensTypeOK, Doings, Presentable, Issued
<1>4. \A d \in Everybody \ {c} : refresh[d].at \notin UnderLock
  BY <1>3
<1>5. PICK f : f = family[s] /\ f \in [at : {"new", "alive", "revoked"}, turn : 0..MaxRotations,
                                       unheard : BOOLEAN]
  BY <1>3 DEF WebTokensTypeOK
<1>6. MaxRotations \in Nat
  BY WebTokensAssumption
<1>7. ASSUME NEW x \in [at : {"alive", "revoked"}, turn : 0..MaxRotations, unheard : BOOLEAN],
             NEW y \in Doings,
             family' = [family EXCEPT ![s] = x], refresh' = [refresh EXCEPT ![c] = y],
             \/ /\ y.at = "granted" /\ y.token.sid = s
                /\ x.at = "alive" /\ x.turn = y.token.turn
             \/ y.at = "refused" /\ (x.unheard \/ jar.token.sid # s)
      PROVE  WebTokensInv'
  <2>1. /\ family' \in [1..MaxSessions -> [at : {"new", "alive", "revoked"},
                                           turn : 0..MaxRotations, unheard : BOOLEAN]]
        /\ family'[s] = x /\ \A r \in 1..MaxSessions \ {s} : family'[r] = family[r]
        /\ \A r \in 1..MaxSessions : family'[r].at = "new" => family'[r].turn = 0
        /\ \A t : Issued(t) => Issued(t)'
        /\ \A t : Issued(t) /\ t.sid # s =>
              (Late(t.sid)' <=> Late(t.sid)) /\ (Current(t)' <=> Current(t))
    BY <1>3, <1>7, FamilyTyped
  <2>2. /\ refresh'[c] = y /\ \A d \in Everybody \ {c} : refresh'[d] = refresh[d]
        /\ refresh' \in [Everybody -> Doings]
    BY <1>7 DEF WebTokensTypeOK, Doings
  <2>3. WebTokensTypeOK'
    BY <1>3, <2>1, <2>2 DEF WebTokensTypeOK, Doings
  <2>4. \A d \in Everybody : refresh'[d].at \in UnderLock => d = c /\ webLock' = d
    BY <1>3, <1>4, <2>2
  <2>5. \A d \in Workers : refresh'[d].at = "queued" => Issued(refresh[d].token)'
    BY <1>7, <2>1, <2>2 DEF Issued, Everybody
  <2>6. \A d \in Everybody : refresh'[d].at \notin {"asking", "unanswered"}
    BY <1>7, <2>2, <2>4 DEF UnderLock
  <2>7. \A d \in Everybody : refresh'[d].at = "granted" =>
          Issued(refresh[d].token)' /\ (Late(refresh[d].token.sid)' \/ Current(refresh[d].token)')
    BY <1>3, <1>7, <2>1, <2>2, <2>4 DEF UnderLock, Issued, Current
  <2>8. abandoned' # NoRefresh => Issued(abandoned)'
    BY <1>3, <2>1 DEF Issued
  <2>9. StoredIsCurrent'
    <3>1. CASE jar.token.sid = s
      BY <1>3, <1>7, <2>1, <2>2, <3>1 DEF StoredIsCurrent, LoggedIn, Issued, Late, Current
    <3>2. CASE jar.token.sid # s
      <4>1. \A d \in Everybody : refresh[d].at # "granted"
        BY <1>3, <1>4 DEF UnderLock
      <4>2. LoggedIn => Issued(jar.token) /\ (Late(jar.token.sid) \/ Current(jar.token))
        BY <4>1 DEF StoredIsCurrent
      <4>3. QED
        BY <1>3, <2>1, <3>2, <4>2 DEF StoredIsCurrent, LoggedIn, Issued, Late, Current
    <3>3. QED
      BY <3>1, <3>2
  <2>10. QED
    BY <2>1, <2>3, <2>4, <2>5, <2>6, <2>7, <2>8, <2>9
<1>8. CASE /\ Current(token) /\ token.turn < MaxRotations
           /\ family' = [family EXCEPT ![s].turn = @ + 1]
           /\ refresh' = [refresh EXCEPT ![c] = [Resting EXCEPT !.at = "granted",
                                                                !.token = Rotated(token)]]
  <2>1. f.at = "alive" /\ f.turn = token.turn /\ token.turn \in 0..MaxRotations
    BY <1>2, <1>3, <1>5, <1>8 DEF Current, Refreshing
  <2>2. PICK x : x = [f EXCEPT !.turn = f.turn + 1]
    OBVIOUS
  <2>3. f.turn + 1 \in 0..MaxRotations
    BY <1>6, <1>8, <2>1
  <2>4. /\ x \in [at : {"alive", "revoked"}, turn : 0..MaxRotations, unheard : BOOLEAN]
        /\ x.at = "alive" /\ x.turn = f.turn + 1
    BY <1>5, <2>1, <2>2, <2>3
  <2>5. family' = [family EXCEPT ![s] = x]
    BY <1>3, <1>5, <1>8, <2>2 DEF WebTokensTypeOK
  <2>6. Rotated(token) \in Refreshing /\ Rotated(token).sid = s /\ Rotated(token).turn = f.turn + 1
    BY <1>2, <1>3, <2>1, <2>3 DEF Rotated, Refreshing
  <2>7. PICK y : y = [Resting EXCEPT !.at = "granted", !.token = Rotated(token)]
    OBVIOUS
  <2>8. y \in Doings /\ y.at = "granted" /\ y.token = Rotated(token)
    BY <2>6, <2>7, WebTypes DEF Doings
  <2>9. QED
    BY <1>7, <1>8, <2>4, <2>5, <2>6, <2>7, <2>8
<1>9. CASE /\ ~ Current(token)
           /\ family' = [family EXCEPT ![s].at = "revoked"]
           /\ refresh' = [refresh EXCEPT ![c].at = "refused", ![c].retried = FALSE]
  <2>1. PICK x : x = [f EXCEPT !.at = "revoked"]
    OBVIOUS
  <2>2. /\ x \in [at : {"alive", "revoked"}, turn : 0..MaxRotations, unheard : BOOLEAN]
        /\ x.unheard = f.unheard
    BY <1>5, <2>1
  <2>3. family' = [family EXCEPT ![s] = x]
    BY <1>3, <1>5, <1>9, <2>1 DEF WebTokensTypeOK
  <2>4. PICK y : y = [refresh[c] EXCEPT !.at = "refused", !.retried = FALSE]
    OBVIOUS
  <2>5. y \in Doings /\ y.at = "refused"
    BY <1>3, <2>4 DEF Doings
  <2>6. refresh' = [refresh EXCEPT ![c] = y]
    BY <1>3, <1>9, <2>4 DEF WebTokensTypeOK
  <2>7. x.unheard \/ jar.token.sid # s
    BY <1>3, <1>5, <1>9, <2>2 DEF Late
  <2>8. QED
    BY <1>7, <2>2, <2>3, <2>5, <2>6, <2>7
<1>10. QED
  BY <1>1, <1>2, <1>8, <1>9 DEF ServerAnswers

\* A request that nobody waits for is answered, or an answer is lost: the
\* session is on record, and a context may be at rest now.
LEMMA LateKeeps ==
    ASSUME WebTokensInv, NEW s \in 1..MaxSessions, NEW at \in {"alive", "revoked"},
           NEW turn \in 0..MaxRotations, Unheard(s, at, turn), UNCHANGED jar,
           abandoned' \in {abandoned, NoRefresh}, webLock' \in Everybody \cup {"free"},
           refresh' \in [Everybody -> Doings],
           \A d \in Everybody : refresh'[d] # refresh[d] =>
              /\ refresh'[d] = Resting
              /\ refresh[d].at = "granted" => refresh[d].token.sid = s,
           \A d \in Everybody : refresh'[d].at \in UnderLock => webLock' = webLock
    PROVE  WebTokensInv'
<1> USE DEF WebTokensInv
<1>1. PICK x : x = [at |-> at, turn |-> turn, unheard |-> TRUE]
  OBVIOUS
<1>2. /\ x \in [at : {"alive", "revoked"}, turn : 0..MaxRotations, unheard : BOOLEAN]
      /\ x.unheard = TRUE /\ family' = [family EXCEPT ![s] = x]
  BY <1>1 DEF Unheard
<1>3. /\ family' \in [1..MaxSessions -> [at : {"new", "alive", "revoked"},
                                         turn : 0..MaxRotations, unheard : BOOLEAN]]
      /\ family'[s] = x
      /\ \A r \in 1..MaxSessions : family'[r].at = "new" => family'[r].turn = 0
      /\ \A t : Issued(t) => Issued(t)'
      /\ \A t : Issued(t) /\ t.sid # s =>
            (Late(t.sid)' <=> Late(t.sid)) /\ (Current(t)' <=> Current(t))
  BY <1>2, FamilyTyped
<1>4. Late(s)'
  BY <1>2, <1>3 DEF Late
<1>5. \A d \in Everybody : refresh'[d] = refresh[d] \/ refresh'[d].at = "idle"
  BY WebTypes
<1>6. WebTokensTypeOK'
  <2>1. abandoned' \in Refreshing
    BY WebTypes DEF WebTokensTypeOK
  <2>2. QED
    BY <1>3, <2>1 DEF WebTokensTypeOK, Doings
<1>7. \A d \in Everybody : refresh'[d].at \in UnderLock => webLock' = d
  BY <1>5 DEF UnderLock
<1>8. \A d \in Workers : refresh'[d].at = "queued" => Issued(refresh[d].token)'
  BY <1>3, <1>5 DEF Issued, Everybody
<1>9. ASSUME NEW d \in Everybody, refresh'[d].at \in {"asking", "unanswered"}
      PROVE  Presentable(d)'
  <2>1. refresh'[d] = refresh[d] /\ Presentable(d) /\ Issued(refresh[d].token)
    BY <1>5, <1>9 DEF Presentable
  <2>2. CASE refresh[d].token.sid = s
    BY <1>3, <1>4, <2>1, <2>2 DEF Presentable, Issued, Late
  <2>3. CASE refresh[d].token.sid # s
    BY <1>3, <2>1, <2>3 DEF Presentable, Issued, Late, Current
  <2>4. QED
    BY <2>2, <2>3
<1>10. ASSUME NEW d \in Everybody, refresh'[d].at = "granted"
       PROVE  Issued(refresh[d].token)' /\ (Late(refresh[d].token.sid)' \/ Current(refresh[d].token)')
  <2>1. /\ refresh'[d] = refresh[d] /\ Issued(refresh[d].token)
        /\ Late(refresh[d].token.sid) \/ Current(refresh[d].token)
    BY <1>5, <1>10
  <2>2. CASE refresh[d].token.sid = s
    BY <1>3, <1>4, <2>1, <2>2 DEF Issued, Late
  <2>3. CASE refresh[d].token.sid # s
    BY <1>3, <2>1, <2>3 DEF Issued, Late, Current
  <2>4. QED
    BY <2>2, <2>3
<1>11. abandoned' # NoRefresh => Issued(abandoned)'
  BY <1>3 DEF Issued
<1>12. StoredIsCurrent'
  <2>1. CASE jar.token.sid = s
    BY <1>3, <1>4, <2>1 DEF StoredIsCurrent, LoggedIn, Issued, Late
  <2>2. ASSUME jar.token.sid # s, LoggedIn
        PROVE  StoredIsCurrent'
    <3>1. Issued(jar.token)
      BY <2>2 DEF StoredIsCurrent
    <3>2. /\ Issued(jar.token)' /\ (Late(jar.token.sid)' <=> Late(jar.token.sid))
          /\ (Current(jar.token)' <=> Current(jar.token))
          /\ family'[jar.token.sid] = family[jar.token.sid]
      BY <1>2, <1>3, <2>2, <3>1 DEF Issued, Late, Current, WebTokensTypeOK
    <3>3. \A d \in Everybody : /\ refresh[d].at = "granted"
                               /\ refresh[d].token.sid = jar.token.sid
                               => refresh'[d] = refresh[d]
      BY <2>2
    <3>4. QED
      BY <2>2, <3>2, <3>3 DEF StoredIsCurrent, LoggedIn
  <2>3. QED
    BY <2>1, <2>2 DEF StoredIsCurrent, LoggedIn
<1>13. QED
  BY <1>3, <1>6, <1>7, <1>8, <1>9, <1>10, <1>11, <1>12

LEMMA ArrivesLateKeeps ==
    ASSUME WebTokensInv, ArrivesLate
    PROVE  WebTokensInv'
<1>1. /\ Issued(abandoned) /\ abandoned' = NoRefresh /\ UNCHANGED <<jar, refresh, webLock>>
      /\ abandoned.sid \in 1..MaxSessions
  BY DEF WebTokensInv, ArrivesLate, Issued
<1>2. \E at \in {"alive", "revoked"}, turn \in 0..MaxRotations : Unheard(abandoned.sid, at, turn)
  <2>1. CASE abandoned.turn < MaxRotations /\ Unheard(abandoned.sid, "alive", abandoned.turn + 1)
    <3>1. MaxRotations \in Nat
      BY WebTokensAssumption
    <3>2. abandoned.turn \in 0..MaxRotations
      BY DEF WebTokensInv, WebTokensTypeOK, Refreshing
    <3>3. abandoned.turn + 1 \in 0..MaxRotations
      BY <2>1, <3>1, <3>2
    <3>4. QED
      BY <2>1, <3>3
  <2>2. CASE Unheard(abandoned.sid, "revoked", family[abandoned.sid].turn)
    <3>1. family[abandoned.sid].turn \in 0..MaxRotations
      BY <1>1 DEF WebTokensInv, WebTokensTypeOK
    <3>2. QED
      BY <2>2, <3>1
  <2>3. QED
    BY <2>1, <2>2 DEF ArrivesLate
<1>3. refresh' \in [Everybody -> Doings] /\ webLock' \in Everybody \cup {"free"}
  BY <1>1 DEF WebTokensInv, WebTokensTypeOK, Doings
<1>4. QED
  BY <1>1, <1>2, <1>3, LateKeeps

LEMMA ClosesKeep ==
    ASSUME WebTokensInv, NEW c \in Everybody, ContextCloses(c), refresh[c].at = "granted"
    PROVE  WebTokensInv'
<1>1. PICK s : s = refresh[c].token.sid
  OBVIOUS
<1>2. /\ Unheard(s, family[s].at, family[s].turn) /\ UNCHANGED <<jar, abandoned>>
      /\ refresh' = [refresh EXCEPT ![c] = Resting] /\ Unlocks(c)
  BY <1>1 DEF ContextCloses, Rests
<1>3. s \in 1..MaxSessions /\ family[s].at # "new"
  BY <1>1 DEF WebTokensInv, Issued
<1>4. family[s].at \in {"alive", "revoked"} /\ family[s].turn \in 0..MaxRotations
  BY <1>3 DEF WebTokensInv, WebTokensTypeOK
<1>5. /\ refresh' \in [Everybody -> Doings] /\ refresh'[c] = Resting
      /\ \A d \in Everybody \ {c} : refresh'[d] = refresh[d]
  BY <1>2, WebTypes DEF WebTokensInv, WebTokensTypeOK, Doings
<1>6. \A d \in Everybody : refresh'[d] # refresh[d] =>
         /\ refresh'[d] = Resting
         /\ refresh[d].at = "granted" => refresh[d].token.sid = s
  BY <1>1, <1>5
<1>7. /\ webLock' \in Everybody \cup {"free"}
      /\ \A d \in Everybody : refresh'[d].at \in UnderLock => webLock' = webLock
  BY <1>2, <1>5, LockKept, WebTypes DEF UnderLock
<1>8. QED
  BY <1>2, <1>3, <1>4, <1>5, <1>6, <1>7, LateKeeps

LEMMA WebTokensKept == WebTokensInv /\ [WebTokensNext]_webTokenVars => WebTokensInv'
<1>1. SUFFICES ASSUME WebTokensInv, [WebTokensNext]_webTokenVars PROVE WebTokensInv'
  OBVIOUS
<1>2. CASE \E s \in 1..MaxSessions : LogIn(s)
  BY <1>1, <1>2, LogInKeeps
<1>3. CASE LogOut \/ (\E age \in Ages : Ageing(age)) \/ UNCHANGED webTokenVars
  <2>1. UNCHANGED <<family, refresh, abandoned, webLock>>
    BY <1>3 DEF LogOut, Ageing, webTokenVars
  <2>2. jar \in [token : Refreshing, age : Ages]
    BY <1>1 DEF WebTokensInv, WebTokensTypeOK
  <2>3. jar' \in [token : Refreshing, age : Ages] /\ jar'.token \in {jar.token, NoRefresh}
    BY <1>3, <2>2, WebTypes DEF LogOut, Ageing, webTokenVars, Ages
  <2>4. QED
    BY <1>1, <2>1, <2>3, StoreMoves
<1>4. CASE ArrivesLate
  BY <1>1, <1>4, ArrivesLateKeeps
<1>5. CASE \E c \in Tabs : \/ \E force \in BOOLEAN : TabWants(c, force)
                           \/ TabLocks(c) \/ TabRetries(c) \/ TabRefused(c)
  BY <1>1, <1>5, TabsMove
<1>6. CASE \E c \in Workers : WorkerWants(c) \/ WorkerLocks(c) \/ WorkerRefused(c)
  BY <1>1, <1>6, WorkersMove
<1>7. CASE \E c \in Everybody : \/ ServerAnswers(c) \/ Unanswered(c) \/ KeepsSession(c)
                                \/ StoresPair(c) \/ ClearsPair(c) \/ ContextCloses(c)
  BY <1>1, <1>7, AnswersKeep, RefreshGivenUp, Settles, ClosesKeep
<1>8. QED
  BY <1>1, <1>2, <1>3, <1>4, <1>5, <1>6, <1>7 DEF WebTokensNext

\* However tabs and the service worker refresh, log in and log out at the same
\* time, the session whose tokens are stored is revoked only after the server
\* handled a request of it that nobody waited for.
THEOREM OnlyLateRequestsRevoke == WebTokensSpec => []StoredSessionLives
<1>1. WebTokensInv => StoredSessionLives
  BY DEF WebTokensInv, StoredIsCurrent, StoredSessionLives, Late, Current
<1>2. QED
  BY <1>1, WebTokensBegin, WebTokensKept, PTL DEF WebTokensSpec

-----------------------------------------------------------------------------
(* A photo and its refined stamp                                           *)

\* With one bracket to wait for at most, the refinement is over before the
\* hold ends, and the drain has not seen the photo.
HeldUntilRefined ==
    brackets \in {0, 1} =>
        /\ ~ overlap
        /\ refiner.left \in {0, 1}
        /\ refiner.at = "waiting" /\ refiner.left = 1 => refiner.deadline = BracketTimeout
        /\ refiner.at # "over" =>
              /\ uploader.at = "idle" /\ taken.hold = BracketTimeout + 1
              /\ clock <= BracketTimeout

\* What the drain read, and what the server has, is the stamp of the row; a
\* row that may still be refined was never sent.
OneStory ==
    ~ overlap =>
        /\ sent \in {"none", taken.stamp}
        /\ taken.status \in {"processing", "completed"} => sent = taken.stamp
        /\ taken.status = "pending" => sent = "none"
        /\ uploader.at # "idle" =>
              /\ uploader.stamp = taken.stamp
              /\ uploader.prior = "pending" => sent = "none"

StampInv ==
    /\ taken \in [status : {"pending", "uploading", "processing", "completed", "failed"},
                  stamp : Stamps, hold : Nat, deleted : BOOLEAN]
    /\ refiner \in [at : {"waiting", "write", "release", "over"}, left : 0..2,
                    deadline : Nat, found : BOOLEAN]
    /\ uploader \in [at : {"idle", "read", "marked"}, stamp : Stamps,
                     prior : {"pending", "uploading", "failed"}]
    /\ clock \in Nat /\ brackets \in 0..2 /\ overlap \in BOOLEAN
    /\ uploader.at = "read" => taken.status = uploader.prior
    /\ uploader.at = "marked" => taken.status = "uploading"
    /\ HeldUntilRefined
    /\ OneStory

LEMMA StampBegins == StampInit => StampInv
<1> SUFFICES ASSUME StampInit PROVE StampInv
  OBVIOUS
<1>1. BracketTimeout \in Nat
  BY StampAssumption
<1>2. PICK hold \in Nat : hold = BracketTimeout + 1
  BY <1>1
<1>3. /\ taken = [status |-> "pending", stamp |-> "coarse", hold |-> hold, deleted |-> FALSE]
      /\ brackets \in 0..2 /\ clock = 0 /\ overlap = FALSE /\ sent = "none"
      /\ refiner = [at |-> "waiting", left |-> brackets, deadline |-> BracketTimeout,
                    found |-> FALSE]
      /\ uploader = [at |-> "idle", stamp |-> "coarse", prior |-> "pending"]
  BY <1>2 DEF StampInit, UploadHold
<1>4. HeldUntilRefined
  BY <1>1, <1>2, <1>3 DEF HeldUntilRefined
<1>5. QED
  BY <1>1, <1>3, <1>4 DEF StampInv, OneStory, Stamps

LEMMA HoldTimePasses ==
    ASSUME StampInv, ClockTicks
    PROVE  StampInv'
<1>1. /\ clock \in Nat /\ refiner.deadline \in Nat /\ BracketTimeout \in Nat
      /\ refiner.left \in 0..2
  BY StampAssumption DEF StampInv
<1>2. /\ clock' = clock + 1 /\ UNCHANGED <<taken, refiner, brackets, uploader, sent, overlap>>
      /\ refiner.at = "over" \/ (refiner.at = "waiting" /\ refiner.left > 0
                                 /\ clock < refiner.deadline)
  BY DEF ClockTicks
<1>3. clock' \in Nat /\ (refiner.left \in {0, 1} /\ refiner.left > 0 => refiner.left = 1)
  BY <1>1, <1>2
<1>4. clock < BracketTimeout => clock' <= BracketTimeout
  BY <1>1, <1>2
<1>5. HeldUntilRefined'
  BY <1>2, <1>3, <1>4 DEF StampInv, HeldUntilRefined
<1>6. QED
  BY <1>2, <1>3, <1>5 DEF StampInv, OneStory

LEMMA RefinerWaits ==
    ASSUME StampInv, NEW found \in BOOLEAN, Await(found) \/ Refined(found)
    PROVE  StampInv'
<1>1. BracketTimeout \in Nat /\ clock \in Nat /\ refiner.left \in 0..2
  BY StampAssumption DEF StampInv
<1>2. PICK now \in Nat : now = clock + BracketTimeout
  BY <1>1
<1>3. UNCHANGED <<clock, taken, brackets, uploader, sent, overlap>> /\ refiner.at = "waiting"
  BY DEF Await, Refined
<1>4. /\ refiner' \in [at : {"waiting", "write", "release", "over"}, left : 0..2,
                       deadline : Nat, found : BOOLEAN]
      /\ refiner.left \in {0, 1} =>
            refiner'.left = 0 \/ (refiner'.left = refiner.left /\ refiner'.at # "waiting")
      /\ refiner'.at # "over"
  <2>1. CASE Await(found)
    <3>1. PICK left \in 0..2 : left = refiner.left - 1
      BY <1>1, <2>1 DEF Await
    <3>2. refiner' = [refiner EXCEPT !.left = left, !.deadline = now,
                                     !.found = refiner.found \/ found]
      BY <1>2, <2>1, <3>1 DEF Await
    <3>3. refiner.left \in {0, 1} => left = 0
      BY <2>1, <3>1 DEF Await
    <3>4. QED
      BY <1>3, <3>2, <3>3 DEF StampInv
  <2>2. CASE Refined(found)
    BY <2>2 DEF StampInv, Refined
  <2>3. QED
    BY <2>1, <2>2
<1>5. HeldUntilRefined'
  BY <1>3, <1>4 DEF StampInv, HeldUntilRefined
<1>6. QED
  BY <1>3, <1>4, <1>5 DEF StampInv, OneStory

\* One UPDATE of a row that is still pending, or none.
LEMMA RefinerWrites ==
    ASSUME StampInv, ApplyRefinedStamp
    PROVE  StampInv'
<1>1. /\ refiner.at = "write" /\ UNCHANGED <<clock, brackets, uploader, sent>>
      /\ taken' \in {[taken EXCEPT !.stamp = "refined"], taken}
      /\ taken' # taken => StillPending
      /\ overlap' \in BOOLEAN
      /\ overlap => overlap'
      /\ ~ overlap' => ~ (StillPending /\ uploader.at = "read")
      /\ overlap' /\ ~ overlap => uploader.at = "read"
      /\ refiner' = [refiner EXCEPT !.at = "release"]
  BY DEF ApplyRefinedStamp
<1>2. /\ refiner' \in [at : {"waiting", "write", "release", "over"}, left : 0..2,
                       deadline : Nat, found : BOOLEAN]
      /\ refiner'.at = "release" /\ refiner'.left = refiner.left
  BY <1>1 DEF StampInv
<1>3. /\ taken' \in [status : {"pending", "uploading", "processing", "completed", "failed"},
                     stamp : Stamps, hold : Nat, deleted : BOOLEAN]
      /\ taken'.status = taken.status /\ taken'.hold = taken.hold
      /\ taken'.stamp = taken.stamp \/ StillPending
  BY <1>1 DEF StampInv, Stamps
<1>4. HeldUntilRefined'
  BY <1>1, <1>2, <1>3 DEF StampInv, HeldUntilRefined
<1>5. ASSUME ~ overlap' PROVE OneStory'
  <2>1. CASE taken'.stamp = taken.stamp
    BY <1>1, <1>3, <1>5, <2>1 DEF StampInv, OneStory
  <2>2. CASE StillPending
    <3>1. /\ ~ overlap /\ uploader.at # "read" /\ taken.status = "pending"
          /\ uploader.at \in {"idle", "read", "marked"}
      BY <1>1, <1>5, <2>2 DEF StampInv, StillPending
    <3>2. uploader.at = "idle" /\ sent = "none"
      BY <3>1 DEF StampInv, OneStory
    <3>3. QED
      BY <1>1, <1>3, <3>1, <3>2 DEF OneStory
  <2>3. QED
    BY <1>3, <2>1, <2>2
<1>6. OneStory'
  BY <1>5 DEF OneStory
<1>7. QED
  BY <1>1, <1>2, <1>3, <1>4, <1>6 DEF StampInv

LEMMA RefinerEnds ==
    ASSUME StampInv, ClearUploadHold
    PROVE  StampInv'
<1>1. /\ UNCHANGED <<clock, brackets, uploader, sent, overlap>>
      /\ taken' = [taken EXCEPT !.hold = 0] /\ refiner' = [refiner EXCEPT !.at = "over"]
  BY DEF ClearUploadHold
<1>2. /\ taken' \in [status : {"pending", "uploading", "processing", "completed", "failed"},
                     stamp : Stamps, hold : Nat, deleted : BOOLEAN]
      /\ taken'.status = taken.status /\ taken'.stamp = taken.stamp
      /\ refiner' \in [at : {"waiting", "write", "release", "over"}, left : 0..2,
                       deadline : Nat, found : BOOLEAN]
      /\ refiner'.at = "over" /\ refiner'.left = refiner.left
  BY <1>1 DEF StampInv
<1>3. HeldUntilRefined'
  BY <1>1, <1>2 DEF StampInv, HeldUntilRefined
<1>4. QED
  BY <1>1, <1>2, <1>3 DEF StampInv, OneStory

\* The drain takes the photo only when no refinement holds it.
LEMMA DrainReads ==
    ASSUME StampInv, ReadNext
    PROVE  StampInv'
<1>1. /\ uploader.at = "idle" /\ taken.hold <= clock /\ Due
      /\ uploader' = [at |-> "read", stamp |-> taken.stamp, prior |-> taken.status]
      /\ UNCHANGED <<clock, taken, refiner, brackets, sent, overlap>>
  BY DEF ReadNext
<1>2. taken.status \in {"pending", "failed", "uploading"} /\ taken.stamp \in Stamps
  BY <1>1 DEF Due, StampInv
<1>3. uploader' \in [at : {"idle", "read", "marked"}, stamp : Stamps,
                     prior : {"pending", "uploading", "failed"}]
  BY <1>1, <1>2
<1>4. BracketTimeout \in Nat /\ clock \in Nat
  BY StampAssumption DEF StampInv
<1>5. brackets \in {0, 1} => refiner.at = "over"
  <2>1. taken.hold = BracketTimeout + 1 => ~ (clock <= BracketTimeout)
    BY <1>1, <1>4
  <2>2. QED
    BY <2>1 DEF StampInv, HeldUntilRefined
<1>6. HeldUntilRefined'
  BY <1>1, <1>5 DEF StampInv, HeldUntilRefined
<1>7. OneStory'
  BY <1>1 DEF StampInv, OneStory
<1>8. QED
  BY <1>1, <1>3, <1>6, <1>7 DEF StampInv

\* The drain goes on, or the process dies: the row keeps its stamp and its hold.
LEMMA DrainMoves ==
    ASSUME StampInv, PassOver \/ MarkUploading \/ Accepted \/ Duplicate \/ Fails \/ Restores \/ AppDies
    PROVE  StampInv'
<1>1. /\ taken' \in {taken} \cup {[taken EXCEPT !.status = s] :
                                  s \in {"uploading", "processing", "completed", "failed", uploader.prior}}
      /\ uploader' \in {[uploader EXCEPT !.at = "idle"], [uploader EXCEPT !.at = "marked"]}
      /\ refiner' \in {refiner, [refiner EXCEPT !.at = "over"]}
      /\ UNCHANGED <<clock, brackets, overlap>>
  BY DEF PassOver, MarkUploading, Accepted, Duplicate, Fails, Restores, AppDies, Outcome
<1>2. /\ taken' \in [status : {"pending", "uploading", "processing", "completed", "failed"},
                     stamp : Stamps, hold : Nat, deleted : BOOLEAN]
      /\ taken'.hold = taken.hold /\ taken'.stamp = taken.stamp
      /\ uploader' \in [at : {"idle", "read", "marked"}, stamp : Stamps,
                        prior : {"pending", "uploading", "failed"}]
      /\ uploader'.stamp = uploader.stamp /\ uploader'.prior = uploader.prior
      /\ refiner' \in [at : {"waiting", "write", "release", "over"}, left : 0..2,
                       deadline : Nat, found : BOOLEAN]
      /\ refiner'.left = refiner.left /\ refiner'.deadline = refiner.deadline
      /\ refiner'.at = refiner.at \/ refiner'.at = "over"
  BY <1>1 DEF StampInv
<1>3. uploader.at # "idle" \/ refiner'.at = "over"
  BY DEF StampInv, PassOver, MarkUploading, Accepted, Duplicate, Fails, Restores, AppDies, Outcome
<1>4. HeldUntilRefined'
  BY <1>1, <1>2, <1>3 DEF StampInv, HeldUntilRefined
<1>5. /\ uploader'.at = "marked" => taken'.status = "uploading" /\ uploader.at # "idle"
      /\ uploader'.at # "read"
  BY <1>1 DEF StampInv, PassOver, MarkUploading, Accepted, Duplicate, Fails, Restores, AppDies, Outcome
<1>6. ASSUME ~ overlap PROVE OneStory'
  <2>1. CASE PassOver \/ MarkUploading
    BY <1>1, <1>2, <1>6, <2>1 DEF StampInv, OneStory, PassOver, MarkUploading
  <2>2. CASE Accepted \/ Duplicate \/ Fails \/ Restores
    <3>1. uploader.at = "marked" /\ uploader'.at = "idle"
      BY <2>2 DEF StampInv, Accepted, Duplicate, Fails, Restores, Outcome
    <3>2. /\ sent \in {"none", taken.stamp} /\ uploader.stamp = taken.stamp
          /\ uploader.prior = "pending" => sent = "none"
      BY <1>6, <3>1 DEF StampInv, OneStory
    <3>3. taken.stamp # "none" /\ uploader.prior \notin {"processing", "completed"}
      BY DEF StampInv, Stamps
    <3>4. \/ taken'.status = "processing" /\ sent' = uploader.stamp
          \/ taken'.status = "completed" /\ sent # "none" /\ sent' = sent
          \/ taken'.status = "failed" /\ sent' \in {sent, uploader.stamp}
          \/ taken'.status = uploader.prior /\ sent' = sent
      BY <2>2 DEF StampInv, Accepted, Duplicate, Fails, Restores, Outcome
    <3>5. QED
      BY <1>2, <3>1, <3>2, <3>3, <3>4 DEF OneStory
  <2>3. CASE AppDies
    <3>1. /\ uploader'.at = "idle" /\ UNCHANGED taken
          /\ sent' = sent \/ (uploader.at = "marked" /\ sent' = uploader.stamp)
      BY <2>3 DEF StampInv, AppDies
    <3>2. QED
      BY <1>6, <3>1 DEF StampInv, OneStory
  <2>4. QED
    BY <2>1, <2>2, <2>3
<1>7. OneStory'
  BY <1>1, <1>6 DEF OneStory
<1>8. clock' \in Nat /\ brackets' \in 0..2 /\ overlap' \in BOOLEAN
  BY <1>1 DEF StampInv
<1>9. QED
  BY <1>2, <1>4, <1>5, <1>7, <1>8 DEF StampInv

LEMMA RowMoves ==
    ASSUME StampInv, StatusSynced \/ Discard
    PROVE  StampInv'
<1>1. /\ UNCHANGED <<clock, refiner, brackets, uploader, sent, overlap>>
      /\ \/ taken' = [taken EXCEPT !.deleted = TRUE]
         \/ /\ taken.status = "processing"
            /\ taken' \in {[taken EXCEPT !.status = "completed"], [taken EXCEPT !.status = "failed"]}
  BY DEF StatusSynced, Discard
<1>2. /\ taken' \in [status : {"pending", "uploading", "processing", "completed", "failed"},
                     stamp : Stamps, hold : Nat, deleted : BOOLEAN]
      /\ taken'.hold = taken.hold /\ taken'.stamp = taken.stamp
      /\ \/ taken'.status = taken.status
         \/ taken.status = "processing" /\ taken'.status \in {"completed", "failed"}
  BY <1>1 DEF StampInv
<1>3. HeldUntilRefined'
  BY <1>1, <1>2 DEF StampInv, HeldUntilRefined
<1>4. OneStory'
  BY <1>1, <1>2 DEF StampInv, OneStory
<1>5. uploader.at # "idle" => taken.status # "processing"
  BY DEF StampInv
<1>6. QED
  BY <1>1, <1>2, <1>3, <1>4, <1>5 DEF StampInv

LEMMA StampKept == StampInv /\ [StampNext]_stampVars => StampInv'
<1>1. StampInv /\ UNCHANGED stampVars => StampInv'
  BY DEF StampInv, HeldUntilRefined, OneStory, stampVars
<1>2. QED
  BY <1>1, HoldTimePasses, RefinerWaits, RefinerWrites, RefinerEnds, DrainReads, DrainMoves, RowMoves
     DEF StampNext

\* The photo the server has is stamped like the local row, through failures,
\* retries, lost answers and deaths - unless it waited for both brackets, one
\* after the other, and was refined between the drain's read and its mark.
THEOREM OneStampStory == StampSpec => []SameStory
<1>1. StampInv => SameStory
  BY DEF StampInv, HeldUntilRefined, OneStory, SameStory
<1>2. QED
  BY <1>1, StampBegins, StampKept, PTL DEF StampSpec

=============================================================================
