------------------------------ MODULE AuthClient ------------------------------
(***************************************************************************)
(* The session of one Android installation, against AuthServer: the token  *)
(* store (SharedPreferences, the same for every AuthenticationManager of   *)
(* the process), the contexts that refresh it under one process-wide mutex,*)
(* and the WebView, which keeps a copy of "am I logged in" that the        *)
(* auth-expired message and the reconciler correct.                        *)
(*                                                                         *)
(* storeAuthToken, sessionExpired and clearAuthToken take no lock: they    *)
(* interleave with a refresh that is waiting for the network.              *)
(***************************************************************************)
EXTENDS AuthServer

CONSTANTS
    Contexts,    \* who asks the AuthenticationManager for a token
    WebView      \* the one of them the WebView uses

ASSUME AuthClientAssumption == WebView \in Contexts

VARIABLES
    store,     \* the pair in SharedPreferences
    flag,      \* session_expired_at: the session died and nobody was told yet
    context,   \* refreshes, by the context that runs them
    message,   \* an "auth-expired" message is queued for the WebView
    js,        \* the WebView: is_authenticated
    login,     \* its login under way
    expiry,    \* its auth-expired handler, or its check at startup
    reconcile, \* its reconcileSessionState
    leaving,   \* its logout()
    unheard    \* families a rotation of which was lost on the way back

storeVars == <<store, flag>>
webVars == <<js, login, expiry, reconcile, leaving>>
clientVars == <<store, flag, context, message, js, login, expiry, reconcile,
                leaving, unheard>>
vars == <<serverVars, clientVars>>

\* "forcing": forceRefreshToken has read `prior` and queues for the mutex.
Context == [ pc    : {"idle", "forcing", "calling"},
             prior : Token \cup {None},
             slot  : Slots \cup {None} ]

IdleContext == [pc |-> "idle", prior |-> None, slot |-> None]

\* `stale`: a login has completed since authGeneration was read (generations
\* are only ever compared with the current one).
NoLogin     == [pc |-> "none", token |-> None]
NoExpiry    == [pc |-> "none", boot |-> FALSE, stale |-> FALSE]
NoReconcile == [pc |-> "none", stale |-> FALSE, leave |-> FALSE]

ClientTypeOK ==
    /\ store \in Token \cup {None}
    /\ flag \in BOOLEAN
    /\ context \in [Contexts -> Context]
    /\ message \in BOOLEAN
    /\ js \in BOOLEAN
    /\ login \in [pc : {"none", "storing", "stored"}, token : Token \cup {None}]
    /\ expiry \in [pc : {"none", "received", "asking"}, boot : BOOLEAN, stale : BOOLEAN]
    /\ reconcile \in [pc : {"none", "asked", "answered"}, stale : BOOLEAN, leave : BOOLEAN]
    /\ leaving \in {"no", "clearing", "cleared", "again"}
    /\ unheard \subseteq Sids

TypeOK == ServerTypeOK /\ ClientTypeOK

Init ==
    /\ ServerInit
    /\ store = None /\ flag = FALSE
    /\ context = [c \in Contexts |-> IdleContext]
    /\ message = FALSE
    /\ js = FALSE
    /\ login = NoLogin /\ expiry = NoExpiry /\ reconcile = NoReconcile
    /\ leaving = "no"
    /\ unheard = {}

-----------------------------------------------------------------------------
(* AuthenticationManager                                                   *)

Live(t) == t # None /\ t \notin lapsed           \* getCurrentTokenIfValid

\* Faulty variant: no mutex.
NoMutex == TRUE

MutexFree == \A c \in Contexts : context[c].pc # "calling"

Idle(c) == context' = [context EXCEPT ![c] = IdleContext]

\* performTokenRefresh under the mutex; past its own expiry the refresh token
\* is not even sent.
Send(c, s) ==
    /\ MutexFree
    /\ store # None /\ store \notin dead
    /\ RefreshArrives(s, store)
    /\ context' = [context EXCEPT ![c] = [IdleContext EXCEPT !.pc = "calling", !.slot = s]]

\* getValidToken for an expired token, refreshTokenIfNeeded also for one whose
\* refresh token is about to expire.  Both look again once they have the
\* mutex, so nothing they saw before it counts.
RefreshIfNeeded(c, s) ==
    /\ context[c].pc = "idle"
    /\ Send(c, s)
    /\ UNCHANGED <<tokenVars, events, storeVars, message, webVars, unheard>>

\* forceRefreshToken remembers the access token the API has just rejected.
ForceQueues(c) ==
    /\ context[c].pc = "idle"
    /\ store # None
    /\ context' = [context EXCEPT ![c].pc = "forcing", ![c].prior = store]
    /\ UNCHANGED <<serverVars, storeVars, message, webVars, unheard>>

AlreadyRefreshed(c) == Live(store) /\ store # context[c].prior

ForceSpared(c) ==
    /\ context[c].pc = "forcing"
    /\ MutexFree
    /\ AlreadyRefreshed(c) \/ store = None \/ store \in dead
    /\ Idle(c)
    /\ UNCHANGED <<serverVars, storeVars, message, webVars, unheard>>

ForceSends(c, s) ==
    /\ context[c].pc = "forcing"
    /\ ~ AlreadyRefreshed(c)
    /\ Send(c, s)
    /\ UNCHANGED <<tokenVars, events, storeVars, message, webVars, unheard>>

Answered(c, reply) ==
    /\ context[c].pc = "calling"
    /\ slot[context[c].slot].pc = reply
    /\ slot' = [slot EXCEPT ![context[c].slot] = NoRequest]
    /\ Idle(c)

\* Faulty variant: the new pair is not stored when one is there already.
ReplyStoredIfNone(c) ==
    /\ Answered(c, "granted")
    /\ store' = IF store = None THEN slot[context[c].slot].pair ELSE store
    /\ flag' = FALSE
    /\ UNCHANGED <<tokenVars, events, message, webVars, unheard>>

\* storeAuthToken with the new pair, also when the store holds another
\* family, or nothing, by now.  It lowers the flag, too.
ReplyStored(c) ==
    /\ Answered(c, "granted")
    /\ store' = slot[context[c].slot].pair
    /\ flag' = FALSE
    /\ UNCHANGED <<tokenVars, events, message, webVars, unheard>>

\* 401: sessionExpired.
ReplyRejected(c) ==
    /\ Answered(c, "rejected")
    /\ store' = None
    /\ flag' = TRUE
    /\ message' = TRUE
    /\ UNCHANGED <<tokenVars, events, webVars, unheard>>

\* 429, 5xx: the session is kept.
ReplyFailed(c) ==
    /\ Answered(c, "failed")
    /\ UNCHANGED <<tokenVars, events, storeVars, message, webVars, unheard>>

\* What becomes of the requests whose caller is gone: a rotation that happens
\* in spite of it is one nobody hears of.
Abandon(S) ==
    /\ slot' = [s \in Slots |-> IF s \in S THEN [slot[s] EXCEPT !.heard = FALSE] ELSE slot[s]]
    /\ unheard' = unheard \cup {slot[s].token.sid : s \in S}

\* Timeout, or no network: the request may have been served or not.
CallLost(c) ==
    /\ context[c].pc = "calling"
    /\ Event
    /\ Abandon({context[c].slot})
    /\ Idle(c)
    /\ UNCHANGED <<tokenVars, storeVars, message, webVars>>

-----------------------------------------------------------------------------
(* The WebView                                                             *)

Unchanged(web) == UNCHANGED <<serverVars, context, unheard>> /\ UNCHANGED web

\* completeAuthentication: the API has answered the password, the pair is on
\* its way to native.
LoginStarts(sid) ==
    /\ ~ js /\ login.pc = "none"
    /\ Login(sid)
    /\ login' = [pc |-> "storing", token |-> [sid |-> sid, gen |-> 0]]
    /\ UNCHANGED <<storeVars, context, message, js, expiry, reconcile, leaving,
                   unheard>>

\* Native has stored the pair; registering the device key may fail, and the
\* login with it, although the pair stays.
LoginStored(registered) ==
    /\ login.pc = "storing"
    /\ store' = login.token
    /\ flag' = FALSE
    /\ login' = IF registered THEN [login EXCEPT !.pc = "stored"] ELSE NoLogin
    /\ Unchanged(<<message, js, expiry, reconcile, leaving>>)

LoginCompletes ==
    /\ login.pc = "stored"
    /\ login' = NoLogin
    /\ js' = TRUE
    /\ expiry' = [expiry EXCEPT !.stale = expiry.pc # "none"]
    /\ reconcile' = [reconcile EXCEPT !.stale = reconcile.pc # "none"]
    /\ Unchanged(<<storeVars, message, leaving>>)

\* logout(): ignored when it carries the generation of an earlier login.  One
\* that starts before an earlier one has ended makes it "again".
Leave(stale) ==
    leaving' = IF stale THEN leaving
               ELSE IF leaving \in {"cleared", "again"} THEN "again" ELSE "clearing"

UserLeaves ==
    /\ js
    /\ leaving = "no"
    /\ Leave(FALSE)
    /\ Unchanged(<<storeVars, message, js, login, expiry, reconcile>>)

NativeCleared ==
    /\ leaving \in {"clearing", "again"}
    /\ leaving' = "cleared"
    /\ store' = None
    /\ Unchanged(<<flag, message, js, login, expiry, reconcile>>)

LeaveCompletes ==
    /\ leaving \in {"cleared", "again"}
    /\ leaving' = IF leaving = "again" THEN "clearing" ELSE "no"
    /\ js' = FALSE
    /\ Unchanged(<<storeVars, message, login, expiry, reconcile>>)

\* The poller delivers "auth-expired": generation first, then the handler
\* asks native for a token.
ExpiryReceived ==
    /\ message
    /\ expiry.pc = "none"
    /\ message' = FALSE
    /\ expiry' = [NoExpiry EXCEPT !.pc = "received"]
    /\ Unchanged(<<storeVars, js, login, reconcile, leaving>>)

ExpiryRefreshes(s) ==
    /\ expiry.pc = "received"
    /\ ~ Live(store)
    /\ context[WebView].pc = "idle"
    /\ Send(WebView, s)
    /\ expiry' = [expiry EXCEPT !.pc = "asking"]
    /\ UNCHANGED <<tokenVars, events, storeVars, message, js, login, reconcile, leaving, unheard>>

\* The token it gets.  The startup check (ensureAuthInitialized) asks the
\* same question and draws the opposite conclusion.
ExpiryConcludes ==
    /\ \/ expiry.pc = "received" /\ (Live(store) \/ store \in dead \cup {None})
       \/ expiry.pc = "asking" /\ context[WebView].pc = "idle"
    /\ expiry' = NoExpiry
    /\ IF expiry.boot THEN /\ js' = (js \/ Live(store))
                           /\ UNCHANGED leaving
                      ELSE /\ IF Live(store) THEN UNCHANGED leaving ELSE Leave(expiry.stale)
                           /\ UNCHANGED js
    /\ Unchanged(<<storeVars, message, login, reconcile>>)

\* reconcileSessionState, at startup, on return to the foreground, after a
\* forced refresh came back empty (`leave`: what it found so far speaks for a
\* logout).
ReconcileStarts ==
    /\ reconcile.pc = "none"
    /\ reconcile' = [NoReconcile EXCEPT !.pc = "asked", !.leave = js]
    /\ Unchanged(<<storeVars, message, js, login, expiry, leaving>>)

\* Faulty variant: only the flag counts.
ReconcileReadsFlag ==
    /\ reconcile.pc = "asked"
    /\ reconcile' = [reconcile EXCEPT !.pc = "answered", !.leave = @ /\ flag]
    /\ flag' = FALSE
    /\ Unchanged(<<store, message, js, login, expiry, leaving>>)

\* get_session_state with consume_expired: the flag is lowered by the read.
ReconcileReads ==
    /\ reconcile.pc = "asked"
    /\ reconcile' = [reconcile EXCEPT !.pc = "answered", !.leave = @ /\ (flag \/ store = None)]
    /\ flag' = FALSE
    /\ Unchanged(<<store, message, js, login, expiry, leaving>>)

ReconcileConcludes ==
    /\ reconcile.pc = "answered"
    /\ IF reconcile.leave THEN Leave(reconcile.stale) ELSE UNCHANGED leaving
    /\ reconcile' = NoReconcile
    /\ Unchanged(<<storeVars, message, js, login, expiry>>)

-----------------------------------------------------------------------------
\* Process death: what SharedPreferences does not hold is gone, and the
\* WebView starts over with its startup check.
Restart ==
    /\ Event
    /\ Abandon({context[c].slot : c \in {d \in Contexts : context[d].pc = "calling"}})
    /\ context' = [c \in Contexts |-> IdleContext]
    /\ message' = FALSE
    /\ js' = FALSE
    /\ login' = NoLogin
    /\ expiry' = [NoExpiry EXCEPT !.pc = "received", !.boot = TRUE]
    /\ reconcile' = NoReconcile
    /\ leaving' = "no"
    /\ UNCHANGED <<tokenVars, storeVars>>

Native(c) ==
    \/ ForceQueues(c)
    \/ ForceSpared(c)
    \/ \E s \in Slots : RefreshIfNeeded(c, s) \/ ForceSends(c, s)
    \/ ReplyStored(c)
    \/ ReplyRejected(c)
    \/ ReplyFailed(c)
    \/ CallLost(c)

WebStep ==
    \/ \E registered \in BOOLEAN : LoginStored(registered)
    \/ LoginCompletes
    \/ UserLeaves
    \/ NativeCleared
    \/ LeaveCompletes
    \/ ExpiryReceived
    \/ \E s \in Slots : ExpiryRefreshes(s)
    \/ ExpiryConcludes
    \/ ReconcileStarts
    \/ ReconcileReads
    \/ ReconcileConcludes

Next ==
    \/ ServerStep /\ UNCHANGED clientVars
    \/ \E c \in Contexts : Native(c)
    \/ \E sid \in Sids : LoginStarts(sid)
    \/ WebStep
    \/ Restart
=============================================================================
