------------------------------- MODULE WebTokens -------------------------------
(***************************************************************************)
(* The session of a browser: one pair of tokens in IndexedDB, tabs that    *)
(* refresh it (webTokenManager.ts) and a service worker that does so too   *)
(* (browser/authStorage.ts).  The server spends a refresh token once and   *)
(* takes a second use for theft.  A Web Lock lets one context refresh at a *)
(* time; logins and logouts store and clear without it.  Browsers without  *)
(* Web Locks, where the code calls the server directly, are left out.      *)
(*                                                                         *)
(* A tab's copy of the pair may be behind the store: a tab may ask for a   *)
(* refresh whatever the store holds.  A refresh token does not reach its   *)
(* expiry here, and the server revokes a session for reuse only.           *)
(***************************************************************************)
EXTENDS Integers

CONSTANTS
    Tabs, Workers,  \* the contexts
    MaxSessions,    \* bound: logins
    MaxRotations    \* bound: refreshes of one login
                    \* (three attempts in the code: one retry here)

ASSUME WebTokensAssumption ==
    /\ MaxSessions \in Nat \ {0} /\ MaxRotations \in Nat
    /\ Tabs \cap Workers = {} /\ "free" \notin Tabs \cup Workers

VARIABLES
    jar,        \* the pair in IndexedDB and how old it is
    family,     \* on the server, by login: the current refresh token
    refresh,    \* what each context does
    abandoned,  \* a request nobody waits for, which the server has yet to get
    webLock     \* who holds 'hillview-auth-refresh'

webTokenVars == <<jar, family, refresh, abandoned, webLock>>

Everybody == Tabs \cup Workers

\* A refresh token: its login and how often it was rotated; login 0 is none.
Refreshing == [sid : 0..MaxSessions, turn : 0..MaxRotations]

NoRefresh == [sid |-> 0, turn |-> 0]

\* "renewal": the refresh token is due, though the access token is good.
Ages == {"fresh", "renewal", "expired"}

WebTokensTypeOK ==
    /\ jar \in [token : Refreshing, age : Ages]
    /\ family \in [1..MaxSessions -> [at : {"new", "alive", "revoked"},
                                      turn : 0..MaxRotations, unheard : BOOLEAN]]
    /\ refresh \in [Everybody -> [at : {"idle", "queued", "asking", "granted", "refused",
                                        "unanswered", "leaving"},
                                  token : Refreshing, force : BOOLEAN, retried : BOOLEAN]]
    /\ abandoned \in Refreshing
    /\ webLock \in Everybody \cup {"free"}

Resting == [at |-> "idle", token |-> NoRefresh, force |-> FALSE, retried |-> FALSE]

WebTokensInit ==
    /\ jar = [token |-> NoRefresh, age |-> "fresh"]
    /\ family = [s \in 1..MaxSessions |-> [at |-> "new", turn |-> 0, unheard |-> FALSE]]
    /\ refresh = [c \in Everybody |-> Resting]
    /\ abandoned = NoRefresh /\ webLock = "free"

-----------------------------------------------------------------------------
LoggedIn == jar.token # NoRefresh

\* completeAuthentication: storeTokens.
LogIn(s) ==
    /\ family[s].at = "new" /\ \A r \in 1..(s - 1) : family[r].at # "new"
    /\ family' = [family EXCEPT ![s].at = "alive"]
    /\ jar' = [token |-> [sid |-> s, turn |-> 0], age |-> "fresh"]
    /\ UNCHANGED <<refresh, abandoned, webLock>>

LogOut ==
    /\ LoggedIn
    /\ jar' = [token |-> NoRefresh, age |-> "fresh"]
    /\ UNCHANGED <<family, refresh, abandoned, webLock>>

Ageing(age) ==
    /\ LoggedIn /\ jar.age # age /\ jar.age # "expired" /\ age # "fresh"
    /\ jar' = [jar EXCEPT !.age = age]
    /\ UNCHANGED <<family, refresh, abandoned, webLock>>

-----------------------------------------------------------------------------
NowAt(c, at) == refresh' = [refresh EXCEPT ![c].at = at]

Rests(c) == refresh' = [refresh EXCEPT ![c] = Resting]

Leaving(c) == refresh' = [refresh EXCEPT ![c] = [Resting EXCEPT !.at = "leaving"]]

Unlocks(c) == webLock' = IF webLock = c THEN "free" ELSE webLock

\* getValidToken of a tab; `force` after a 401.
TabWants(c, force) ==
    /\ refresh[c].at = "idle" /\ \E s \in 1..MaxSessions : family[s].at # "new"
    /\ refresh' = [refresh EXCEPT ![c] = [Resting EXCEPT !.at = "queued", !.force = force]]
    /\ UNCHANGED <<jar, family, abandoned, webLock>>

\* AuthStorage.getValidToken: an expired pair, and what it read is kept.
WorkerWants(c) ==
    /\ refresh[c].at = "idle" /\ LoggedIn /\ jar.age = "expired"
    /\ refresh' = [refresh EXCEPT ![c] =
                      [Resting EXCEPT !.at = "queued", !.token = jar.token]]
    /\ UNCHANGED <<jar, family, abandoned, webLock>>

\* Faulty variant: no lock.
AtOnceAdmitted == TRUE

Admitted == webLock = "free"

Asks(c, token) ==
    /\ webLock' = c
    /\ refresh' = [refresh EXCEPT ![c] = [Resting EXCEPT !.at = "asking", !.token = token]]

\* performRefresh under the lock: the store is read again.
TabLocks(c) ==
    /\ refresh[c].at = "queued" /\ Admitted
    /\ \/ LoggedIn /\ (refresh[c].force \/ jar.age # "fresh") /\ Asks(c, jar.token)
       \/ LoggedIn /\ ~ refresh[c].force /\ jar.age = "fresh" /\ Rests(c) /\ UNCHANGED webLock
       \/ ~ LoggedIn /\ Leaving(c) /\ UNCHANGED webLock
    /\ UNCHANGED <<jar, family, abandoned>>

\* AuthStorage.refreshToken: `latest?.refresh_token || refreshToken`.
WorkerLocks(c) ==
    /\ refresh[c].at = "queued" /\ Admitted
    /\ \/ LoggedIn /\ jar.age # "expired" /\ Rests(c) /\ UNCHANGED webLock
       \/ LoggedIn /\ jar.age = "expired" /\ Asks(c, jar.token)
       \/ ~ LoggedIn /\ Asks(c, refresh[c].token)
    /\ UNCHANGED <<jar, family, abandoned>>

-----------------------------------------------------------------------------
Current(token) ==
    family[token.sid].at = "alive" /\ family[token.sid].turn = token.turn

Rotated(token) == [token EXCEPT !.turn = @ + 1]

\* /auth/refresh: rotates the token, or revokes the session of a spent one.
ServerAnswers(c) ==
    LET token == refresh[c].token
    IN  /\ refresh[c].at = "asking"
        /\ \/ /\ Current(token) /\ token.turn < MaxRotations
              /\ family' = [family EXCEPT ![token.sid].turn = @ + 1]
              /\ refresh' = [refresh EXCEPT ![c] = [Resting EXCEPT !.at = "granted",
                                                              !.token = Rotated(token)]]
           \/ /\ ~ Current(token)
              /\ family' = [family EXCEPT ![token.sid].at = "revoked"]
              /\ refresh' = [refresh EXCEPT ![c].at = "refused", ![c].retried = FALSE]
        /\ UNCHANGED <<jar, abandoned, webLock>>

\* The answer finds nobody: tokens are lost, or a token is used late.
Unheard(sid, at, turn) ==
    family' = [family EXCEPT ![sid] = [at |-> at, turn |-> turn, unheard |-> TRUE]]

\* Nobody waits any more: the request never arrives, or may still arrive. One
\* such request at a time is followed.
LeavesRequest(c) ==
    abandoned' \in {abandoned} \cup {t \in {refresh[c].token} : abandoned = NoRefresh}

\* A timeout, the network or a 5xx.
Unanswered(c) ==
    /\ refresh[c].at = "asking"
    /\ NowAt(c, "unanswered") /\ LeavesRequest(c)
    /\ UNCHANGED <<jar, family, webLock>>

ArrivesLate ==
    /\ abandoned # NoRefresh /\ abandoned' = NoRefresh
    /\ \/ Current(abandoned) /\ abandoned.turn < MaxRotations
          /\ Unheard(abandoned.sid, "alive", abandoned.turn + 1)
       \/ ~ Current(abandoned) /\ Unheard(abandoned.sid, "revoked", family[abandoned.sid].turn)
    /\ UNCHANGED <<jar, refresh, webLock>>

\* performRefreshAttempts: again with the cached pair, which a message of
\* another tab may have replaced.
TabRetries(c) ==
    /\ refresh[c].at = "unanswered" /\ ~ refresh[c].retried
    /\ \E token \in {refresh[c].token, jar.token} \ {NoRefresh} :
          refresh' = [refresh EXCEPT ![c] = [@ EXCEPT !.at = "asking", !.token = token,
                                                      !.retried = TRUE]]
    /\ UNCHANGED <<jar, family, abandoned, webLock>>

\* Attempts used up: the session is kept.
KeepsSession(c) ==
    /\ refresh[c].at = "unanswered"
    /\ Rests(c) /\ Unlocks(c)
    /\ UNCHANGED <<jar, family, abandoned>>

\* storeTokens, saveTokenData: whatever the store holds by now.
StoresPair(c) ==
    /\ refresh[c].at = "granted"
    /\ jar' = [token |-> refresh[c].token, age |-> "fresh"]
    /\ Rests(c) /\ Unlocks(c)
    /\ UNCHANGED <<family, abandoned>>

\* 401: another context may have stored a pair meanwhile; otherwise the tab
\* logs out, after it has left the lock.
TabRefused(c) ==
    /\ refresh[c].at = "refused"
    /\ IF LoggedIn /\ jar.token # refresh[c].token /\ jar.age # "expired"
       THEN Rests(c)
       ELSE Leaving(c)
    /\ Unlocks(c)
    /\ UNCHANGED <<jar, family, abandoned>>

WorkerRefused(c) ==
    /\ refresh[c].at = "refused"
    /\ IF LoggedIn /\ jar.age # "expired"
       THEN Rests(c) /\ Unlocks(c)
       ELSE Leaving(c) /\ UNCHANGED webLock
    /\ UNCHANGED <<jar, family, abandoned>>

\* logout and clearTokens; the tab's is ignored when authGeneration has moved,
\* and a manual refresh does not log out.
ClearsPair(c) ==
    /\ refresh[c].at = "leaving"
    /\ \/ jar' = [token |-> NoRefresh, age |-> "fresh"]
       \/ c \in Tabs /\ UNCHANGED jar
    /\ Rests(c) /\ Unlocks(c)
    /\ UNCHANGED <<family, abandoned>>

\* A closed tab or a stopped worker: its lock is free, a request it waited for
\* is abandoned and an answer not yet stored is lost.
ContextCloses(c) ==
    /\ refresh[c].at # "idle"
    /\ IF refresh[c].at = "asking" THEN LeavesRequest(c) ELSE UNCHANGED abandoned
    /\ IF refresh[c].at = "granted"
       THEN LET sid == refresh[c].token.sid
            IN  Unheard(sid, family[sid].at, family[sid].turn)
       ELSE UNCHANGED family
    /\ Rests(c) /\ Unlocks(c)
    /\ UNCHANGED jar

WebTokensNext ==
    \/ \E s \in 1..MaxSessions : LogIn(s)
    \/ LogOut \/ ArrivesLate \/ \E age \in Ages : Ageing(age)
    \/ \E c \in Tabs : \/ \E force \in BOOLEAN : TabWants(c, force)
                       \/ TabLocks(c) \/ TabRetries(c) \/ TabRefused(c)
    \/ \E c \in Workers : WorkerWants(c) \/ WorkerLocks(c) \/ WorkerRefused(c)
    \/ \E c \in Everybody : \/ ServerAnswers(c) \/ Unanswered(c) \/ KeepsSession(c)
                            \/ StoresPair(c) \/ ClearsPair(c) \/ ContextCloses(c)

WebTokensSpec == WebTokensInit /\ [][WebTokensNext]_webTokenVars

-----------------------------------------------------------------------------
\* withRefreshLock "keeps the server's single-use refresh-token rotation safe":
\* the session whose tokens are stored is revoked only after the server handled
\* a request of it that nobody waited for - not because tabs and the service
\* worker refresh, log in and log out at the same time.
StoredSessionLives ==
    LoggedIn => LET s == family[jar.token.sid] IN s.at = "alive" \/ s.unheard
=============================================================================
