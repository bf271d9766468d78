------------------------------ MODULE OAuthLogin ------------------------------
(***************************************************************************)
(* Logins with an account of Google or GitHub (user_routes).  A browser    *)
(* flow is bound to a polling session by a nonce that is used once; its    *)
(* callback finds or creates the account and puts the tokens into the      *)
(* session, from where the app's poll takes them.  A native login and a    *)
(* registration share the accounts.  The requests run on one event loop:   *)
(* what lies between two awaits is one step.                               *)
(***************************************************************************)
EXTENDS Integers, FiniteSets

CONSTANTS
    Logins,         \* login and registration requests, browser flows included
    Identities,     \* verified people; the e-mails share their local part
    Sessions,       \* polling session ids
    Polls,          \* requests of /auth/oauth-status
    MaxSuffix       \* bound: the number appended to a user name

ASSUME OAuthAssumption ==
    /\ IsFiniteSet(Logins) /\ IsFiniteSet(Identities)
    /\ "nothing" \notin Logins \cup Identities \cup Sessions
    /\ MaxSuffix \in Nat

Nothing == "nothing"
NoAccount == -1

VARIABLES
    account,    \* users: the suffix of the account's name
    login,      \* where each request is
    session,    \* oauth_sessions
    poll,       \* polls that have read tokens and are being audited
    handed      \* history: answers that carried the tokens of a login

oauthVars == <<account, login, session, poll, handed>>

LoginRecord ==
    [at : {"idle", "browser", "match", "naming", "insert", "tokens", "conflict", "done"},
     who : Identities \cup {Nothing}, polling : Sessions \cup {Nothing},
     suffix : 0..MaxSuffix, raced : BOOLEAN]

SessionRecord ==
    [status : {"unused", "pending", "completed", "gone"},
     tokens : Logins \cup {Nothing}, expired : BOOLEAN]

PollRecord == [session : Sessions \cup {Nothing}, tokens : Logins \cup {Nothing}]

NoLogin == [at |-> "idle", who |-> Nothing, polling |-> Nothing, suffix |-> 0, raced |-> FALSE]

NoPoll == [session |-> Nothing, tokens |-> Nothing]

OAuthTypeOK ==
    /\ account \in [Identities -> {NoAccount} \cup 0..MaxSuffix]
    /\ login \in [Logins -> LoginRecord]
    /\ session \in [Sessions -> SessionRecord]
    /\ poll \in [Polls -> PollRecord]
    /\ handed \in [Logins -> Nat]

OAuthInit ==
    /\ account \in [Identities -> {NoAccount, 0}]
    /\ \A i, j \in Identities : account[i] = 0 /\ account[j] = 0 => i = j
    /\ login = [l \in Logins |-> NoLogin]
    /\ session = [s \in Sessions |->
                    [status |-> "unused", tokens |-> Nothing, expired |-> FALSE]]
    /\ poll = [p \in Polls |-> NoPoll]
    /\ handed = [l \in Logins |-> 0]

-----------------------------------------------------------------------------
(* Polling sessions                                                        *)

Lapsed == [status |-> "gone", tokens |-> Nothing, expired |-> FALSE]

Exists(s) == session[s].status \in {"pending", "completed"}

Unexpired == [s \in Sessions |-> IF session[s].expired THEN Lapsed ELSE session[s]]

Unused == {s \in Sessions : session[s].status = "unused"}

\* uuid4: an id that was never used, whichever.
FreshId == CHOOSE s \in Unused : TRUE

create_oauth_session ==
    /\ Unused # {}
    /\ session' = [session EXCEPT ![FreshId].status = "pending"]
    /\ UNCHANGED <<account, login, poll, handed>>

SessionExpires(s) ==
    /\ Exists(s) /\ ~ session[s].expired
    /\ session' = [session EXCEPT ![s].expired = TRUE]
    /\ UNCHANGED <<account, login, poll, handed>>

cleanup_expired_sessions ==
    /\ session # Unexpired
    /\ session' = Unexpired
    /\ UNCHANGED <<account, login, poll, handed>>

-----------------------------------------------------------------------------
(* Logins                                                                  *)

GoTo(l, place) == login' = [login EXCEPT ![l].at = place]

Ends(l) == login' = [login EXCEPT ![l] = [NoLogin EXCEPT !.at = "done"]]

Taken(n) == \E i \in Identities : account[i] = n

\* The nonce binds the browser flow to the session.
oauth_redirect(l, i, s) ==
    /\ login[l].at = "idle"
    /\ session[s].status # "unused"
    /\ login' = [login EXCEPT ![l] = [@ EXCEPT !.at = "browser", !.who = i, !.polling = s]]
    /\ UNCHANGED <<account, session, poll, handed>>

\* consume_oauth_state; what follows, up to the query for the account, may fail.
oauth_callback(l) ==
    /\ login[l].at = "browser"
    /\ GoTo(l, "match")
    /\ UNCHANGED <<account, session, poll, handed>>

google_native_login(l, i) ==
    /\ login[l].at = "idle"
    /\ login' = [login EXCEPT ![l] = [@ EXCEPT !.at = "match", !.who = i]]
    /\ UNCHANGED <<account, session, poll, handed>>

\* The flow is abandoned, its nonce expires, or the provider refuses.
LoginFails(l) ==
    /\ login[l].at \in {"browser", "match"}
    /\ Ends(l)
    /\ UNCHANGED <<account, session, poll, handed>>

MatchAccount(l) ==
    /\ login[l].at = "match"
    /\ GoTo(l, IF account[login[l].who] = NoAccount THEN "naming" ELSE "tokens")
    /\ UNCHANGED <<account, session, poll, handed>>

\* Faulty variant: the name is not compared with those in use.
FirstName(l) == TRUE

NameIsFree(l) == ~ Taken(login[l].suffix)

PickName(l) ==
    /\ login[l].at = "naming"
    /\ IF NameIsFree(l)
         THEN GoTo(l, "insert")
         ELSE /\ login[l].suffix < MaxSuffix
              /\ login' = [login EXCEPT ![l].suffix = @ + 1]
    /\ UNCHANGED <<account, session, poll, handed>>

register_user(l, i) ==
    /\ login[l].at = "idle"
    /\ login' = [login EXCEPT ![l] =
                   IF account[i] # NoAccount \/ Taken(0)
                     THEN [@ EXCEPT !.at = "done"]
                     ELSE [@ EXCEPT !.at = "insert", !.who = i]]
    /\ UNCHANGED <<account, session, poll, handed>>

\* Users' names and e-mails are unique: the later of two inserts is a 500.
InsertAccount(l) ==
    LET i == login[l].who IN
    /\ login[l].at = "insert"
    /\ IF account[i] = NoAccount /\ ~ Taken(login[l].suffix)
         THEN /\ account' = [account EXCEPT ![i] = login[l].suffix]
              /\ login' = [k \in Logins |->
                             CASE k = l -> [login[l] EXCEPT !.at = "tokens"]
                               [] k # l /\ login[k].at \in {"naming", "insert"} ->
                                    [login[k] EXCEPT !.raced = TRUE]
                               [] OTHER -> login[k]]
         ELSE UNCHANGED account /\ GoTo(l, "conflict")
    /\ UNCHANGED <<session, poll, handed>>

Completed(l) == [status |-> "completed", tokens |-> l, expired |-> FALSE]

\* The callback: the session of the flow gets the tokens and keeps its expiry;
\* one that was cleaned up is replaced by a new one, announced by a deep link.
TokensStored(l) ==
    LET s == login[l].polling IN
    /\ login[l].at = "tokens"
    /\ s # Nothing
    /\ \/ /\ Unexpired[s].status \in {"pending", "completed"}
          /\ session' = [Unexpired EXCEPT ![s] = Completed(l)]
       \/ /\ Unexpired[s] = Lapsed
          /\ Unused # {}
          /\ session' = [Unexpired EXCEPT ![FreshId] = Completed(l)]
    /\ Ends(l)
    /\ UNCHANGED <<account, poll, handed>>

\* A native login is answered with its tokens.
TokensReturned(l) ==
    /\ login[l].at = "tokens"
    /\ login[l].polling = Nothing
    /\ Ends(l)
    /\ UNCHANGED <<account, session, poll, handed>>

-----------------------------------------------------------------------------
(* The app's poll                                                          *)

get_oauth_status(p, s) ==
    /\ poll[p] = NoPoll
    /\ Unexpired[s].status = "completed"
    /\ session' = Unexpired
    /\ poll' = [poll EXCEPT ![p] = [session |-> s, tokens |-> session[s].tokens]]
    /\ UNCHANGED <<account, login, handed>>

\* Faulty variant: a session that is gone is no error.
PopDefault(p) == TRUE

DelSucceeds(p) == Exists(poll[p].session)

\* After the audit the session is deleted: a KeyError if it is gone, and no
\* tokens for this poll.
PollAnswered(p) ==
    /\ poll[p] # NoPoll
    /\ DelSucceeds(p)
    /\ session' = [session EXCEPT ![poll[p].session] = Lapsed]
    /\ handed' = [handed EXCEPT ![poll[p].tokens] = @ + 1]
    /\ poll' = [poll EXCEPT ![p] = NoPoll]
    /\ UNCHANGED <<account, login>>

PollFails(p) ==
    /\ poll[p] # NoPoll
    /\ ~ DelSucceeds(p)
    /\ poll' = [poll EXCEPT ![p] = NoPoll]
    /\ UNCHANGED <<account, login, session, handed>>

OAuthNext ==
    \/ create_oauth_session
    \/ \E s \in Sessions : SessionExpires(s)
    \/ cleanup_expired_sessions
    \/ \E l \in Logins :
        \/ \E i \in Identities :
            \/ \E s \in Sessions : oauth_redirect(l, i, s)
            \/ google_native_login(l, i) \/ register_user(l, i)
        \/ oauth_callback(l) \/ LoginFails(l) \/ MatchAccount(l) \/ PickName(l)
        \/ InsertAccount(l) \/ TokensStored(l) \/ TokensReturned(l)
    \/ \E p \in Polls :
        \/ \E s \in Sessions : get_oauth_status(p, s)
        \/ PollAnswered(p) \/ PollFails(p)

OAuthSpec == OAuthInit /\ [][OAuthNext]_oauthVars

-----------------------------------------------------------------------------
(* Properties                                                              *)

\* The tokens of a login leave the server in at most one answer, however
\* polls, cleanups and a second flow on the same session overlap.
HandedOutOnce == \A l \in Logins : handed[l] <= 1

\* A login or registration fails on the uniqueness of accounts only if another
\* account was created while it was under way: repeating it succeeds.
ConflictNeedsRace == \A l \in Logins : login[l].at = "conflict" => login[l].raced
=============================================================================
