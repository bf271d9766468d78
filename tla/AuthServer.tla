------------------------------ MODULE AuthServer ------------------------------
(***************************************************************************)
(* Session tokens on the API.  A login mints a pair of tokens, access and  *)
(* refresh, that carry the login's session id (sid); a refresh exchanges   *)
(* the refresh token for the next pair of the same family.  The two tokens *)
(* of a pair are one value here, [sid, gen].  The token_blacklist table    *)
(* holds three kinds of rows: `spent` refresh tokens (jti:...), `revoked`  *)
(* families (sid:...) and the access tokens that logged out.               *)
(*                                                                         *)
(* A refresh is two steps: its checks read the table, and the token is     *)
(* spent and the next pair minted afterwards.  Two requests that present   *)
(* the same token may both be between the two.                             *)
(***************************************************************************)
EXTENDS Integers, FiniteSets

CONSTANTS
    MaxLogins,  \* bound: logins, each a family of tokens
    MaxGen,     \* bound: refreshes of one family
    MaxOpen,    \* bound: refresh requests the API handles at a time
    MaxEvents,  \* bound: expiries, suspensions, logouts elsewhere, failures, losses
    Strict,     \* STRICT_REFRESH_ROTATION
    None

ASSUME AuthServerAssumption ==
    /\ MaxLogins \in Nat /\ MaxGen \in Nat /\ MaxOpen \in Nat /\ MaxEvents \in Nat
    /\ Strict \in BOOLEAN

Sids == 1..MaxLogins

Slots == 1..MaxOpen

Token == [sid : Sids, gen : 0..MaxGen]

ASSUME NoneAssumption == None \notin [sid : Sids, gen : Nat]

VARIABLES
    minted,     \* pairs handed out
    lapsed,     \* pairs whose access token has expired
    dead,       \* pairs whose refresh token has expired
    spent,      \* jti rows
    revoked,    \* sid rows
    blacklist,  \* access tokens that logged out
    reused,     \* families with a refresh_token_reuse_detected audit event
    account,    \* the user
    slot,       \* refresh requests
    events      \* how many of the bounded events have happened

timeVars == <<lapsed, dead>>
rowVars == <<spent, revoked, blacklist, reused>>
tokenVars == <<minted, timeVars, rowVars, account>>
serverVars == <<tokenVars, slot, events>>

Account == {"active", "suspended"}

\* `pair`: what a granted refresh returns; `heard`: somebody still waits for
\* the reply.
Request == [ pc    : {"free", "received", "checked", "granted", "rejected", "failed"},
             token : Token \cup {None},
             pair  : Token \cup {None},
             heard : BOOLEAN ]

NoRequest == [pc |-> "free", token |-> None, pair |-> None, heard |-> FALSE]

ServerTypeOK ==
    /\ minted \subseteq Token
    /\ lapsed \subseteq minted
    /\ dead \subseteq lapsed
    /\ spent \subseteq minted
    /\ revoked \subseteq Sids
    /\ blacklist \subseteq minted
    /\ reused \subseteq revoked
    /\ account \in Account
    /\ slot \in [Slots -> Request]
    /\ events \in 0..MaxEvents

ServerInit ==
    /\ minted = {} /\ lapsed = {} /\ dead = {}
    /\ spent = {} /\ revoked = {} /\ blacklist = {} /\ reused = {}
    /\ account = "active"
    /\ slot = [s \in Slots |-> NoRequest]
    /\ events = 0

Event == events < MaxEvents /\ events' = events + 1

-----------------------------------------------------------------------------
(* Time and the administrator                                              *)

AccessLapses(t) ==
    /\ Event
    /\ t \in minted \ lapsed
    /\ lapsed' = lapsed \cup {t}
    /\ UNCHANGED <<minted, dead, rowVars, account, slot>>

RefreshLapses(t) ==
    /\ t \in lapsed \ dead
    /\ dead' = dead \cup {t}
    /\ UNCHANGED <<minted, lapsed, rowVars, account, slot, events>>

SetAccount(status) ==
    /\ Event
    /\ account # status
    /\ account' = status
    /\ UNCHANGED <<minted, timeVars, rowVars, slot>>

-----------------------------------------------------------------------------
(* Login, logout                                                           *)

Family(sid) == {t \in minted : t.sid = sid}

\* get_current_user
Accepted(t) ==
    /\ t \in minted \ (lapsed \cup blacklist)
    /\ t.sid \notin revoked
    /\ account = "active"

Login(sid) ==
    /\ Family(sid) = {}
    /\ \A earlier \in 1..(sid - 1) : Family(earlier) # {}
    /\ account = "active"
    /\ minted' = minted \cup {[sid |-> sid, gen |-> 0]}
    /\ UNCHANGED <<timeVars, rowVars, account, slot, events>>

\* The access token is blacklisted by one commit ...
LogoutToken(t) ==
    /\ Event
    /\ Accepted(t)
    /\ blacklist' = blacklist \cup {t}
    /\ UNCHANGED <<minted, timeVars, spent, revoked, reused, account, slot>>

\* ... and the family revoked by the next one, which may fail and answer 500.
LogoutFamily(t) ==
    /\ t \in blacklist
    /\ t.sid \notin revoked
    /\ revoked' = revoked \cup {t.sid}
    /\ UNCHANGED <<minted, timeVars, spent, blacklist, reused, account, slot, events>>

-----------------------------------------------------------------------------
(* Refresh                                                                 *)

\* The first free slot takes it.
RefreshArrives(s, t) ==
    /\ slot[s].pc = "free"
    /\ \A r \in Slots : slot[r].pc = "free" => s <= r
    /\ slot' = [slot EXCEPT ![s] = [pc |-> "received", token |-> t,
                                    pair |-> None, heard |-> TRUE]]

Answer(s, reply) == slot' = [slot EXCEPT ![s].pc = reply]

\* Rate limit, or any exception before the rotation.
RefreshFails(s) ==
    /\ Event
    /\ slot[s].pc = "received"
    /\ Answer(s, "failed")
    /\ UNCHANGED tokenVars

Unusable(t) == account # "active" \/ t \in dead \/ t.sid \in revoked

RefreshRefused(s) ==
    /\ slot[s].pc = "received"
    /\ Unusable(slot[s].token)
    /\ Answer(s, "rejected")
    /\ UNCHANGED <<tokenVars, events>>

IsReplay(t) == Strict /\ t \in spent

\* Faulty variant: the family is not revoked.
ReplayedNotRevoked(s) ==
    LET t == slot[s].token IN
    /\ slot[s].pc = "received"
    /\ ~ Unusable(t)
    /\ IsReplay(t)
    /\ reused' = reused \cup {t.sid}
    /\ Answer(s, "rejected")
    /\ UNCHANGED <<minted, timeVars, spent, revoked, blacklist, account, events>>

RefreshReplayed(s) ==
    LET t == slot[s].token IN
    /\ slot[s].pc = "received"
    /\ ~ Unusable(t)
    /\ IsReplay(t)
    /\ revoked' = revoked \cup {t.sid}
    /\ reused' = reused \cup {t.sid}
    /\ Answer(s, "rejected")
    /\ UNCHANGED <<minted, timeVars, spent, blacklist, account, events>>

\* Bound: what is being minted for a family stays within MaxGen.
RoomFor(sid) ==
    Cardinality(Family(sid))
        + Cardinality({s \in Slots : slot[s].pc = "checked" /\ slot[s].token.sid = sid}) <= MaxGen

RefreshChecked(s) ==
    LET t == slot[s].token IN
    /\ slot[s].pc = "received"
    /\ ~ Unusable(t)
    /\ ~ IsReplay(t)
    /\ RoomFor(t.sid)
    /\ slot' = [slot EXCEPT ![s].pc = "checked"]
    /\ UNCHANGED <<tokenVars, events>>

\* A second insert of the same jti row is tolerated.
RefreshRotates(s) ==
    LET t    == slot[s].token
        next == [sid |-> t.sid, gen |-> Cardinality(Family(t.sid))]
    IN /\ slot[s].pc = "checked"
       /\ spent' = IF Strict THEN spent \cup {t} ELSE spent
       /\ minted' = minted \cup {next}
       /\ slot' = [slot EXCEPT ![s].pc = "granted", ![s].pair = next]
       /\ UNCHANGED <<timeVars, revoked, blacklist, reused, account, events>>

\* The reply of a request nobody waits for any more.
RefreshUnheard(s) ==
    /\ slot[s].pc \in {"granted", "rejected", "failed"}
    /\ ~ slot[s].heard
    /\ slot' = [slot EXCEPT ![s] = NoRequest]
    /\ UNCHANGED <<tokenVars, events>>

ServerAnswers(s) ==
    \/ RefreshRefused(s)
    \/ RefreshReplayed(s)
    \/ RefreshChecked(s)
    \/ RefreshRotates(s)
    \/ RefreshUnheard(s)

ServerStep ==
    \/ \E t \in minted : \/ AccessLapses(t)
                         \/ RefreshLapses(t)
                         \/ LogoutToken(t)
                         \/ LogoutFamily(t)
    \/ \E status \in Account : SetAccount(status)
    \/ \E s \in Slots : ServerAnswers(s) \/ RefreshFails(s)
=============================================================================
