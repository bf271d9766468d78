------------------------------- MODULE Broadcast -------------------------------
(***************************************************************************)
(* Push registrations and the activity broadcast (push_routes,             *)
(* push_notifications, fcm_push).  Every upload ends by telling everybody  *)
(* else, at most once in twelve hours: a request that gets the advisory    *)
(* lock selects the recipients, inserts their notifications, commits       *)
(* (which releases the lock), sends, and removes the registrations         *)
(* Firebase calls stale.  UnifiedPush answers change nothing and are left  *)
(* out.  A request has its own transactions; each statement is a step.     *)
(***************************************************************************)
EXTENDS Integers, FiniteSets

CONSTANTS
    Owners,          \* users, each with a device
    Anon,           \* anonymous clients: registered keys of no user
    Second,         \* users with a second device
    Broadcasts,     \* uploads (and internal calls) that broadcast
    MaxTokens       \* bound: push tokens a device is given

ASSUME PushAssumption ==
    /\ Owners \cap Anon = {} /\ Second \subseteq Owners
    /\ "nobody" \notin Owners \cup Anon \cup Broadcasts
    /\ MaxTokens \in Nat \ {0}

Devices == (Owners \cup Anon) \X {1} \cup Second \X {2}
Recipient(d) == d[1]

NoToken == 0
NoLock == "nobody"

VARIABLES
    reg,        \* push_registrations: the token on record of each device
    live,       \* the token that reaches the device
    notes,      \* activity_broadcast rows of the last twelve hours
    lock,       \* the holder of the advisory lock
    bcast,      \* where each broadcast is
    originator, \* activity_originator_user_id
    picked,     \* the endpoints it selected
    stale,      \* the endpoints to unregister
    poke        \* the endpoint of a single push under way (send_push_to_client)

pushVars == <<reg, live, notes, lock, bcast, originator, picked, stale, poke>>

Endpoints == Devices \X (1..MaxTokens)
Phases == {"idle", "locked", "users", "picked", "committed", "answered", "done"}

PushTypeOK ==
    /\ reg \in [Devices -> 0..MaxTokens] /\ live \in [Devices -> 1..MaxTokens]
    /\ notes \in [Owners \cup Anon -> Nat]
    /\ lock \in Broadcasts \cup {NoLock}
    /\ bcast \in [Broadcasts -> Phases]
    /\ originator \in [Broadcasts -> Owners \cup {"nobody"}]
    /\ picked \in [Broadcasts -> SUBSET Endpoints]
    /\ stale \in [Broadcasts -> SUBSET Endpoints]
    /\ poke \in SUBSET Endpoints

PushInit ==
    /\ reg \in [Devices -> {NoToken, 1}] /\ live = [d \in Devices |-> 1]
    /\ notes = [r \in Owners \cup Anon |-> 0]
    /\ lock = NoLock /\ bcast = [b \in Broadcasts |-> "idle"]
    /\ originator = [b \in Broadcasts |-> "nobody"]
    /\ picked = [b \in Broadcasts |-> {}] /\ stale = [b \in Broadcasts |-> {}]
    /\ poke = {}

-----------------------------------------------------------------------------
(* Registrations                                                           *)

registrations == <<reg, live, notes, poke>>
requests == <<lock, bcast, originator, picked, stale>>

\* Deleting a registration deletes the notifications of an anonymous client.
Cascade(gone) ==
    notes' = [r \in DOMAIN notes |->
                IF r \in Anon /\ <<r, 1>> \in gone THEN 0 ELSE notes[r]]

Unregistered(gone) ==
    /\ reg' = [d \in Devices |-> IF d \in gone THEN NoToken ELSE reg[d]]
    /\ Cascade(gone)

Register(d) ==
    /\ reg[d] # live[d]
    /\ reg' = [reg EXCEPT ![d] = live[d]]
    /\ UNCHANGED <<live, notes, poke, requests>>

\* Only the user that owns the device's key may.
Unregister(d) ==
    /\ Recipient(d) \in Owners /\ reg[d] # NoToken
    /\ Unregistered({d})
    /\ UNCHANGED <<live, poke, requests>>

TokenRotates(d) ==
    /\ live[d] < MaxTokens
    /\ live' = [live EXCEPT ![d] = @ + 1]
    /\ UNCHANGED <<reg, notes, poke, requests>>

\* _unregister_stale_endpoints deletes by endpoint, not by device.
StaleRows(endpoints) == {d \in Devices : <<d, reg[d]>> \in endpoints}

\* Faulty variant: the rows of the devices the endpoints were read from.
StaleDevices(endpoints) == {d \in Devices : \E e \in endpoints : e[1] = d}
Gone(endpoints) == StaleRows(endpoints)

Dead(endpoints) == {e \in endpoints : e[2] # live[e[1]]}

PokeStarts(d) ==
    /\ poke = {} /\ reg[d] # NoToken
    /\ poke' = {<<d, reg[d]>>}
    /\ UNCHANGED <<reg, live, notes, requests>>

PokeAnswered ==
    /\ poke # {} /\ poke' = {}
    /\ Unregistered(Gone(Dead(poke)))
    /\ UNCHANGED <<live, requests>>

PokeFails ==
    /\ poke # {} /\ poke' = {}
    /\ UNCHANGED <<reg, live, notes, requests>>

-----------------------------------------------------------------------------
(* A broadcast                                                             *)

Step(b, from, to) == bcast[b] = from /\ bcast' = [bcast EXCEPT ![b] = to]

LockGranted == lock = NoLock

\* Faulty variant: every caller gets the lock.
LockIgnored == TRUE

LockFree == LockGranted

Begins(b, o) ==
    /\ LockFree /\ Step(b, "idle", "locked")
    /\ lock' = b /\ originator' = [originator EXCEPT ![b] = o]
    /\ UNCHANGED <<picked, stale, registrations>>

Skips(b) ==
    /\ ~ LockFree /\ Step(b, "idle", "done")
    /\ UNCHANGED <<lock, originator, picked, stale, registrations>>

Recent == {r \in DOMAIN notes : notes[r] > 0}

\* NOT IN over a column with a NULL selects nothing, and the rows of clients
\* have no user_id as those of users have no client_key_id.
NotRecent(among) ==
    IF Recent \subseteq among THEN among \ Recent ELSE {}

EndpointsOf(who) ==
    {<<d, reg[d]>> : d \in {x \in Devices : Recipient(x) \in who /\ reg[x] # NoToken}}

SelectUsers(b) ==
    /\ Step(b, "locked", "users")
    /\ picked' = [picked EXCEPT ![b] = EndpointsOf(NotRecent(Owners) \ {originator[b]})]
    /\ UNCHANGED <<lock, originator, stale, registrations>>

SelectClients(b) ==
    /\ Step(b, "users", "picked")
    /\ picked' = [picked EXCEPT ![b] = @ \cup EndpointsOf(NotRecent(Anon))]
    /\ UNCHANGED <<lock, originator, stale, registrations>>

Told(b) == {Recipient(e[1]) : e \in picked[b]}

\* A notification of a client refers to its registration.
References(b) == \A r \in Told(b) \cap Anon : reg[<<r, 1>>] # NoToken

Commit(b) ==
    /\ References(b) /\ Step(b, "picked", "committed")
    /\ notes' = [r \in DOMAIN notes |-> IF r \in Told(b) THEN notes[r] + 1 ELSE notes[r]]
    /\ lock' = NoLock
    /\ UNCHANGED <<originator, picked, stale, reg, live, poke>>

Forget(b) ==
    /\ originator' = [originator EXCEPT ![b] = "nobody"]
    /\ picked' = [picked EXCEPT ![b] = {}] /\ stale' = [stale EXCEPT ![b] = {}]

\* The insert fails, or the process dies: the transaction is rolled back.
Abandons(b) ==
    /\ bcast[b] \in {"locked", "users", "picked"}
    /\ bcast' = [bcast EXCEPT ![b] = "done"]
    /\ lock' = NoLock /\ Forget(b)
    /\ UNCHANGED registrations

\* Firebase answers for each token, or the batch fails as a whole.
Sends(b) ==
    /\ Step(b, "committed", "answered")
    /\ stale' = [stale EXCEPT ![b] = Dead(picked[b])]
    /\ picked' = [picked EXCEPT ![b] = {}]
    /\ UNCHANGED <<lock, originator, registrations>>

SendFails(b) ==
    /\ Step(b, "committed", "done")
    /\ Forget(b)
    /\ UNCHANGED <<lock, registrations>>

CleansUp(b) ==
    /\ Step(b, "answered", "done")
    /\ Unregistered(Gone(stale[b]))
    /\ Forget(b)
    /\ UNCHANGED <<lock, live, poke>>

\* Twelve hours pass; a broadcast takes seconds.
TwelveHours ==
    /\ \A b \in Broadcasts : bcast[b] \in {"idle", "done"}
    /\ Recent # {}
    /\ notes' = [r \in DOMAIN notes |-> 0]
    /\ UNCHANGED <<reg, live, poke, requests>>

PushNext ==
    \/ \E d \in Devices :
        \/ Register(d) \/ Unregister(d) \/ TokenRotates(d) \/ PokeStarts(d)
    \/ PokeAnswered \/ PokeFails
    \/ \E b \in Broadcasts :
        \/ \E o \in Owners \cup {"nobody"} : Begins(b, o)
        \/ Skips(b) \/ SelectUsers(b) \/ SelectClients(b)
        \/ Commit(b) \/ Abandons(b) \/ Sends(b) \/ SendFails(b) \/ CleansUp(b)
    \/ TwelveHours

PushSpec == PushInit /\ [][PushNext]_pushVars

-----------------------------------------------------------------------------
(* Properties                                                              *)

\* Concurrent uploads never notify anyone twice within twelve hours: the
\* advisory lock covers the selection and the insert until the commit.
NotifiedOnce == \A r \in DOMAIN notes : notes[r] <= 1

\* The registration of a device whose token works is removed only on its own
\* request: a push that was answered "stale" while the device registered its
\* next token does not take the new registration with it.
CleanupSparesLive ==
    [][\A d \in Devices :
         reg[d] = live[d] /\ reg'[d] = NoToken => Unregister(d)]_pushVars

\* send_activity_broadcast_notification: "Send an activity broadcast
\* notification to all users and all anonymous clients.  Filters out users who
\* got notified in the last 12 hours."
EveryoneDueIsPicked ==
    [][\A b \in Broadcasts : SelectUsers(b) =>
         EndpointsOf(Owners \ (Recent \cup {originator[b]})) \subseteq picked'[b]]_pushVars
=============================================================================
