----------------------------- MODULE BackendProofs -----------------------------
(***************************************************************************)
(* Safety of the components of the API, for every value of the constants.  *)
(* Each part names the inductive invariant of one component, shows that    *)
(* every step keeps it, and draws the theorem from it.                     *)
(***************************************************************************)
EXTENDS TokenBucket, Broadcast, OAuthLogin, Accounts, Marks, RateLimits, Annotations, MapillaryStream,
        Listings, FiniteSetTheorems, TLAPS

-----------------------------------------------------------------------------
(* The token bucket: what an exact bucket holds is never less than the      *)
(* tokens on record and the time not yet turned into tokens.                *)

BucketInv ==
    /\ BucketTypeOK
    /\ exact >= AtMost(Full, tokens * Period + since)

LEMMA FullIsNat == Full \in Nat /\ Period \in Nat /\ BucketSize \in Nat
  BY BucketAssumption DEF Full

\* Whole periods never make more than the time they are made of.
LEMMA RefillIsCovered ==
    ASSUME NEW s \in Nat, NEW n \in 0..BucketSize
    PROVE  LET r == AtMost(BucketSize, n + s \div Period) IN
           r \in 0..BucketSize /\ r * Period <= AtMost(Full, n * Period + s)
<1> DEFINE q == s \div Period
           r == AtMost(BucketSize, n + q)
<1>1. q \in Nat /\ q * Period <= s
  BY BucketAssumption
<1>2. n \in Nat /\ Period \in Nat /\ BucketSize \in Nat
  BY BucketAssumption
<1> HIDE DEF q
<1>3. r \in 0..BucketSize /\ r <= n + q /\ r <= BucketSize
  BY <1>1, <1>2 DEF AtMost
<1> HIDE DEF r
<1>4. r * Period <= (n + q) * Period
  BY <1>1, <1>2, <1>3
<1>5. (n + q) * Period = n * Period + q * Period
  BY <1>1, <1>2
<1>6. r * Period <= BucketSize * Period
  BY <1>1, <1>2, <1>3
<1>7. n * Period \in Nat /\ q * Period \in Nat /\ r * Period \in Nat
  BY <1>1, <1>2, <1>3
<1>8. r * Period <= AtMost(Full, n * Period + s)
  BY <1>1, <1>2, <1>4, <1>5, <1>6, <1>7 DEF AtMost, Full
<1>9. QED
  BY <1>3, <1>8 DEF r, q

LEMMA BucketInitEstablishes == BucketInit => BucketInv
<1> SUFFICES ASSUME BucketInit PROVE BucketInv
  OBVIOUS
<1>1. BucketSize \in Nat /\ Period \in Nat /\ Full \in Nat
  BY FullIsNat
<1>2. tokens * Period + since = Full
  BY <1>1 DEF BucketInit, Full
<1>3. QED
  BY <1>1, <1>2 DEF BucketInit, BucketInv, BucketTypeOK, AtMost, Away

LEMMA AcquireKeeps ==
    ASSUME BucketInv, NEW w \in Waiters, acquire(w)
    PROVE  BucketInv'
<1>1. /\ tokens \in 0..BucketSize /\ since \in Nat /\ exact \in Int
      /\ waiter \in [Waiters -> Away..Period]
      /\ BucketSize \in Nat /\ Period \in Nat /\ Full \in Nat
  BY FullIsNat DEF BucketInv, BucketTypeOK
<1>2. Refilled \in 0..BucketSize /\ Refilled * Period <= exact
  <2>1. /\ Refilled \in 0..BucketSize
        /\ Refilled * Period <= AtMost(Full, tokens * Period + since)
    BY <1>1, RefillIsCovered DEF Refilled
  <2>2. Refilled * Period \in Int /\ tokens * Period \in Int
    BY <1>1, <2>1
  <2>3. QED
    BY <1>1, <2>1, <2>2 DEF BucketInv, AtMost
<1>3. since' = 0
  BY DEF acquire, LastRefill
<1>4. CASE Refilled > 0
  <2>1. tokens' = Refilled - 1 /\ exact' = exact - Period
    BY <1>4 DEF acquire
  <2>2. (Refilled - 1) * Period = Refilled * Period - Period
    BY <1>1, <1>2
  <2>3. Refilled * Period \in Int /\ tokens' * Period \in Int
    BY <1>1, <1>2, <2>1
  <2>4. exact' >= AtMost(Full, tokens' * Period + since')
    BY <1>1, <1>2, <1>3, <2>1, <2>2, <2>3 DEF AtMost
  <2>5. waiter' \in [Waiters -> Away..Period]
    BY <1>1, <1>4 DEF acquire, Away
  <2>6. QED
    BY <1>1, <1>2, <1>3, <1>4, <2>1, <2>4, <2>5 DEF BucketInv, BucketTypeOK, Full
<1>5. CASE ~ (Refilled > 0)
  <2>1. tokens' = Refilled /\ exact' = exact
    BY <1>5 DEF acquire
  <2>2. exact' >= AtMost(Full, tokens' * Period + since')
    BY <1>1, <1>2, <1>3, <2>1 DEF AtMost
  <2>3. waiter' \in [Waiters -> Away..Period]
    BY <1>1, <1>5 DEF acquire, Away
  <2>4. QED
    BY <1>1, <1>2, <1>3, <2>1, <2>2, <2>3 DEF BucketInv, BucketTypeOK, Full
<1>6. QED
  BY <1>4, <1>5

LEMMA TickKeeps ==
    ASSUME BucketInv, Tick
    PROVE  BucketInv'
<1>1. /\ tokens \in 0..BucketSize /\ since \in 0..Full /\ exact \in Int
      /\ waiter \in [Waiters -> Away..Period]
      /\ BucketSize \in Nat /\ Period \in Nat /\ Full \in Nat
  BY FullIsNat DEF BucketInv, BucketTypeOK
<1>2. /\ since' = AtMost(Full, since + 1) /\ exact' = AtMost(Full, exact + 1)
      /\ tokens' = tokens
  BY DEF Tick
<1>3. tokens * Period \in Int
  BY <1>1
<1>4. exact' >= AtMost(Full, tokens' * Period + since')
  BY <1>1, <1>2, <1>3 DEF BucketInv, AtMost
<1>5. waiter' \in [Waiters -> Away..Period]
  BY <1>1 DEF Tick, Away
<1>6. QED
  BY <1>1, <1>2, <1>4, <1>5 DEF BucketInv, BucketTypeOK, AtMost

\* The cap on calls to Mapillary holds for any bucket size, refill period,
\* number of waiters and arrival times.
THEOREM RateIsHeld == BucketSpec => []RateHeld
<1>1. BucketInit => BucketInv
  BY BucketInitEstablishes
<1>2. BucketInv /\ [BucketNext]_bucketVars => BucketInv'
  <2> SUFFICES ASSUME BucketInv, [BucketNext]_bucketVars PROVE BucketInv'
    OBVIOUS
  <2>1. ASSUME NEW w \in Waiters, Arrives(w) PROVE BucketInv'
    <3>1. waiter' \in [Waiters -> Away..Period]
      BY <2>1, FullIsNat DEF Arrives, BucketInv, BucketTypeOK, Away
    <3>2. QED
      BY <2>1, <3>1 DEF Arrives, BucketInv, BucketTypeOK
  <2>2. CASE UNCHANGED bucketVars
    BY <2>2 DEF bucketVars, BucketInv, BucketTypeOK
  <2>3. QED
    BY <2>1, <2>2, AcquireKeeps, TickKeeps DEF BucketNext
<1>3. BucketInv => RateHeld
  <2> SUFFICES ASSUME BucketInv PROVE RateHeld
    OBVIOUS
  <2>1. tokens * Period \in Nat /\ since \in Nat /\ Full \in Nat /\ exact \in Int
    BY FullIsNat DEF BucketInv, BucketTypeOK
  <2>2. QED
    BY <2>1 DEF BucketInv, RateHeld, AtMost
<1>4. QED
  BY <1>1, <1>2, <1>3, PTL DEF BucketSpec

-----------------------------------------------------------------------------
(* The broadcast, its lock: who holds it is between the selection and the  *)
(* commit, and whoever was selected has not been notified since.           *)

Selecting(b) == bcast[b] \in {"locked", "users", "picked"}

LockInv ==
    /\ bcast \in [Broadcasts -> Phases]
    /\ notes \in [Owners \cup Anon -> Nat]
    /\ DOMAIN picked = Broadcasts
    /\ \A b \in Broadcasts : Selecting(b) => lock = b
    /\ \A b \in Broadcasts : bcast[b] \in {"users", "picked"} =>
          Told(b) \subseteq {r \in Owners \cup Anon : notes[r] = 0}
    /\ NotifiedOnce

\* Notifications that are only ever taken away disturb nothing.
LEMMA NotesVanish ==
    ASSUME LockInv, UNCHANGED requests, notes' \in [Owners \cup Anon -> Nat],
           \A r \in Owners \cup Anon : notes'[r] \in {0, notes[r]}
    PROVE  LockInv'
  BY DEF LockInv, requests, Selecting, Told, NotifiedOnce

LEMMA CascadeVanishes ==
    ASSUME LockInv, NEW gone, Cascade(gone)
    PROVE  /\ notes' \in [Owners \cup Anon -> Nat]
           /\ \A r \in Owners \cup Anon : notes'[r] \in {0, notes[r]}
  BY DEF LockInv, Cascade

\* A recipient that the query returns has no recent notification.
LEMMA NotRecentIsDue ==
    ASSUME LockInv, NEW who \in SUBSET (Owners \cup Anon)
    PROVE  /\ NotRecent(who) \subseteq {r \in Owners \cup Anon : notes[r] = 0}
           /\ \A picks \in SUBSET NotRecent(who) :
                {Recipient(e[1]) : e \in EndpointsOf(picks)} \subseteq picks
<1>1. \A r \in who \ Recent : notes[r] = 0
  BY DEF LockInv, Recent
<1>2. QED
  BY <1>1 DEF NotRecent, EndpointsOf

LEMMA BeginsKeeps ==
    ASSUME LockInv, NEW b \in Broadcasts, NEW o, Begins(b, o)
    PROVE  LockInv'
<1>1. \A k \in Broadcasts : ~ Selecting(k)
  BY PushAssumption DEF LockInv, Begins, LockFree, LockGranted, NoLock
<1>2. /\ bcast' = [bcast EXCEPT ![b] = "locked"] /\ lock' = b
      /\ UNCHANGED <<picked, notes>>
  BY DEF Begins, Step, registrations
<1>3. bcast' \in [Broadcasts -> Phases]
  BY <1>2 DEF LockInv, Phases
<1>4. \A k \in Broadcasts : Selecting(k)' => k = b
  BY <1>1, <1>2 DEF LockInv, Selecting
<1>5. \A k \in Broadcasts : bcast'[k] \notin {"users", "picked"}
  BY <1>1, <1>2 DEF LockInv, Selecting
<1>6. QED
  BY <1>2, <1>3, <1>4, <1>5 DEF LockInv, NotifiedOnce

\* A step of the holder that leaves the notifications alone.
LEMMA HolderGoesOn ==
    ASSUME LockInv, NEW b \in Broadcasts, Selecting(b), NEW to \in Phases,
           bcast' = [bcast EXCEPT ![b] = to], UNCHANGED <<lock, notes>>,
           DOMAIN picked' = Broadcasts,
           \A k \in Broadcasts \ {b} : picked'[k] = picked[k],
           Told(b)' \subseteq {r \in Owners \cup Anon : notes[r] = 0}
    PROVE  LockInv'
<1>1. bcast' \in [Broadcasts -> Phases]
  BY DEF LockInv
<1>2. \A k \in Broadcasts : Selecting(k)' => lock' = k
  BY DEF LockInv, Selecting
<1>3. \A k \in Broadcasts : bcast'[k] \in {"users", "picked"} =>
         Told(k)' \subseteq {r \in Owners \cup Anon : notes[r] = 0}
  <2> SUFFICES ASSUME NEW k \in Broadcasts, bcast'[k] \in {"users", "picked"}
               PROVE  Told(k)' \subseteq {r \in Owners \cup Anon : notes[r] = 0}
    OBVIOUS
  <2>1. CASE k = b
    BY <2>1
  <2>2. CASE k # b
    <3>1. Told(k)' = Told(k) /\ bcast'[k] = bcast[k]
      BY <2>2 DEF Told, LockInv
    <3>2. QED
      BY <3>1 DEF LockInv
  <2>3. QED
    BY <2>1, <2>2
<1>4. QED
  BY <1>1, <1>2, <1>3 DEF LockInv, NotifiedOnce

LEMMA SelectsKeep ==
    ASSUME LockInv, NEW b \in Broadcasts, SelectUsers(b) \/ SelectClients(b)
    PROVE  LockInv'
<1>1. CASE SelectUsers(b)
  <2>1. /\ Selecting(b) /\ bcast' = [bcast EXCEPT ![b] = "users"] /\ UNCHANGED <<lock, notes>>
        /\ picked'[b] = EndpointsOf(NotRecent(Owners) \ {originator[b]})
        /\ DOMAIN picked' = Broadcasts
        /\ \A k \in Broadcasts \ {b} : picked'[k] = picked[k]
    BY <1>1 DEF SelectUsers, Step, Selecting, registrations, LockInv
  <2>2. Told(b)' \subseteq {r \in Owners \cup Anon : notes[r] = 0}
    BY <2>1, NotRecentIsDue DEF Told
  <2>3. QED
    BY <2>1, <2>2, HolderGoesOn DEF Phases
<1>2. CASE SelectClients(b)
  <2>1. /\ Selecting(b) /\ bcast' = [bcast EXCEPT ![b] = "picked"] /\ UNCHANGED <<lock, notes>>
        /\ picked'[b] = picked[b] \cup EndpointsOf(NotRecent(Anon))
        /\ DOMAIN picked' = Broadcasts
        /\ \A k \in Broadcasts \ {b} : picked'[k] = picked[k]
    BY <1>2 DEF SelectClients, Step, Selecting, registrations, LockInv
  <2>2. Told(b) \subseteq {r \in Owners \cup Anon : notes[r] = 0}
    BY <1>2 DEF SelectClients, Step, LockInv
  <2>3. Told(b)' = Told(b) \cup {Recipient(e[1]) : e \in EndpointsOf(NotRecent(Anon))}
    BY <2>1 DEF Told
  <2>4. Told(b)' \subseteq {r \in Owners \cup Anon : notes[r] = 0}
    BY <2>2, <2>3, NotRecentIsDue
  <2>5. QED
    BY <2>1, <2>4, HolderGoesOn DEF Phases
<1>3. QED
  BY <1>1, <1>2

\* After the holder's step nobody is selecting any more.
LEMMA HolderLeaves ==
    ASSUME LockInv, NEW b \in Broadcasts, Selecting(b), NEW to \in {"committed", "done"},
           bcast' = [bcast EXCEPT ![b] = to], DOMAIN picked' = Broadcasts,
           notes' \in [Owners \cup Anon -> Nat], NotifiedOnce'
    PROVE  LockInv'
<1>1. \A k \in Broadcasts : ~ Selecting(k)'
  BY DEF LockInv, Selecting
<1>2. bcast' \in [Broadcasts -> Phases]
  BY DEF LockInv, Phases
<1>3. \A k \in Broadcasts : bcast'[k] \notin {"users", "picked"}
  BY <1>1 DEF Selecting
<1>4. QED
  BY <1>1, <1>2, <1>3 DEF LockInv

LEMMA CommitKeeps ==
    ASSUME LockInv, NEW b \in Broadcasts, Commit(b)
    PROVE  LockInv'
<1>1. /\ Selecting(b) /\ bcast' = [bcast EXCEPT ![b] = "committed"] /\ picked' = picked
      /\ Told(b) \subseteq {r \in Owners \cup Anon : notes[r] = 0}
  BY DEF Commit, Step, Selecting, LockInv
<1>2. /\ notes' \in [Owners \cup Anon -> Nat]
      /\ \A r \in Owners \cup Anon :
            notes'[r] = IF r \in Told(b) THEN notes[r] + 1 ELSE notes[r]
  BY DEF Commit, LockInv
<1>3. NotifiedOnce'
  BY <1>1, <1>2 DEF NotifiedOnce, LockInv
<1>4. QED
  BY <1>1, <1>2, <1>3, HolderLeaves DEF LockInv

\* A broadcast outside its critical section.
LEMMA OutsideKeeps ==
    ASSUME LockInv, NEW b \in Broadcasts, ~ Selecting(b),
           NEW to \in Phases \ {"locked", "users", "picked"},
           bcast' = [bcast EXCEPT ![b] = to], UNCHANGED lock,
           DOMAIN picked' = Broadcasts,
           \A k \in Broadcasts \ {b} : picked'[k] = picked[k],
           notes' \in [Owners \cup Anon -> Nat],
           \A r \in Owners \cup Anon : notes'[r] \in {0, notes[r]}
    PROVE  LockInv'
<1>1. bcast' \in [Broadcasts -> Phases] /\ ~ Selecting(b)'
  BY DEF LockInv, Selecting
<1>2. \A k \in Broadcasts \ {b} : bcast'[k] = bcast[k] /\ Told(k)' = Told(k)
  BY DEF LockInv, Told
<1>3. NotifiedOnce'
  BY DEF LockInv, NotifiedOnce
<1>4. QED
  BY <1>1, <1>2, <1>3 DEF LockInv, Selecting

LEMMA PushStepKeeps ==
    ASSUME LockInv, NEW b \in Broadcasts,
           Skips(b) \/ Abandons(b) \/ Sends(b) \/ SendFails(b) \/ CleansUp(b)
    PROVE  LockInv'
<1>1. DOMAIN picked' = Broadcasts /\ \A k \in Broadcasts \ {b} : picked'[k] = picked[k]
  BY DEF Skips, Abandons, Sends, SendFails, CleansUp, Forget, LockInv
<1>2. CASE Abandons(b)
  BY <1>1, <1>2, HolderLeaves
     DEF Abandons, Selecting, registrations, LockInv, NotifiedOnce
<1>3. CASE CleansUp(b)
  BY <1>1, <1>3, CascadeVanishes, OutsideKeeps
     DEF CleansUp, Step, Unregistered, Selecting, Phases
<1>4. CASE Skips(b) \/ Sends(b) \/ SendFails(b)
  <2>1. UNCHANGED <<lock, notes>> /\ ~ Selecting(b)
    BY <1>4 DEF Skips, Sends, SendFails, Step, Selecting, registrations
  <2>2. PICK to \in {"answered", "done"} : bcast' = [bcast EXCEPT ![b] = to]
    BY <1>4 DEF Skips, Sends, SendFails, Step
  <2>3. QED
    BY <1>1, <2>1, <2>2, OutsideKeeps DEF Phases, LockInv
<1>5. QED
  BY <1>2, <1>3, <1>4

LEMMA RegistrationKeeps ==
    ASSUME LockInv,
           \/ \E d \in Devices :
                Register(d) \/ Unregister(d) \/ TokenRotates(d) \/ PokeStarts(d)
           \/ PokeAnswered \/ PokeFails
    PROVE  LockInv'
<1>1. UNCHANGED requests
  BY DEF Register, Unregister, TokenRotates, PokeStarts, PokeAnswered, PokeFails
<1>2. notes' = notes \/ \E gone : Cascade(gone)
  BY DEF Register, Unregister, TokenRotates, PokeStarts, PokeAnswered, PokeFails, Unregistered
<1>3. QED
  BY <1>1, <1>2, CascadeVanishes, NotesVanish DEF LockInv

LEMMA TwelveHoursKeeps ==
    ASSUME LockInv, TwelveHours
    PROVE  LockInv'
<1>1. UNCHANGED requests /\ notes' = [r \in Owners \cup Anon |-> 0]
  BY DEF TwelveHours, LockInv
<1>2. QED
  BY <1>1, NotesVanish

\* Nobody is notified twice within twelve hours, whatever number of uploads
\* broadcast at once and whatever registrations come and go.
THEOREM BroadcastOnce == PushSpec => []NotifiedOnce
<1>1. PushInit => LockInv
  <2> SUFFICES ASSUME PushInit PROVE LockInv
    OBVIOUS
  <2>1. /\ \A b \in Broadcasts : bcast[b] = "idle"
        /\ \A r \in Owners \cup Anon : notes[r] = 0
    BY DEF PushInit
  <2>2. bcast \in [Broadcasts -> Phases] /\ notes \in [Owners \cup Anon -> Nat]
    BY DEF PushInit, Phases
  <2>3. DOMAIN picked = Broadcasts
    BY DEF PushInit
  <2>4. QED
    BY <2>1, <2>2, <2>3 DEF LockInv, Selecting, NotifiedOnce
<1>2. LockInv /\ [PushNext]_pushVars => LockInv'
  <2> SUFFICES ASSUME LockInv, [PushNext]_pushVars PROVE LockInv'
    OBVIOUS
  <2>1. CASE UNCHANGED pushVars
    BY <2>1, NotesVanish DEF pushVars, requests, LockInv
  <2>2. CASE PushNext
    BY <2>2, RegistrationKeeps, BeginsKeeps, SelectsKeep, CommitKeeps, PushStepKeeps,
       TwelveHoursKeeps DEF PushNext
  <2>3. QED
    BY <2>1, <2>2
<1>3. LockInv => NotifiedOnce
  BY DEF LockInv
<1>4. QED
  BY <1>1, <1>2, <1>3, PTL DEF PushSpec

-----------------------------------------------------------------------------
(* The broadcast, its tokens: no token on record or sent to is newer than  *)
(* the device's, and one that Firebase called stale never works again.     *)

TokensInv ==
    /\ reg \in [Devices -> Nat] /\ live \in [Devices -> Nat \ {0}]
    /\ picked \in [Broadcasts -> SUBSET (Devices \X Nat)]
    /\ stale \in [Broadcasts -> SUBSET (Devices \X Nat)]
    /\ poke \in SUBSET (Devices \X Nat)
    /\ \A d \in Devices : reg[d] <= live[d]
    /\ \A b \in Broadcasts : \A e \in picked[b] : e[2] <= live[e[1]]
    /\ \A b \in Broadcasts : \A e \in stale[b] : e[2] < live[e[1]]
    /\ \A e \in poke : e[2] <= live[e[1]]

LEMMA LessOrEqual == \A m, n \in Nat : m <= n /\ m # n => m < n
  OBVIOUS

LEMMA EndpointsAreOld ==
    ASSUME TokensInv, NEW who
    PROVE  /\ EndpointsOf(who) \subseteq Devices \X Nat
           /\ \A e \in EndpointsOf(who) : e[2] <= live[e[1]]
  BY DEF TokensInv, EndpointsOf

\* What a broadcast or a push has in hand when it is not about registrations.
LEMMA BroadcastKeepsTokens ==
    ASSUME TokensInv, NEW b \in Broadcasts, UNCHANGED <<reg, live, poke>>,
           NEW P \in SUBSET (Devices \X Nat), NEW S \in SUBSET (Devices \X Nat),
           picked' = [picked EXCEPT ![b] = P], stale' = [stale EXCEPT ![b] = S],
           \A e \in P : e[2] <= live[e[1]], \A e \in S : e[2] < live[e[1]]
    PROVE  TokensInv'
<1>1. /\ picked' \in [Broadcasts -> SUBSET (Devices \X Nat)]
      /\ stale' \in [Broadcasts -> SUBSET (Devices \X Nat)]
  BY DEF TokensInv
<1>2. \A k \in Broadcasts : /\ picked'[k] = IF k = b THEN P ELSE picked[k]
                            /\ stale'[k] = IF k = b THEN S ELSE stale[k]
  BY DEF TokensInv
<1>3. QED
  BY <1>1, <1>2 DEF TokensInv

LEMMA RegistrationKeepsTokens ==
    ASSUME TokensInv, UNCHANGED <<picked, stale>>,
           reg' \in [Devices -> Nat], live' \in [Devices -> Nat \ {0}],
           poke' \in SUBSET (Devices \X Nat),
           \A d \in Devices : live[d] <= live'[d] /\ reg'[d] <= live'[d],
           \A e \in poke' : e[2] <= live'[e[1]]
    PROVE  TokensInv'
<1>1. \A b \in Broadcasts : \A e \in picked[b] \cup stale[b] :
         e[1] \in Devices /\ e[2] \in Nat
  BY DEF TokensInv
<1>2. \A d \in Devices : live[d] \in Nat /\ live'[d] \in Nat
  BY DEF TokensInv
<1>3. \A b \in Broadcasts : \A e \in picked[b] : e[2] <= live'[e[1]]
  BY <1>1, <1>2 DEF TokensInv
<1>4. \A b \in Broadcasts : \A e \in stale[b] : e[2] < live'[e[1]]
  BY <1>1, <1>2 DEF TokensInv
<1>5. QED
  BY <1>3, <1>4 DEF TokensInv

LEMMA UnregisteredKeepsTokens ==
    ASSUME TokensInv, NEW gone, Unregistered(gone)
    PROVE  reg' \in [Devices -> Nat] /\ \A d \in Devices : reg'[d] <= live[d]
  BY DEF TokensInv, Unregistered, NoToken

\* Steps of registrations and single pushes.
LEMMA RegistrationsKeepTokens ==
    ASSUME TokensInv,
           \/ \E d \in Devices :
                Register(d) \/ Unregister(d) \/ TokenRotates(d) \/ PokeStarts(d)
           \/ PokeAnswered \/ PokeFails
    PROVE  TokensInv'
<1>1. UNCHANGED <<picked, stale>>
  BY DEF Register, Unregister, TokenRotates, PokeStarts, PokeAnswered, PokeFails, requests
<1>2. \A d \in Devices : live[d] \in Nat \ {0}
  BY DEF TokensInv
<1>3. ASSUME NEW d \in Devices, Register(d) PROVE TokensInv'
  BY <1>1, <1>2, <1>3, RegistrationKeepsTokens DEF Register, TokensInv
<1>4. ASSUME NEW d \in Devices, Unregister(d) PROVE TokensInv'
  BY <1>1, <1>2, <1>4, RegistrationKeepsTokens, UnregisteredKeepsTokens
     DEF Unregister, TokensInv
<1>5. ASSUME NEW d \in Devices, TokenRotates(d) PROVE TokensInv'
  <2>1. live' \in [Devices -> Nat \ {0}] /\ \A x \in Devices : live[x] <= live'[x]
    BY <1>2, <1>5 DEF TokenRotates, TokensInv
  <2>2. UNCHANGED <<reg, poke>>
    BY <1>5 DEF TokenRotates
  <2>3. \A x \in Devices : reg'[x] <= live'[x]
    BY <1>2, <2>1, <2>2 DEF TokensInv
  <2>4. \A e \in poke' : e[2] <= live'[e[1]]
    <3>1. \A e \in poke : e[1] \in Devices /\ e[2] \in Nat
      BY DEF TokensInv
    <3>2. QED
      BY <1>2, <2>1, <2>2, <3>1 DEF TokensInv
  <2>5. QED
    BY <1>1, <2>1, <2>2, <2>3, <2>4, RegistrationKeepsTokens DEF TokensInv
<1>6. ASSUME NEW d \in Devices, PokeStarts(d) PROVE TokensInv'
  BY <1>1, <1>2, <1>6, RegistrationKeepsTokens DEF PokeStarts, TokensInv
<1>7. CASE PokeAnswered
  BY <1>1, <1>2, <1>7, RegistrationKeepsTokens, UnregisteredKeepsTokens
     DEF PokeAnswered, TokensInv
<1>8. CASE PokeFails
  BY <1>1, <1>2, <1>8, RegistrationKeepsTokens DEF PokeFails, TokensInv
<1>9. QED
  BY <1>3, <1>4, <1>5, <1>6, <1>7, <1>8

LEMMA BroadcastsKeepTokens ==
    ASSUME TokensInv, NEW b \in Broadcasts,
           \/ \E o \in Owners \cup {"nobody"} : Begins(b, o)
           \/ Skips(b) \/ SelectUsers(b) \/ SelectClients(b) \/ Commit(b) \/ Abandons(b)
           \/ Sends(b) \/ SendFails(b) \/ CleansUp(b)
    PROVE  TokensInv'
<1>1. CASE (\E o \in Owners \cup {"nobody"} : Begins(b, o)) \/ Skips(b) \/ Commit(b)
  BY <1>1 DEF Begins, Skips, Commit, registrations, TokensInv
<1>2. CASE SelectUsers(b)
  <2>1. picked' = [picked EXCEPT ![b] = EndpointsOf(NotRecent(Owners) \ {originator[b]})]
    BY <1>2 DEF SelectUsers
  <2>2. UNCHANGED <<reg, live, poke, stale>> /\ stale[b] \in SUBSET (Devices \X Nat)
    BY <1>2 DEF SelectUsers, registrations, TokensInv
  <2>3. stale' = [stale EXCEPT ![b] = stale[b]]
    BY <2>2 DEF TokensInv
  <2>4. QED
    BY <2>1, <2>2, <2>3, EndpointsAreOld, BroadcastKeepsTokens DEF TokensInv
<1>3. CASE SelectClients(b)
  <2>1. picked' = [picked EXCEPT ![b] = picked[b] \cup EndpointsOf(NotRecent(Anon))]
    BY <1>3 DEF SelectClients
  <2>2. UNCHANGED <<reg, live, poke, stale>> /\ stale[b] \in SUBSET (Devices \X Nat)
    BY <1>3 DEF SelectClients, registrations, TokensInv
  <2>3. stale' = [stale EXCEPT ![b] = stale[b]]
    BY <2>2 DEF TokensInv
  <2>4. /\ picked[b] \cup EndpointsOf(NotRecent(Anon)) \in SUBSET (Devices \X Nat)
        /\ \A e \in picked[b] \cup EndpointsOf(NotRecent(Anon)) : e[2] <= live[e[1]]
    BY EndpointsAreOld DEF TokensInv
  <2>5. QED
    BY <2>1, <2>2, <2>3, <2>4, BroadcastKeepsTokens DEF TokensInv
<1>4. CASE Abandons(b) \/ SendFails(b)
  BY <1>4, BroadcastKeepsTokens DEF Abandons, SendFails, Forget, registrations
<1>5. CASE Sends(b)
  <2>1. /\ Dead(picked[b]) \in SUBSET (Devices \X Nat)
        /\ \A e \in Dead(picked[b]) : e[2] < live[e[1]]
    <3>1. picked[b] \subseteq Devices \X Nat /\ \A d \in Devices : live[d] \in Nat
      BY DEF TokensInv
    <3>2. \A e \in picked[b] : e[1] \in Devices /\ e[2] \in Nat /\ live[e[1]] \in Nat
      BY <3>1
    <3>3. \A e \in picked[b] : e[2] <= live[e[1]]
      BY DEF TokensInv
    <3>4. \A e \in picked[b] : e[2] # live[e[1]] => e[2] < live[e[1]]
      BY <3>2, <3>3, LessOrEqual
    <3>5. QED
      BY <3>1, <3>4 DEF Dead
  <2>2. QED
    BY <1>5, <2>1, BroadcastKeepsTokens DEF Sends, registrations
<1>6. CASE CleansUp(b)
  <2>1. /\ picked' = [picked EXCEPT ![b] = {}] /\ stale' = [stale EXCEPT ![b] = {}]
        /\ UNCHANGED <<live, poke>>
    BY <1>6 DEF CleansUp, Forget
  <2>2. reg' \in [Devices -> Nat] /\ \A d \in Devices : reg'[d] <= live[d]
    BY <1>6, UnregisteredKeepsTokens DEF CleansUp
  <2>3. /\ picked' \in [Broadcasts -> SUBSET (Devices \X Nat)]
        /\ stale' \in [Broadcasts -> SUBSET (Devices \X Nat)]
        /\ \A k \in Broadcasts : picked'[k] \subseteq picked[k] /\ stale'[k] \subseteq stale[k]
    BY <2>1 DEF TokensInv
  <2>4. QED
    BY <2>1, <2>2, <2>3 DEF TokensInv
<1>7. QED
  BY <1>1, <1>2, <1>3, <1>4, <1>5, <1>6

LEMMA TokensInvariant == PushSpec => []TokensInv
<1>1. PushInit => TokensInv
  <2> SUFFICES ASSUME PushInit PROVE TokensInv
    OBVIOUS
  <2>1. /\ reg \in [Devices -> {0, 1}] /\ live = [d \in Devices |-> 1] /\ poke = {}
        /\ picked = [b \in Broadcasts |-> {}] /\ stale = [b \in Broadcasts |-> {}]
    BY DEF PushInit, NoToken
  <2>2. \A d \in Devices : reg[d] \in {0, 1} /\ live[d] = 1
    BY <2>1
  <2>3. reg \in [Devices -> Nat] /\ live \in [Devices -> Nat \ {0}]
    BY <2>1
  <2>4. \A b \in Broadcasts : picked[b] = {} /\ stale[b] = {}
    BY <2>1
  <2>5. /\ picked \in [Broadcasts -> SUBSET (Devices \X Nat)]
        /\ stale \in [Broadcasts -> SUBSET (Devices \X Nat)]
    BY <2>1
  <2>6. QED
    BY <2>1, <2>2, <2>3, <2>4, <2>5 DEF TokensInv
<1>2. TokensInv /\ [PushNext]_pushVars => TokensInv'
  <2> SUFFICES ASSUME TokensInv, [PushNext]_pushVars PROVE TokensInv'
    OBVIOUS
  <2>1. CASE UNCHANGED pushVars
    BY <2>1 DEF pushVars, TokensInv
  <2>2. CASE TwelveHours
    BY <2>2 DEF TwelveHours, requests, TokensInv
  <2>3. QED
    BY <2>1, <2>2, RegistrationsKeepTokens, BroadcastsKeepTokens DEF PushNext
<1>3. QED
  BY <1>1, <1>2, PTL DEF PushSpec

\* A device that is registered with the token that works loses its
\* registration by nothing but its own request.
THEOREM LiveRegistrationStays == PushSpec => CleanupSparesLive
<1> DEFINE Spares == \A d \in Devices :
                       reg[d] = live[d] /\ reg'[d] = NoToken => Unregister(d)
<1>1. TokensInv /\ [PushNext]_pushVars => [Spares]_pushVars
  <2> SUFFICES ASSUME TokensInv, PushNext, NEW d \in Devices,
                      reg[d] = live[d], reg'[d] = NoToken, ~ Unregister(d)
               PROVE  FALSE
    OBVIOUS
  <2>1. reg'[d] # reg[d] /\ reg[d] \in Nat
    BY DEF TokensInv, NoToken
  <2>2. ASSUME NEW x \in Devices, Register(x) PROVE FALSE
    BY <2>1, <2>2 DEF Register, TokensInv, NoToken
  <2>3. ASSUME NEW x \in Devices, Unregister(x) PROVE FALSE
    BY <2>1, <2>3 DEF Unregister, Unregistered, TokensInv
  <2>4. ASSUME PokeAnswered PROVE FALSE
    <3>1. d \in Gone(Dead(poke))
      BY <2>1, <2>4 DEF PokeAnswered, Unregistered, TokensInv
    <3>2. QED
      BY <3>1 DEF Gone, StaleRows, Dead
  <2>5. ASSUME NEW b \in Broadcasts, CleansUp(b) PROVE FALSE
    <3>1. d \in Gone(stale[b])
      BY <2>1, <2>5 DEF CleansUp, Unregistered, TokensInv
    <3>2. <<d, reg[d]>> \in stale[b]
      BY <3>1 DEF Gone, StaleRows
    <3>3. reg[d] < live[d]
      BY <3>2 DEF TokensInv
    <3>4. QED
      BY <2>1, <3>3
  <2>6. CASE reg' = reg
    BY <2>1, <2>6
  <2>7. QED
    BY <2>2, <2>3, <2>4, <2>5, <2>6
       DEF PushNext, TokenRotates, PokeStarts, PokeFails, Begins, Skips, SelectUsers,
           SelectClients, Commit, Abandons, Sends, SendFails, TwelveHours, registrations
<1>2. QED
  BY <1>1, TokensInvariant, PTL DEF PushSpec, CleanupSparesLive

-----------------------------------------------------------------------------
(* Logins: who was free to be created still is, unless another account was  *)
(* created meanwhile.                                                      *)

NewcomerInv ==
    /\ login \in [Logins -> LoginRecord]
    /\ \A l \in Logins :
          /\ login[l].at = "idle" => login[l].suffix = 0
          /\ login[l].at \in {"naming", "insert"} /\ ~ login[l].raced =>
                account[login[l].who] = NoAccount
          /\ login[l].at = "insert" /\ ~ login[l].raced => ~ Taken(login[l].suffix)
          /\ login[l].at = "conflict" => login[l].raced

LEMMA LogSuffixes == 0 \in 0..MaxSuffix /\ \A n \in 0..MaxSuffix : n < MaxSuffix => n + 1 \in 0..MaxSuffix
<1>1. MaxSuffix \in Nat
  BY OAuthAssumption
<1>2. QED
  BY <1>1

LEMMA BlankLogin == NoLogin \in LoginRecord /\ NoLogin.at = "idle" /\ NoLogin.suffix = 0
<1>1. 0 \in 0..MaxSuffix
  BY LogSuffixes
<1>2. QED
  BY <1>1 DEF NoLogin, LoginRecord, Nothing

\* A login goes on, and what it relies on holds where it arrives.
LEMMA LoginGoesOn ==
    ASSUME NewcomerInv, UNCHANGED account, NEW l \in Logins, NEW r \in LoginRecord,
           login' = [login EXCEPT ![l] = r],
           r.at = "idle" => r.suffix = 0,
           r.at \in {"naming", "insert"} /\ ~ r.raced => account[r.who] = NoAccount,
           r.at = "insert" /\ ~ r.raced => ~ Taken(r.suffix),
           r.at = "conflict" => r.raced
    PROVE  NewcomerInv'
<1>1. \A n : Taken(n)' <=> Taken(n)
  BY DEF Taken
<1>2. login' \in [Logins -> LoginRecord]
  BY DEF NewcomerInv
<1>3. \A k \in Logins : login'[k] = IF k = l THEN r ELSE login[k]
  BY DEF NewcomerInv
<1>4. QED
  BY <1>1, <1>2, <1>3 DEF NewcomerInv

LEMMA LoginSteps ==
    ASSUME NewcomerInv, NEW l \in Logins,
           \/ oauth_callback(l) \/ LoginFails(l) \/ MatchAccount(l) \/ PickName(l)
           \/ TokensStored(l) \/ TokensReturned(l)
           \/ \E i \in Identities :
                \/ \E s \in Sessions : oauth_redirect(l, i, s)
                \/ google_native_login(l, i) \/ register_user(l, i)
    PROVE  NewcomerInv'
<1>1. login[l] \in LoginRecord /\ UNCHANGED account
  BY DEF NewcomerInv, oauth_callback, LoginFails, MatchAccount, PickName, TokensStored,
         TokensReturned, oauth_redirect, google_native_login, register_user
<1>2. [NoLogin EXCEPT !.at = "done"] \in LoginRecord
  BY BlankLogin DEF LoginRecord
<1>3. CASE LoginFails(l) \/ TokensStored(l) \/ TokensReturned(l)
  <2>1. login' = [login EXCEPT ![l] = [NoLogin EXCEPT !.at = "done"]]
    BY <1>3 DEF LoginFails, TokensStored, TokensReturned, Ends
  <2>2. [NoLogin EXCEPT !.at = "done"].at = "done"
    BY DEF NoLogin
  <2>3. QED
    BY <1>1, <1>2, <2>1, <2>2, LoginGoesOn
<1>4. ASSUME NEW place \in {"match", "tokens"}, GoTo(l, place) PROVE NewcomerInv'
  <2> DEFINE r == [login[l] EXCEPT !.at = place]
  <2>1. r \in LoginRecord /\ r.at = place /\ login' = [login EXCEPT ![l] = r]
    BY <1>1, <1>4 DEF GoTo, LoginRecord
  <2> HIDE DEF r
  <2>2. QED
    BY <1>1, <2>1, LoginGoesOn
<1>5. CASE MatchAccount(l)
  <2>1. CASE account[login[l].who] = NoAccount
    <3> DEFINE r == [login[l] EXCEPT !.at = "naming"]
    <3>1. /\ r \in LoginRecord /\ r.at = "naming" /\ r.who = login[l].who
          /\ login' = [login EXCEPT ![l] = r]
      BY <1>1, <1>5, <2>1 DEF MatchAccount, GoTo, LoginRecord
    <3> HIDE DEF r
    <3>2. QED
      BY <1>1, <2>1, <3>1, LoginGoesOn
  <2>2. CASE account[login[l].who] # NoAccount
    BY <1>4, <1>5, <2>2 DEF MatchAccount
  <2>3. QED
    BY <2>1, <2>2
<1>6. CASE PickName(l)
  <2>1. login[l].at = "naming" /\ (~ login[l].raced => account[login[l].who] = NoAccount)
    BY <1>6 DEF PickName, NewcomerInv
  <2>2. CASE NameIsFree(l)
    <3> DEFINE r == [login[l] EXCEPT !.at = "insert"]
    <3>1. /\ r \in LoginRecord /\ r.at = "insert" /\ r.who = login[l].who
          /\ r.raced = login[l].raced /\ r.suffix = login[l].suffix
          /\ login' = [login EXCEPT ![l] = r]
      BY <1>1, <1>6, <2>2 DEF PickName, GoTo, LoginRecord
    <3> HIDE DEF r
    <3>2. QED
      BY <1>1, <2>1, <2>2, <3>1, LoginGoesOn DEF NameIsFree
  <2>3. CASE ~ NameIsFree(l)
    <3> DEFINE r == [login[l] EXCEPT !.suffix = login[l].suffix + 1]
    <3>1. login[l].suffix + 1 \in 0..MaxSuffix
      <4>1. login[l].suffix \in 0..MaxSuffix /\ login[l].suffix < MaxSuffix
        BY <1>1, <1>6, <2>3 DEF PickName, LoginRecord
      <4>2. QED
        BY <4>1, LogSuffixes
    <3>2. /\ r \in LoginRecord /\ r.at = "naming" /\ r.who = login[l].who
          /\ r.raced = login[l].raced
          /\ login' = [login EXCEPT ![l] = r]
      BY <1>1, <1>6, <2>1, <2>3, <3>1 DEF PickName, LoginRecord
    <3> HIDE DEF r
    <3>3. QED
      BY <1>1, <2>1, <3>2, LoginGoesOn
  <2>4. QED
    BY <2>2, <2>3
<1>7. CASE oauth_callback(l)
  BY <1>4, <1>7 DEF oauth_callback
<1>8. ASSUME NEW i \in Identities,
             (\E s \in Sessions : oauth_redirect(l, i, s)) \/ google_native_login(l, i)
      PROVE  NewcomerInv'
  <2>1. PICK r : /\ r \in LoginRecord /\ r.at \in {"browser", "match"}
                 /\ login' = [login EXCEPT ![l] = r]
    BY <1>1, <1>8 DEF oauth_redirect, google_native_login, LoginRecord
  <2>2. QED
    BY <1>1, <2>1, LoginGoesOn
<1>9. ASSUME NEW i \in Identities, register_user(l, i) PROVE NewcomerInv'
  <2>1. login[l].suffix = 0
    BY <1>9 DEF register_user, NewcomerInv
  <2>2. CASE account[i] # NoAccount \/ Taken(0)
    <3> DEFINE r == [login[l] EXCEPT !.at = "done"]
    <3>1. r \in LoginRecord /\ r.at = "done" /\ login' = [login EXCEPT ![l] = r]
      BY <1>1, <1>9, <2>2 DEF register_user, LoginRecord
    <3> HIDE DEF r
    <3>2. QED
      BY <1>1, <3>1, LoginGoesOn
  <2>3. CASE ~ (account[i] # NoAccount \/ Taken(0))
    <3> DEFINE r == [login[l] EXCEPT !.at = "insert", !.who = i]
    <3>1. /\ r \in LoginRecord /\ r.at = "insert" /\ r.who = i /\ r.suffix = 0
          /\ login' = [login EXCEPT ![l] = r]
      BY <1>1, <1>9, <2>1, <2>3 DEF register_user, LoginRecord
    <3> HIDE DEF r
    <3>2. QED
      BY <1>1, <2>3, <3>1, LoginGoesOn
  <2>4. QED
    BY <2>2, <2>3
<1>10. QED
  BY <1>3, <1>5, <1>6, <1>7, <1>8, <1>9

\* An account that is inserted marks everybody who had looked before.
LEMMA InsertKeeps ==
    ASSUME NewcomerInv, NEW l \in Logins, InsertAccount(l)
    PROVE  NewcomerInv'
<1>1. login[l] \in LoginRecord /\ login[l].at = "insert"
  BY DEF NewcomerInv, InsertAccount
<1>2. CASE account[login[l].who] = NoAccount /\ ~ Taken(login[l].suffix)
  <2>1. login' = [k \in Logins |->
                    CASE k = l -> [login[l] EXCEPT !.at = "tokens"]
                      [] k # l /\ login[k].at \in {"naming", "insert"} ->
                           [login[k] EXCEPT !.raced = TRUE]
                      [] OTHER -> login[k]]
    BY <1>2 DEF InsertAccount
  <2>2. \A k \in Logins :
          /\ login'[k] \in LoginRecord
          /\ login'[k].at \in {"naming", "insert"} => login'[k].raced
          /\ login'[k].at = "idle" => login'[k].suffix = 0
          /\ login'[k].at = "conflict" => login'[k].raced
    <3> SUFFICES ASSUME NEW k \in Logins
                 PROVE  /\ login'[k] \in LoginRecord
                        /\ login'[k].at \in {"naming", "insert"} => login'[k].raced
                        /\ login'[k].at = "idle" => login'[k].suffix = 0
                        /\ login'[k].at = "conflict" => login'[k].raced
      OBVIOUS
    <3>1. login[k] \in LoginRecord
      BY DEF NewcomerInv
    <3>2. CASE k = l
      <4>1. login'[k] = [login[l] EXCEPT !.at = "tokens"]
        BY <2>1, <3>2
      <4>2. QED
        BY <1>1, <4>1 DEF LoginRecord
    <3>3. CASE k # l /\ login[k].at \in {"naming", "insert"}
      <4>1. login'[k] = [login[k] EXCEPT !.raced = TRUE]
        BY <2>1, <3>3
      <4>2. QED
        BY <3>1, <3>3, <4>1 DEF LoginRecord
    <3>4. CASE k # l /\ login[k].at \notin {"naming", "insert"}
      <4>1. login'[k] = login[k]
        BY <2>1, <3>4
      <4>2. QED
        BY <3>1, <3>4, <4>1 DEF NewcomerInv
    <3>5. QED
      BY <3>2, <3>3, <3>4
  <2>3. login' \in [Logins -> LoginRecord]
    <3>1. login' = [k \in Logins |-> login'[k]]
      BY <2>1
    <3>2. QED
      BY <2>2, <3>1
  <2>4. QED
    BY <2>2, <2>3 DEF NewcomerInv
<1>3. CASE ~ (account[login[l].who] = NoAccount /\ ~ Taken(login[l].suffix))
  <2> DEFINE r == [login[l] EXCEPT !.at = "conflict"]
  <2>1. /\ r \in LoginRecord /\ r.at = "conflict" /\ r.raced = login[l].raced
        /\ login' = [login EXCEPT ![l] = r] /\ UNCHANGED account
    BY <1>1, <1>3 DEF InsertAccount, GoTo, LoginRecord
  <2>2. login[l].raced
    BY <1>1, <1>3 DEF NewcomerInv, LoginRecord
  <2> HIDE DEF r
  <2>3. QED
    BY <2>1, <2>2, LoginGoesOn
<1>4. QED
  BY <1>2, <1>3

\* NewcomerInv holds of every login, whichever account it ends in.
LEMMA NewcomersRace == OAuthSpec => []NewcomerInv
<1>1. OAuthInit => NewcomerInv
  <2> SUFFICES ASSUME OAuthInit PROVE NewcomerInv
    OBVIOUS
  <2>1. NoLogin \in LoginRecord /\ NoLogin.at = "idle" /\ NoLogin.suffix = 0
    BY BlankLogin
  <2>2. login = [l \in Logins |-> NoLogin]
    BY DEF OAuthInit
  <2>3. QED
    BY <2>1, <2>2 DEF NewcomerInv
<1>2. NewcomerInv /\ [OAuthNext]_oauthVars => NewcomerInv'
  <2> SUFFICES ASSUME NewcomerInv, [OAuthNext]_oauthVars PROVE NewcomerInv'
    OBVIOUS
  <2>1. CASE UNCHANGED <<account, login>>
    BY <2>1 DEF NewcomerInv, Taken
  <2>2. QED
    BY <2>1, LoginSteps, InsertKeeps
       DEF OAuthNext, oauthVars, create_oauth_session, SessionExpires,
           cleanup_expired_sessions, get_oauth_status, PollAnswered, PollFails
<1>3. QED
  BY <1>1, <1>2, PTL DEF OAuthSpec

\* A conflict needs another account created meanwhile, for any number of
\* logins, registrations and user names.
THEOREM ConflictsNeedRaces == OAuthSpec => []ConflictNeedsRace
<1>1. NewcomerInv => ConflictNeedsRace
  BY DEF NewcomerInv, ConflictNeedsRace
<1>2. QED
  BY <1>1, NewcomersRace, PTL

-----------------------------------------------------------------------------
(* Logins: the tokens of a login are named by one session only, by its row  *)
(* or by polls that have read it, and once they are handed out that session *)
(* is gone.  A session that is gone does not come back.                    *)

Named(l, s) ==
    \/ session[s].tokens = l
    \/ \E p \in Polls : poll[p] = [session |-> s, tokens |-> l]

HandoverInv ==
    /\ DOMAIN login = Logins
    /\ session \in [Sessions -> SessionRecord]
    /\ poll \in [Polls -> PollRecord]
    /\ handed \in [Logins -> Nat]
    /\ \A s \in Sessions : session[s].tokens # Nothing <=> session[s].status = "completed"
    /\ \A p \in Polls : poll[p] # NoPoll => /\ poll[p].session \in Sessions
                                            /\ poll[p].tokens \in Logins
    /\ \A l \in Logins, s, t \in Sessions : Named(l, s) /\ Named(l, t) => s = t
    /\ \A l \in Logins : login[l].at # "done" =>
          handed[l] = 0 /\ \A s \in Sessions : ~ Named(l, s)
    /\ \A l \in Logins : handed[l] # 0 =>
          handed[l] = 1 /\ \A s \in Sessions : Named(l, s) => session[s].status = "gone"

LEMMA LapsedRecord ==
    /\ Lapsed \in SessionRecord /\ Lapsed.status = "gone" /\ Lapsed.tokens = Nothing
    /\ \A l \in Logins : /\ Completed(l) \in SessionRecord /\ Completed(l).tokens = l
                         /\ Completed(l).status = "completed" /\ l # Nothing
  BY OAuthAssumption DEF Lapsed, Completed, SessionRecord, Nothing

\* Nobody comes to name more, a session that is gone stays so, and no login is
\* taken back.
LEMMA NamesFade ==
    ASSUME HandoverInv, handed' = handed, DOMAIN login' = Logins,
           session' \in [Sessions -> SessionRecord], poll' \in [Polls -> PollRecord],
           \A s \in Sessions : session'[s].tokens # Nothing <=> session'[s].status = "completed",
           \A p \in Polls : poll'[p] # NoPoll => /\ poll'[p].session \in Sessions
                                                /\ poll'[p].tokens \in Logins,
           \A l \in Logins, s \in Sessions : Named(l, s)' => Named(l, s),
           \A s \in Sessions : session[s].status = "gone" => session'[s].status = "gone",
           \A l \in Logins : login[l].at = "done" => login'[l].at = "done"
    PROVE  HandoverInv'
  BY DEF HandoverInv

\* Sessions expire, are opened, or are cleaned up.
LEMMA SessionsFade ==
    ASSUME HandoverInv, UNCHANGED <<login, poll, handed>>,
           \/ create_oauth_session \/ cleanup_expired_sessions
           \/ \E s \in Sessions : SessionExpires(s)
    PROVE  HandoverInv'
<1>1. \A s \in Sessions : session[s] \in SessionRecord
  BY DEF HandoverInv
<1>2. /\ session' \in [Sessions -> SessionRecord]
      /\ \A s \in Sessions :
           /\ session'[s].tokens \in {session[s].tokens, Nothing}
           /\ session'[s].tokens # Nothing <=> session'[s].status = "completed"
           /\ session[s].status = "gone" => session'[s].status = "gone"
  <2>1. CASE create_oauth_session
    <3>1. PICK x \in Sessions : /\ session[x].status = "unused"
                                /\ session' = [session EXCEPT ![x].status = "pending"]
      BY <2>1 DEF create_oauth_session, FreshId, Unused
    <3>2. session[x].tokens = Nothing
      BY <3>1 DEF HandoverInv
    <3>3. session' \in [Sessions -> SessionRecord]
      BY <3>1 DEF HandoverInv, SessionRecord
    <3>4. \A s \in Sessions : /\ session'[s].tokens = session[s].tokens
                              /\ session'[s].status =
                                   IF s = x THEN "pending" ELSE session[s].status
      BY <3>1 DEF HandoverInv
    <3>5. QED
      BY <3>1, <3>2, <3>3, <3>4 DEF HandoverInv
  <2>2. CASE cleanup_expired_sessions
    <3>1. \A s \in Sessions : session'[s] \in {session[s], Lapsed}
      BY <2>2 DEF cleanup_expired_sessions, Unexpired
    <3>2. session' = [s \in Sessions |-> session'[s]]
      BY <2>2 DEF cleanup_expired_sessions, Unexpired
    <3>3. session' \in [Sessions -> SessionRecord]
      BY <1>1, <3>1, <3>2, LapsedRecord
    <3>4. QED
      BY <3>1, <3>3, LapsedRecord DEF HandoverInv
  <2>3. ASSUME NEW x \in Sessions, SessionExpires(x)
        PROVE  /\ session' \in [Sessions -> SessionRecord]
               /\ \A s \in Sessions : /\ session'[s].tokens = session[s].tokens
                                      /\ session'[s].status = session[s].status
    <3>1. session' = [session EXCEPT ![x].expired = TRUE]
      BY <2>3 DEF SessionExpires
    <3>2. [session[x] EXCEPT !.expired = TRUE] \in SessionRecord
      BY <1>1 DEF SessionRecord
    <3>3. \A s \in Sessions : session'[s] = IF s = x THEN [session[x] EXCEPT !.expired = TRUE]
                                                    ELSE session[s]
      BY <3>1 DEF HandoverInv
    <3>4. session' = [s \in Sessions |-> session'[s]]
      BY <3>1 DEF HandoverInv
    <3>5. session' \in [Sessions -> SessionRecord]
      BY <1>1, <3>2, <3>3, <3>4
    <3>6. /\ [session[x] EXCEPT !.expired = TRUE].tokens = session[x].tokens
          /\ [session[x] EXCEPT !.expired = TRUE].status = session[x].status
      BY <1>1 DEF SessionRecord
    <3>7. QED
      BY <3>3, <3>5, <3>6
  <2>4. QED
    BY <2>1, <2>2, <2>3 DEF HandoverInv
<1>3. \A l \in Logins, s \in Sessions : Named(l, s)' => Named(l, s)
  BY <1>2, LapsedRecord DEF Named
<1>4. QED
  BY <1>2, <1>3, NamesFade DEF HandoverInv

LEMMA LoginsFade ==
    ASSUME HandoverInv, NEW l \in Logins, login[l].at # "done",
           NEW r, login' = [login EXCEPT ![l] = r], UNCHANGED <<session, poll, handed>>
    PROVE  HandoverInv'
<1>1. \A k \in Logins, s \in Sessions : Named(k, s)' <=> Named(k, s)
  BY DEF Named
<1>2. \A k \in Logins : login[k].at = "done" => login'[k].at = "done"
  BY DEF HandoverInv
<1>3. QED
  BY <1>1, <1>2, NamesFade DEF HandoverInv

LEMMA LoginsFadeAll ==
    ASSUME HandoverInv, NEW l \in Logins,
           \/ oauth_callback(l) \/ LoginFails(l) \/ MatchAccount(l) \/ PickName(l)
           \/ InsertAccount(l) \/ TokensReturned(l)
           \/ \E i \in Identities :
                \/ \E s \in Sessions : oauth_redirect(l, i, s)
                \/ google_native_login(l, i) \/ register_user(l, i)
    PROVE  HandoverInv'
<1>1. UNCHANGED <<session, poll, handed>> /\ login[l].at # "done"
  BY DEF oauth_callback, LoginFails, MatchAccount, PickName, InsertAccount, TokensReturned,
         oauth_redirect, google_native_login, register_user
<1>2. CASE InsertAccount(l) /\ account[login[l].who] = NoAccount /\ ~ Taken(login[l].suffix)
  <2>1. login' = [k \in Logins |->
                    CASE k = l -> [login[l] EXCEPT !.at = "tokens"]
                      [] k # l /\ login[k].at \in {"naming", "insert"} ->
                           [login[k] EXCEPT !.raced = TRUE]
                      [] OTHER -> login[k]]
    BY <1>2 DEF InsertAccount
  <2>2. \A k \in Logins : login[k].at = "done" => login'[k].at = "done"
    <3> SUFFICES ASSUME NEW k \in Logins, login[k].at = "done" PROVE login'[k].at = "done"
      OBVIOUS
    <3>1. k # l /\ login[k].at \notin {"naming", "insert"}
      BY <1>1
    <3>2. login'[k] = login[k]
      BY <2>1, <3>1
    <3>3. QED
      BY <3>2
  <2>3. \A k \in Logins, s \in Sessions : Named(k, s)' <=> Named(k, s)
    BY <1>1 DEF Named
  <2>4. DOMAIN login' = Logins
    BY <2>1
  <2>5. QED
    BY <1>1, <2>2, <2>3, <2>4, NamesFade DEF HandoverInv
<1>3. CASE ~ (InsertAccount(l) /\ account[login[l].who] = NoAccount /\ ~ Taken(login[l].suffix))
  <2>1. \E r : login' = [login EXCEPT ![l] = r]
    BY <1>3 DEF oauth_callback, LoginFails, MatchAccount, PickName, InsertAccount,
                TokensReturned, oauth_redirect, google_native_login, register_user, GoTo, Ends
  <2>2. QED
    BY <1>1, <2>1, LoginsFade
<1>4. QED
  BY <1>2, <1>3

\* The tokens go to a session that is not gone, and were nowhere before.
LEMMA TokensStoredKeeps ==
    ASSUME NewcomerInv, HandoverInv, NEW l \in Logins, TokensStored(l)
    PROVE  HandoverInv'
<1>1. /\ login[l].at # "done" /\ handed[l] = 0 /\ \A s \in Sessions : ~ Named(l, s)
      /\ UNCHANGED <<poll, handed>>
  BY DEF TokensStored, HandoverInv
<1>2. /\ DOMAIN login' = Logins /\ login'[l].at = "done"
      /\ \A k \in Logins : k # l => login'[k] = login[k]
  BY DEF TokensStored, Ends, HandoverInv
<1>3. PICK x \in Sessions : /\ session[x].status # "gone"
                            /\ session' = [Unexpired EXCEPT ![x] = Completed(l)]
  <2>1. CASE session' = [Unexpired EXCEPT ![login[l].polling] = Completed(l)]
             /\ Unexpired[login[l].polling].status \in {"pending", "completed"}
    <3>1. login[l].polling \in Sessions
      BY DEF TokensStored, NewcomerInv, LoginRecord
    <3>2. session[login[l].polling].status # "gone"
      BY <2>1, <3>1, LapsedRecord DEF Unexpired
    <3>3. QED
      BY <2>1, <3>1, <3>2
  <2>2. CASE Unused # {} /\ session' = [Unexpired EXCEPT ![FreshId] = Completed(l)]
    BY <2>2 DEF FreshId, Unused
  <2>3. QED
    BY <2>1, <2>2 DEF TokensStored
<1>4. \A s \in Sessions : /\ s = x => session'[s] = Completed(l)
                          /\ s # x => session'[s] \in {session[s], Lapsed}
  BY <1>3 DEF Unexpired
<1>5. session' \in [Sessions -> SessionRecord]
  <2>1. session' = [s \in Sessions |-> session'[s]]
    BY <1>3 DEF Unexpired
  <2>2. \A s \in Sessions : session'[s] \in SessionRecord
    BY <1>4, LapsedRecord DEF HandoverInv
  <2>3. QED
    BY <2>1, <2>2
<1>6. \A s \in Sessions : session'[s].tokens # Nothing <=> session'[s].status = "completed"
  BY <1>4, LapsedRecord DEF HandoverInv
<1>7. \A s \in Sessions : session[s].status = "gone" => session'[s].status = "gone"
  BY <1>3, <1>4, LapsedRecord
<1>8. \A k \in Logins, s \in Sessions : Named(k, s)' => Named(k, s) \/ (k = l /\ s = x)
  BY <1>1, <1>4, LapsedRecord DEF Named
<1>9. QED
  BY <1>1, <1>2, <1>5, <1>6, <1>7, <1>8 DEF HandoverInv

LEMMA PollSteps ==
    ASSUME HandoverInv, NEW p \in Polls,
           (\E s \in Sessions : get_oauth_status(p, s)) \/ PollFails(p)
    PROVE  HandoverInv'
<1>1. CASE PollFails(p)
  <2>1. poll' = [poll EXCEPT ![p] = NoPoll] /\ UNCHANGED <<login, session, handed>>
    BY <1>1 DEF PollFails
  <2>2. NoPoll \in PollRecord
    BY DEF NoPoll, PollRecord
  <2>3. \A l \in Logins, s \in Sessions : NoPoll # [session |-> s, tokens |-> l]
    BY OAuthAssumption DEF NoPoll, Nothing
  <2>7. \A q \in Polls : poll'[q] = IF q = p THEN NoPoll ELSE poll[q]
    BY <2>1 DEF HandoverInv
  <2>4. \A l \in Logins, s \in Sessions : Named(l, s)' => Named(l, s)
    BY <2>1, <2>3, <2>7 DEF Named
  <2>5. poll' \in [Polls -> PollRecord]
    BY <2>1, <2>2 DEF HandoverInv
  <2>6. QED
    BY <2>1, <2>4, <2>5, NamesFade DEF HandoverInv
<1>2. ASSUME NEW s \in Sessions, get_oauth_status(p, s) PROVE HandoverInv'
  <2>1. /\ session' = Unexpired /\ UNCHANGED <<login, handed>>
        /\ poll' = [poll EXCEPT ![p] = [session |-> s, tokens |-> session[s].tokens]]
        /\ Unexpired[s].status = "completed"
    BY <1>2 DEF get_oauth_status
  <2>2. session[s].status = "completed" /\ session[s].tokens \in Logins
    <3>1. session[s].status = "completed"
      BY <2>1, LapsedRecord DEF Unexpired
    <3>2. session[s].tokens # Nothing /\ session[s] \in SessionRecord
      BY <3>1 DEF HandoverInv
    <3>3. QED
      BY <3>1, <3>2 DEF SessionRecord
  <2>3. /\ \A t \in Sessions : session'[t] \in {session[t], Lapsed}
        /\ session' = [t \in Sessions |-> session'[t]]
    BY <2>1 DEF Unexpired
  <2>4. session' \in [Sessions -> SessionRecord]
    BY <2>3, LapsedRecord DEF HandoverInv
  <2>5. poll' \in [Polls -> PollRecord]
    BY <2>1, <2>2 DEF HandoverInv, PollRecord
  <2>6. \A q \in Polls : poll'[q] = IF q = p THEN [session |-> s, tokens |-> session[s].tokens]
                                            ELSE poll[q]
    BY <2>1 DEF HandoverInv
  <2>7. \A l \in Logins, t \in Sessions : Named(l, t)' => Named(l, t)
    BY <2>3, <2>6, LapsedRecord DEF Named
  <2>8. \A t \in Sessions :
           /\ session'[t].tokens # Nothing <=> session'[t].status = "completed"
           /\ session[t].status = "gone" => session'[t].status = "gone"
    BY <2>3, LapsedRecord DEF HandoverInv
  <2>9. \A q \in Polls : poll'[q] # NoPoll => /\ poll'[q].session \in Sessions
                                             /\ poll'[q].tokens \in Logins
    BY <2>2, <2>6 DEF HandoverInv
  <2>10. QED
    BY <2>1, <2>4, <2>5, <2>7, <2>8, <2>9, NamesFade DEF HandoverInv
<1>3. QED
  BY <1>1, <1>2

\* The session of an answered poll still existed, so its tokens had not been
\* handed out, and it is gone now.
LEMMA PollAnsweredKeeps ==
    ASSUME HandoverInv, NEW p \in Polls, PollAnswered(p)
    PROVE  HandoverInv'
<1>1. PICK s \in Sessions, l \in Logins : poll[p] = [session |-> s, tokens |-> l]
  <2>1. poll[p] \in PollRecord /\ poll[p].session \in Sessions /\ poll[p].tokens \in Logins
    BY DEF PollAnswered, HandoverInv
  <2>2. poll[p] = [session |-> poll[p].session, tokens |-> poll[p].tokens]
    BY <2>1 DEF PollRecord
  <2>3. QED
    BY <2>1, <2>2
<1>2. /\ session' = [session EXCEPT ![s] = Lapsed] /\ handed' = [handed EXCEPT ![l] = @ + 1]
      /\ poll' = [poll EXCEPT ![p] = NoPoll] /\ login' = login
      /\ session[s].status # "gone"
  BY <1>1 DEF PollAnswered, DelSucceeds, Exists
<1>3. Named(l, s)
  BY <1>1 DEF Named
<1>4. handed[l] = 0 /\ login[l].at = "done"
  BY <1>2, <1>3 DEF HandoverInv
<1>5. \A k \in Logins : handed'[k] = IF k = l THEN 1 ELSE handed[k]
  BY <1>2, <1>4 DEF HandoverInv
<1>6. session' \in [Sessions -> SessionRecord] /\ handed' \in [Logins -> Nat]
  BY <1>2, <1>4, LapsedRecord DEF HandoverInv
<1>7. \A t \in Sessions : session'[t] = IF t = s THEN Lapsed ELSE session[t]
  BY <1>2 DEF HandoverInv
<1>8. NoPoll \in PollRecord
  BY DEF NoPoll, PollRecord
<1>9. /\ poll' \in [Polls -> PollRecord]
      /\ \A q \in Polls : poll'[q] = IF q = p THEN NoPoll ELSE poll[q]
  BY <1>2, <1>8 DEF HandoverInv
<1>10. \A k \in Logins, t \in Sessions : NoPoll # [session |-> t, tokens |-> k]
  BY OAuthAssumption DEF NoPoll, Nothing
<1>11. \A k \in Logins, t \in Sessions : Named(k, t)' => Named(k, t)
  BY <1>7, <1>9, <1>10, LapsedRecord DEF Named
<1>12. \A t \in Sessions :
          /\ session'[t].tokens # Nothing <=> session'[t].status = "completed"
          /\ session[t].status = "gone" \/ t = s => session'[t].status = "gone"
  BY <1>7, LapsedRecord DEF HandoverInv
<1>13. \A t \in Sessions : Named(l, t)' => t = s
  BY <1>3, <1>11 DEF HandoverInv
<1>14. \A q \in Polls : poll'[q] # NoPoll => /\ poll'[q].session \in Sessions
                                            /\ poll'[q].tokens \in Logins
  BY <1>9 DEF HandoverInv
<1>15. QED
  BY <1>2, <1>4, <1>5, <1>6, <1>9, <1>11, <1>12, <1>13, <1>14 DEF HandoverInv

\* The tokens of a login are handed out once, for any number of logins, polls
\* and sessions.
THEOREM TokensHandedOutOnce == OAuthSpec => []HandedOutOnce
<1>1. OAuthInit => HandoverInv
  <2> SUFFICES ASSUME OAuthInit PROVE HandoverInv
    OBVIOUS
  <2> DEFINE unused == [status |-> "unused", tokens |-> Nothing, expired |-> FALSE]
  <2>1. /\ session = [s \in Sessions |-> unused] /\ poll = [p \in Polls |-> NoPoll]
        /\ handed = [l \in Logins |-> 0] /\ DOMAIN login = Logins
    BY DEF OAuthInit
  <2>2. /\ unused \in SessionRecord /\ unused.tokens = Nothing /\ unused.status = "unused"
        /\ NoPoll \in PollRecord
    BY DEF SessionRecord, NoPoll, PollRecord
  <2>3. \A l \in Logins, s \in Sessions :
           Nothing # l /\ NoPoll # [session |-> s, tokens |-> l]
    BY OAuthAssumption DEF NoPoll, Nothing
  <2> HIDE DEF unused
  <2>4. /\ \A s \in Sessions : session[s].tokens = Nothing /\ session[s].status = "unused"
        /\ \A p \in Polls : poll[p] = NoPoll
        /\ \A l \in Logins : handed[l] = 0
    BY <2>1, <2>2
  <2>5. session \in [Sessions -> SessionRecord] /\ poll \in [Polls -> PollRecord]
        /\ handed \in [Logins -> Nat]
    BY <2>1, <2>2
  <2>6. \A l \in Logins, s \in Sessions : ~ Named(l, s)
    BY <2>3, <2>4 DEF Named
  <2>7. QED
    BY <2>1, <2>4, <2>5, <2>6 DEF HandoverInv
<1>2. NewcomerInv /\ HandoverInv /\ [OAuthNext]_oauthVars => HandoverInv'
  <2> SUFFICES ASSUME NewcomerInv, HandoverInv, [OAuthNext]_oauthVars PROVE HandoverInv'
    OBVIOUS
  <2>1. CASE UNCHANGED oauthVars
    <3>1. \A l \in Logins, s \in Sessions : Named(l, s)' <=> Named(l, s)
      BY <2>1 DEF oauthVars, Named
    <3>2. QED
      BY <2>1, <3>1, NamesFade DEF oauthVars, HandoverInv
  <2>2. CASE create_oauth_session \/ cleanup_expired_sessions
             \/ \E s \in Sessions : SessionExpires(s)
    BY <2>2, SessionsFade DEF create_oauth_session, cleanup_expired_sessions, SessionExpires
  <2>3. CASE OAuthNext
    BY <2>2, <2>3, LoginsFadeAll, TokensStoredKeeps, PollSteps, PollAnsweredKeeps
       DEF OAuthNext
  <2>4. QED
    BY <2>1, <2>3
<1>3. HandoverInv => HandedOutOnce
  BY DEF HandoverInv, HandedOutOnce
<1>4. QED
  BY <1>1, <1>2, <1>3, NewcomersRace, PTL DEF OAuthSpec
-----------------------------------------------------------------------------
(* Accounts: while nothing excuses it, some administrator is active, and    *)
(* for every removal past its count some administrator is active besides    *)
(* its target.                                                             *)

RequestRecord ==
    [at : {"idle", "loaded", "files", "commit", "done"},
     kind : {"change", "delete", "leave"}, target : Users \cup {"nobody"},
     was : Standing, will : Standing, files : SUBSET Photos, named : SUBSET Photos,
     failed : BOOLEAN, raced : BOOLEAN]

Removes(r) == ~ (r.will.admin /\ r.will.active)

Safe(r) == ActiveAdmins \ {r.target} # {}

AdminInv ==
    /\ request \in [AdminRequests -> RequestRecord]
    /\ there \subseteq Users
    /\ \A q \in AdminRequests : request[q].kind = "delete" => Removes(request[q])
    /\ ~ excused =>
         /\ ActiveAdmins # {}
         /\ \A q \in AdminRequests :
              LET r == request[q] IN
              PastGuard(r) /\ r.kind # "leave" /\ ~ r.raced /\ Removes(r) => Safe(r)

LEMMA DoneRequest ==
    LET done == [IdleRequest EXCEPT !.at = "done"] IN
    /\ IdleRequest \in RequestRecord /\ IdleRequest.at = "idle"
    /\ done \in RequestRecord /\ done.at = "done" /\ ~ PastGuard(done)
    /\ IdleRequest.kind = "change" /\ done.kind = "change" /\ ~ PastGuard(IdleRequest)
  BY DEF IdleRequest, RequestRecord, Standing, Nobody, PastGuard

\* One request goes on; the accounts stay.
LEMMA RequestGoesOn ==
    ASSUME AdminInv, NEW q \in AdminRequests, NEW r \in RequestRecord,
           request' = [request EXCEPT ![q] = r],
           r.kind = "delete" => Removes(r),
           UNCHANGED <<there, admins, active, excused>>,
           ~ excused /\ PastGuard(r) /\ r.kind # "leave" /\ ~ r.raced /\ Removes(r) => Safe(r)
    PROVE  AdminInv'
<1>1. ActiveAdmins' = ActiveAdmins
  BY DEF ActiveAdmins
<1>2. request' \in [AdminRequests -> RequestRecord]
  BY DEF AdminInv
<1>3. \A k \in AdminRequests : request'[k] = IF k = q THEN r ELSE request[k]
  BY DEF AdminInv
<1>4. QED
  BY <1>1, <1>2, <1>3 DEF AdminInv, Safe, PastGuard, Removes

\* The count leaves somebody besides the target.
LEMMA CountLeavesAnother ==
    ASSUME there \subseteq Users, NEW x, ~ (Cardinality(Counted) <= 1)
    PROVE  ActiveAdmins \ {x} # {}
<1>1. SUFFICES ASSUME ActiveAdmins \subseteq {x} PROVE FALSE
  OBVIOUS
<1>2. ActiveAdmins = {} \/ ActiveAdmins = {x}
  BY <1>1
<1>3. Cardinality(ActiveAdmins) \in {0, 1}
  BY <1>2, FS_EmptySet, FS_Singleton
<1>4. QED
  BY <1>3 DEF Counted

LEMMA RequestSteps ==
    ASSUME AdminInv, NEW q \in AdminRequests,
           \/ \E actor, u \in Users, op \in {"change", "delete"}, will \in Standing :
                  Loads(q, actor, u, op, will)
           \/ \E u \in Users : Leaves(q, u)
           \/ \E p \in Photos : \/ NothingToDelete(q, p)
                                \/ \E outcome \in Outcomes : FileDeleted(q, p, outcome)
           \/ Guarded(q) \/ FilesDone(q)
    PROVE  AdminInv'
<1>1. request[q] \in RequestRecord
  BY DEF AdminInv
<1>2. /\ request[q] # [IdleRequest EXCEPT !.at = "done"]
      /\ UNCHANGED <<there, admins, active, excused>>
  BY DoneRequest
     DEF Loads, Leaves, FileDeleted, NothingToDelete, Guarded, FilesDone, accounts
<1>3. CASE request' = [request EXCEPT ![q] = [IdleRequest EXCEPT !.at = "done"]]
  BY <1>2, <1>3, DoneRequest, RequestGoesOn
<1>4. ASSUME NEW actor \in Users, NEW u \in Users, NEW op \in {"change", "delete"},
             NEW will \in Standing, Loads(q, actor, u, op, will)
      PROVE  AdminInv'
  <2>1. PICK r : /\ r = [IdleRequest EXCEPT !.at = "loaded", !.kind = op, !.target = u,
                                  !.was = [admin |-> u \in admins, active |-> u \in active],
                                  !.will = will]
                 /\ request' = [request EXCEPT ![q] = r]
    BY <1>4 DEF Loads
  <2>2. /\ r.at = "loaded" /\ r.kind = op /\ r.target = u /\ r.will = will
        /\ r \in RequestRecord
    <3>1. r = [at |-> "loaded", kind |-> op, target |-> u,
               was |-> [admin |-> u \in admins, active |-> u \in active], will |-> will,
               files |-> {}, named |-> {}, failed |-> FALSE, raced |-> FALSE]
      BY <2>1 DEF IdleRequest
    <3>2. [admin |-> u \in admins, active |-> u \in active] \in Standing
      BY DEF Standing
    <3>3. QED
      BY <3>1, <3>2 DEF RequestRecord
  <2>6. op = "delete" => Removes(r)
    <3>1. op = "delete" => will = Nobody
      BY <1>4 DEF Loads
    <3>2. ~ Nobody.admin
      BY DEF Nobody
    <3>3. QED
      BY <2>2, <3>1, <3>2 DEF Removes
  <2>3. actor \in ActiveAdmins \ {u}
    BY <1>4 DEF Loads
  <2>4. Safe(r)
    BY <2>2, <2>3 DEF Safe
  <2>5. QED
    BY <1>2, <2>1, <2>2, <2>4, <2>6, RequestGoesOn
<1>5. ASSUME NEW u \in Users, Leaves(q, u) PROVE AdminInv'
  <2>1. PICK r : /\ r = [IdleRequest EXCEPT !.at = "files", !.kind = "leave", !.target = u,
                                            !.files = PhotosOf(u), !.named = SizesOf(u)]
                 /\ request' = [request EXCEPT ![q] = r]
    BY <1>5 DEF Leaves
  <2>2. r \in RequestRecord /\ r.kind = "leave"
    BY <2>1 DEF IdleRequest, RequestRecord, Standing, Nobody, PhotosOf, SizesOf
  <2>3. QED
    BY <1>2, <2>1, <2>2, RequestGoesOn
<1>6. ASSUME NEW p \in Photos, NEW b \in BOOLEAN,
             request' = [request EXCEPT ![q].files = @ \ {p}, ![q].failed = b]
      PROVE  AdminInv'
  <2>1. PICK r : r = [request[q] EXCEPT !.files = @ \ {p}, !.failed = b]
    OBVIOUS
  <2>0. request' = [request EXCEPT ![q] = r]
    BY <1>1, <1>6, <2>1 DEF AdminInv, RequestRecord
  <2>2. /\ r \in RequestRecord /\ r.at = request[q].at /\ r.kind = request[q].kind
        /\ r.raced = request[q].raced /\ r.will = request[q].will
        /\ r.was = request[q].was /\ r.target = request[q].target
    BY <1>1, <2>1 DEF RequestRecord
  <2>3. /\ PastGuard(r) <=> PastGuard(request[q])
        /\ Removes(r) <=> Removes(request[q])
        /\ Safe(request[q]) => Safe(r)
    BY <2>2 DEF PastGuard, Removes, Safe
  <2>4. /\ r.kind = "delete" => Removes(r)
        /\ ~ excused /\ PastGuard(r) /\ r.kind # "leave" /\ ~ r.raced /\ Removes(r) => Safe(r)
    BY <2>2, <2>3 DEF AdminInv
  <2>5. QED
    BY <1>2, <2>0, <2>2, <2>4, RequestGoesOn
<1>10. ASSUME NEW p \in Photos, NEW outcome \in Outcomes, FileDeleted(q, p, outcome)
       PROVE  AdminInv'
  <2>1. PICK b \in BOOLEAN : b = (request[q].failed \/ outcome = "failed")
    OBVIOUS
  <2>2. request' = [request EXCEPT ![q].files = @ \ {p}, ![q].failed = b]
    BY <1>1, <1>10, <2>1 DEF FileDeleted, AdminInv, RequestRecord
  <2>3. QED
    BY <1>6, <2>2
<1>11. ASSUME NEW p \in Photos, NothingToDelete(q, p) PROVE AdminInv'
  <2>1. PICK b \in BOOLEAN : b = request[q].failed
    BY <1>1 DEF RequestRecord
  <2>2. request' = [request EXCEPT ![q].files = @ \ {p}, ![q].failed = b]
    BY <1>1, <1>11, <2>1 DEF NothingToDelete, AdminInv, RequestRecord
  <2>3. QED
    BY <1>6, <2>2
<1>7. CASE FilesDone(q) /\ ~ Aborts(q)
  <2>1. PICK r : /\ r = [request[q] EXCEPT !.at = "commit"]
                 /\ request' = [request EXCEPT ![q] = r]
    BY <1>7 DEF FilesDone
  <2>2. /\ r \in RequestRecord /\ r.kind = request[q].kind
        /\ r.raced = request[q].raced /\ r.will = request[q].will
        /\ r.target = request[q].target
    BY <1>1, <2>1 DEF RequestRecord
  <2>3. PastGuard(request[q])
    BY <1>7 DEF FilesDone, PastGuard
  <2>4. QED
    BY <1>2, <2>1, <2>2, <2>3, RequestGoesOn DEF AdminInv, Removes, Safe
<1>8. CASE Guarded(q) /\ request' # [request EXCEPT ![q] = [IdleRequest EXCEPT !.at = "done"]]
  <2>1. PICK r : /\ r = [request[q] EXCEPT
                           !.at = IF request[q].kind = "change" THEN "commit" ELSE "files",
                           !.files = IF request[q].kind = "change"
                                     THEN @ ELSE PhotosOf(request[q].target),
                           !.named = IF request[q].kind = "change"
                                     THEN @ ELSE SizesOf(request[q].target)]
                 /\ request' = [request EXCEPT ![q] = r]
    BY <1>1, <1>8 DEF Guarded, RequestRecord
  <2>2. /\ r \in RequestRecord /\ r.kind = request[q].kind
        /\ r.raced = request[q].raced /\ r.will = request[q].will
        /\ r.was = request[q].was /\ r.target = request[q].target
    BY <1>1, <2>1 DEF RequestRecord, PhotosOf, SizesOf
  <2>3. request[q].at = "loaded" /\ (Removes(request[q]) => ~ LastActiveAdmin(request[q].was))
    BY <1>8 DEF Guarded, Removes
  <2>4. CASE PastGuard(request[q])
    BY <1>2, <2>1, <2>2, <2>4, RequestGoesOn DEF AdminInv, Removes, Safe
  <2>5. CASE ~ PastGuard(request[q])
    <3>1. Removes(r) => Safe(r)
      BY <2>2, <2>3, <2>5, CountLeavesAnother
         DEF AdminInv, PastGuard, LastActiveAdmin, Safe, Removes
    <3>2. QED
      BY <1>2, <2>1, <2>2, <3>1, RequestGoesOn DEF AdminInv, Removes
  <2>6. QED
    BY <2>4, <2>5
<1>9. QED
  BY <1>3, <1>4, <1>5, <1>7, <1>8, <1>10, <1>11 DEF FilesDone, Guarded

\* A commit removes its target at most; whoever counted before it has raced.
LEMMA RemovalKeeps ==
    ASSUME AdminInv, NEW q \in AdminRequests, PastGuard(request[q]), there' \subseteq Users,
           Committed(q, ActiveAdmins \ ActiveAdmins'),
           \A a \in ActiveAdmins \ ActiveAdmins' :
               a = request[q].target /\ (request[q].kind = "leave" \/ Removes(request[q]))
    PROVE  AdminInv'
<1> DEFINE removed == ActiveAdmins \ ActiveAdmins'
<1>0. /\ Committed(q, removed) /\ removed \subseteq {request[q].target}
      /\ removed # {} => request[q].kind = "leave" \/ Removes(request[q])
  OBVIOUS
<1> HIDE DEF removed
<1>1. \A k \in AdminRequests :
        /\ request[k] \in RequestRecord
        /\ request'[k] = IF k = q THEN [IdleRequest EXCEPT !.at = "done"]
                         ELSE IF PastGuard(request[k])
                              THEN [request[k] EXCEPT !.raced = @ \/ removed # {}]
                              ELSE request[k]
  BY <1>0 DEF AdminInv, Committed
<1>2. \A k \in AdminRequests :
        /\ request'[k] \in RequestRecord
        /\ request'[k].kind = "delete" => Removes(request'[k])
        /\ PastGuard(request'[k]) =>
             /\ k # q /\ PastGuard(request[k])
             /\ request'[k].target = request[k].target /\ request'[k].kind = request[k].kind
             /\ request'[k].will = request[k].will
             /\ ~ request'[k].raced => ~ request[k].raced /\ removed = {}
  <2> SUFFICES ASSUME NEW k \in AdminRequests
               PROVE  /\ request'[k] \in RequestRecord
                      /\ request'[k].kind = "delete" => Removes(request'[k])
                      /\ PastGuard(request'[k]) =>
                           /\ k # q /\ PastGuard(request[k])
                           /\ request'[k].target = request[k].target
                           /\ request'[k].kind = request[k].kind
                           /\ request'[k].will = request[k].will
                           /\ ~ request'[k].raced => ~ request[k].raced /\ removed = {}
    OBVIOUS
  <2>1. CASE k = q
    BY <1>1, <2>1, DoneRequest
  <2>2. CASE k # q /\ PastGuard(request[k])
    <3>1. request'[k] = [request[k] EXCEPT !.raced = @ \/ removed # {}]
      BY <1>1, <2>2
    <3>2. request[k] \in RequestRecord
      BY <1>1
    <3>3. request[k].kind = "delete" => Removes(request[k])
      BY DEF AdminInv
    <3>4. QED
      BY <2>2, <3>1, <3>2, <3>3 DEF RequestRecord, Removes
  <2>3. CASE k # q /\ ~ PastGuard(request[k])
    BY <1>1, <2>3 DEF AdminInv
  <2>4. QED
    BY <2>1, <2>2, <2>3
<1>3. request' \in [AdminRequests -> RequestRecord]
  <2>1. request' = [k \in AdminRequests |-> request'[k]]
    BY <1>0 DEF Committed
  <2>2. QED
    BY <1>2, <2>1
<1>4. ASSUME ~ excused' PROVE
         /\ ActiveAdmins' # {}
         /\ \A k \in AdminRequests :
              PastGuard(request'[k]) /\ request'[k].kind # "leave" /\ ~ request'[k].raced
                /\ Removes(request'[k]) => ActiveAdmins' \ {request'[k].target} # {}
  <2>1. ~ excused /\ (removed # {} => ~ request[q].raced /\ request[q].kind # "leave")
    BY <1>0, <1>4 DEF Committed
  <2>2. CASE removed = {}
    <3>1. ActiveAdmins \subseteq ActiveAdmins'
      BY <2>2 DEF removed
    <3>2. QED
      BY <1>2, <2>1, <2>2, <3>1 DEF AdminInv, Safe, Removes
  <2>3. CASE removed # {}
    <3>1. Safe(request[q])
      BY <1>0, <2>1, <2>3 DEF AdminInv
    <3>2. ActiveAdmins' # {}
      BY <1>0, <3>1 DEF Safe, removed
    <3>3. QED
      BY <1>2, <2>3, <3>2
  <2>4. QED
    BY <2>2, <2>3
<1>5. QED
  BY <1>2, <1>3, <1>4 DEF AdminInv, Removes, Safe

\* An active administrator remains, for any number of users and requests.
THEOREM AdministratorRemains == AccountsSpec => []AdminRemains
<1>1. AccountsInit => AdminInv
  <2> SUFFICES ASSUME AccountsInit PROVE AdminInv
    OBVIOUS
  <2>1. request = [q \in AdminRequests |-> IdleRequest]
    BY DEF AccountsInit
  <2>2. \A q \in AdminRequests : request[q] = IdleRequest
    BY <2>1
  <2>3. request \in [AdminRequests -> RequestRecord]
    BY <2>1, DoneRequest
  <2>4. there = Users /\ ActiveAdmins # {}
    BY DEF AccountsInit, ActiveAdmins
  <2>5. QED
    BY <2>2, <2>3, <2>4, DoneRequest DEF AdminInv
<1>2. AdminInv /\ [AccountsNext]_accountVars => AdminInv'
  <2> SUFFICES ASSUME AdminInv, [AccountsNext]_accountVars PROVE AdminInv'
    OBVIOUS
  <2>1. CASE UNCHANGED <<there, admins, active, request, excused>>
    BY <2>1 DEF AdminInv, ActiveAdmins, Safe
  <2>2. ASSUME NEW q \in AdminRequests, CommitChange(q) PROVE AdminInv'
    <3>1. PICK r : r = request[q] /\ r \in RequestRecord
      BY DEF AdminInv
    <3>2. /\ there' = there /\ PastGuard(r)
          /\ Committed(q, ActiveAdmins \ (admins' \cap active'))
          /\ \A a \in ActiveAdmins : a \notin admins' \cap active' => a = r.target /\ Removes(r)
      BY <2>2, <3>1 DEF CommitChange, PastGuard, Set, Removes, ActiveAdmins
    <3>3. ActiveAdmins \ (admins' \cap active') = ActiveAdmins \ ActiveAdmins'
      BY <3>2 DEF ActiveAdmins
    <3>4. /\ Committed(q, ActiveAdmins \ ActiveAdmins') /\ PastGuard(request[q])
          /\ there' \subseteq Users
      BY <3>1, <3>2, <3>3 DEF AdminInv
    <3>5. \A a \in ActiveAdmins \ ActiveAdmins' : a = request[q].target /\ Removes(request[q])
      BY <3>1, <3>2, <3>3
    <3>6. QED
      BY <3>4, <3>5, RemovalKeeps
  <2>3. ASSUME NEW q \in AdminRequests, CommitDelete(q) PROVE AdminInv'
    <3>1. /\ there' = there \ {request[q].target} /\ UNCHANGED <<admins, active>>
          /\ PastGuard(request[q]) /\ Committed(q, ActiveAdmins \cap {request[q].target})
      BY <2>3 DEF CommitDelete, PastGuard
    <3>2. ActiveAdmins \cap {request[q].target} = ActiveAdmins \ ActiveAdmins'
      BY <3>1 DEF ActiveAdmins
    <3>3. /\ Committed(q, ActiveAdmins \ ActiveAdmins') /\ there' \subseteq Users
          /\ \A a \in ActiveAdmins \ ActiveAdmins' : a = request[q].target
      BY <3>1, <3>2 DEF AdminInv
    <3>4. request[q].kind = "leave" \/ Removes(request[q])
      BY <2>3 DEF CommitDelete, AdminInv, RequestRecord
    <3>5. QED
      BY <3>1, <3>3, <3>4, RemovalKeeps
  <2>4. QED
    BY <2>1, <2>2, <2>3, RequestSteps
       DEF AccountsNext, accountVars, accounts, PhotoArrives, FileChecked, FileStreamed,
           SizesRecorded
<1>3. AdminInv => AdminRemains
  BY DEF AdminInv, AdminRemains
<1>4. QED
  BY <1>1, <1>2, <1>3, PTL DEF AccountsSpec
-----------------------------------------------------------------------------
(* Accounts: a deletion on its way has a reason to leave the files of a     *)
(* photo that it read, or has its sizes, which are recorded for good, and   *)
(* still holds it, has removed its files or will stop.                      *)

PhotoRecord == [owner : Users \cup {"nobody"}, row : BOOLEAN, sizes : BOOLEAN,
                posting : BOOLEAN, file : BOOLEAN, spared : SUBSET AdminRequests]

Deletion(r) == r.at \in {"files", "commit"} /\ r.kind # "change"

\* What request q, which is as r says, owes to photo p, which is as x says.
Covered(q, r, p, x) ==
    Deletion(r) /\ x.owner = r.target /\ x.row =>
        \/ q \in x.spared
        \/ /\ x.sizes /\ ~ x.posting
           /\ \/ ~ x.file \/ p \in r.files \cap r.named
              \/ r.kind = "leave" /\ r.failed

\* Without its row, a photo has no files and none on the way, or a reason.
Accounted(x) == x.row \/ x.spared # {} \/ (~ x.file /\ ~ x.posting)

Settled(r) ==
    r.at = "commit" /\ r.kind # "change" =>
        r.files = {} /\ ~ (r.kind = "leave" /\ r.failed)

FileInv ==
    /\ request \in [AdminRequests -> RequestRecord]
    /\ photo \in [Photos -> PhotoRecord]
    /\ \A p \in Photos : Accounted(photo[p])
    /\ \A q \in AdminRequests, p \in Photos : Covered(q, request[q], p, photo[p])
    /\ \A q \in AdminRequests : Settled(request[q])

\* From x to y, files go and reasons come.
Fades(x, y) ==
    /\ y.owner = x.owner /\ y.row = x.row /\ y.sizes = x.sizes /\ y.posting = x.posting
    /\ (y.file => x.file) /\ x.spared \subseteq y.spared

\* One request goes on, and the photos fade at most.
LEMMA DeletionGoesOn ==
    ASSUME FileInv, NEW q \in AdminRequests, NEW r \in RequestRecord,
           request' = [request EXCEPT ![q] = r], photo' \in [Photos -> PhotoRecord],
           \A p \in Photos : Fades(photo[p], photo'[p]),
           \A p \in Photos : Covered(q, r, p, photo'[p]), Settled(r)
    PROVE  FileInv'
<1>1. request' \in [AdminRequests -> RequestRecord]
  BY DEF FileInv
<1>2. \A k \in AdminRequests : request'[k] = IF k = q THEN r ELSE request[k]
  BY DEF FileInv
<1>3. \A p \in Photos : Accounted(photo'[p])
  BY DEF FileInv, Fades, Accounted
<1>4. ASSUME NEW k \in AdminRequests, NEW p \in Photos
      PROVE  Covered(k, request'[k], p, photo'[p])
  <2>1. Covered(k, request[k], p, photo[p])
    BY DEF FileInv
  <2>2. CASE k = q
    BY <1>2, <2>2
  <2>3. CASE k # q
    BY <1>2, <2>1, <2>3 DEF Fades, Covered
  <2>4. QED
    BY <2>2, <2>3
<1>5. QED
  BY <1>1, <1>2, <1>3, <1>4 DEF FileInv

\* A request that owes nothing goes on.
LEMMA OtherGoesOn ==
    ASSUME FileInv, NEW q \in AdminRequests, NEW r \in RequestRecord,
           request' = [request EXCEPT ![q] = r], photo' = photo, ~ Deletion(r)
    PROVE  FileInv'
<1>1. photo' \in [Photos -> PhotoRecord] /\ \A p \in Photos : Fades(photo[p], photo'[p])
  BY DEF FileInv, Fades
<1>2. Settled(r) /\ \A p \in Photos : Covered(q, r, p, photo'[p])
  BY DEF Settled, Covered, Deletion
<1>3. QED
  BY <1>1, <1>2, DeletionGoesOn

\* A deletion that reads the photos owes nothing to those that are in processing.
LEMMA ReadingKeeps ==
    ASSUME FileInv, NEW q \in AdminRequests, NEW u, NEW r \in RequestRecord,
           request' = [request EXCEPT ![q] = r], ReadsPhotos(q, u),
           r.at = "files", r.target = u, r.files = PhotosOf(u), r.named = SizesOf(u)
    PROVE  FileInv'
<1>1. ASSUME NEW p \in Photos
      PROVE  /\ photo'[p] \in PhotoRecord /\ Fades(photo[p], photo'[p])
             /\ Covered(q, r, p, photo'[p])
  <2>1. photo[p] \in PhotoRecord
    BY DEF FileInv
  <2>2. CASE p \in PhotosOf(u) /\ ~ Complete(p)
    <3>1. photo'[p] = [photo[p] EXCEPT !.spared = @ \cup {q}]
      BY <2>2 DEF ReadsPhotos
    <3>2. QED
      BY <2>1, <3>1 DEF PhotoRecord, Fades, Covered
  <2>3. CASE ~ (p \in PhotosOf(u) /\ ~ Complete(p))
    <3>1. photo'[p] = photo[p]
      BY <2>3 DEF ReadsPhotos
    <3>2. QED
      BY <2>1, <2>3, <3>1 DEF Fades, Covered, PhotosOf, SizesOf, Complete
  <2>4. QED
    BY <2>2, <2>3
<1>2. photo' \in [Photos -> PhotoRecord]
  <2>1. photo' = [p \in Photos |-> photo'[p]]
    BY DEF ReadsPhotos
  <2>2. QED
    BY <1>1, <2>1
<1>3. Settled(r)
  BY DEF Settled
<1>4. QED
  BY <1>1, <1>2, <1>3, DeletionGoesOn

LEMMA DeletionSteps ==
    ASSUME FileInv, NEW q \in AdminRequests,
           \/ \E actor, u \in Users, op \in {"change", "delete"}, will \in Standing :
                  Loads(q, actor, u, op, will)
           \/ \E u \in Users : Leaves(q, u)
           \/ Guarded(q) \/ FilesDone(q)
    PROVE  FileInv'
<1>1. request[q] \in RequestRecord
  BY DEF FileInv
<1>2. CASE /\ request' = [request EXCEPT ![q] = [IdleRequest EXCEPT !.at = "done"]]
           /\ photo' = photo
  BY <1>2, DoneRequest, OtherGoesOn DEF Deletion
<1>3. ASSUME NEW actor \in Users, NEW u \in Users, NEW op \in {"change", "delete"},
             NEW will \in Standing, Loads(q, actor, u, op, will)
      PROVE  FileInv'
  <2>1. PICK was \in Standing :
          request' = [request EXCEPT ![q] =
                        [IdleRequest EXCEPT !.at = "loaded", !.kind = op, !.target = u,
                                            !.was = was, !.will = will]]
    <3>1. [admin |-> u \in admins, active |-> u \in active] \in Standing
      BY DEF Standing
    <3>2. request' = [request EXCEPT ![q] =
             [IdleRequest EXCEPT !.at = "loaded", !.kind = op, !.target = u,
                                 !.was = [admin |-> u \in admins, active |-> u \in active],
                                 !.will = will]]
      BY <1>3 DEF Loads
    <3>3. QED
      BY <3>1, <3>2
  <2>2. PICK r : /\ r = [IdleRequest EXCEPT !.at = "loaded", !.kind = op, !.target = u,
                                            !.was = was, !.will = will]
                 /\ request' = [request EXCEPT ![q] = r]
    BY <2>1
  <2>3. r = [at |-> "loaded", kind |-> op, target |-> u, was |-> was, will |-> will,
             files |-> {}, named |-> {}, failed |-> FALSE, raced |-> FALSE]
    BY <2>2 DEF IdleRequest
  <2>4. r \in RequestRecord /\ r.at = "loaded"
    BY <2>3 DEF RequestRecord
  <2>5. photo' = photo
    BY <1>3 DEF Loads
  <2>6. QED
    BY <2>2, <2>4, <2>5, OtherGoesOn DEF Deletion
<1>4. ASSUME NEW u \in Users, Leaves(q, u) PROVE FileInv'
  <2>1. PICK r : /\ r = [IdleRequest EXCEPT !.at = "files", !.kind = "leave", !.target = u,
                                            !.files = PhotosOf(u), !.named = SizesOf(u)]
                 /\ request' = [request EXCEPT ![q] = r]
    BY <1>4 DEF Leaves
  <2>2. /\ r \in RequestRecord /\ r.at = "files" /\ r.target = u
        /\ r.files = PhotosOf(u) /\ r.named = SizesOf(u)
    BY <2>1 DEF IdleRequest, RequestRecord, Standing, Nobody, PhotosOf, SizesOf
  <2>3. ReadsPhotos(q, u)
    BY <1>4 DEF Leaves
  <2>4. QED
    BY <2>1, <2>2, <2>3, ReadingKeeps
<1>5. CASE FilesDone(q) /\ ~ Aborts(q)
  <2>1. PICK r : /\ r = [request[q] EXCEPT !.at = "commit"]
                 /\ request' = [request EXCEPT ![q] = r]
    BY <1>5 DEF FilesDone
  <2>2. /\ r \in RequestRecord /\ r.at = "commit" /\ r.kind = request[q].kind
        /\ r.files = request[q].files /\ r.named = request[q].named
        /\ r.failed = request[q].failed /\ r.target = request[q].target
    BY <1>1, <2>1 DEF RequestRecord
  <2>3. request[q].at = "files" /\ r.files = {} /\ ~ (r.failed /\ r.kind = "leave")
    BY <1>5, <2>2 DEF FilesDone, Aborts
  <2>4. photo' = photo
    BY <1>5 DEF FilesDone
  <2>5. \A p \in Photos : Covered(q, r, p, photo'[p])
    BY <2>2, <2>3, <2>4 DEF FileInv, Covered, Deletion
  <2>6. photo' \in [Photos -> PhotoRecord] /\ \A p \in Photos : Fades(photo[p], photo'[p])
    BY <2>4 DEF FileInv, Fades
  <2>7. Settled(r)
    BY <2>3 DEF Settled
  <2>8. QED
    BY <2>1, <2>2, <2>5, <2>6, <2>7, DeletionGoesOn
<1>6. CASE Guarded(q) /\ request[q].kind # "change" /\ ReadsPhotos(q, request[q].target)
           /\ request' = [request EXCEPT ![q] =
                 [request[q] EXCEPT !.at = "files", !.files = PhotosOf(request[q].target),
                                    !.named = SizesOf(request[q].target)]]
  <2>1. PICK r : /\ r = [request[q] EXCEPT !.at = "files",
                                           !.files = PhotosOf(request[q].target),
                                           !.named = SizesOf(request[q].target)]
                 /\ request' = [request EXCEPT ![q] = r]
    BY <1>6
  <2>2. /\ r \in RequestRecord /\ r.at = "files" /\ r.target = request[q].target
        /\ r.files = PhotosOf(request[q].target) /\ r.named = SizesOf(request[q].target)
    BY <1>1, <2>1 DEF RequestRecord, PhotosOf, SizesOf
  <2>3. QED
    BY <1>6, <2>1, <2>2, ReadingKeeps
<1>7. CASE Guarded(q) /\ request[q].kind = "change" /\ photo' = photo
           /\ request' = [request EXCEPT ![q] = [request[q] EXCEPT !.at = "commit"]]
  <2>1. PICK r : /\ r = [request[q] EXCEPT !.at = "commit"]
                 /\ request' = [request EXCEPT ![q] = r]
    BY <1>7
  <2>2. r \in RequestRecord /\ r.kind = "change"
    BY <1>1, <1>7, <2>1 DEF RequestRecord
  <2>3. QED
    BY <1>7, <2>1, <2>2, OtherGoesOn DEF Deletion
<1>8. CASE Guarded(q)
  BY <1>2, <1>6, <1>7, <1>8 DEF Guarded
<1>9. CASE FilesDone(q)
  BY <1>2, <1>5, <1>9 DEF FilesDone
<1>10. QED
  BY <1>3, <1>4, <1>8, <1>9

\* A file is gone, or is left for a reason, or its deletion will stop.
LEMMA FileDeletedKeeps ==
    ASSUME FileInv, NEW q \in AdminRequests, NEW x \in Photos, NEW outcome \in Outcomes,
           FileDeleted(q, x, outcome)
    PROVE  FileInv'
<1>1. PICK y : y = [photo[x] EXCEPT !.file = @ /\ outcome # "gone",
                                    !.spared = @ \cup Sparing(q, outcome)]
  OBVIOUS
<1>2. PICK r : r = [request[q] EXCEPT !.files = @ \ {x}, !.failed = @ \/ outcome = "failed"]
  OBVIOUS
<1>3. /\ request[q] \in RequestRecord /\ photo[x] \in PhotoRecord
      /\ request[q].at = "files" /\ Sparing(q, outcome) \subseteq {q}
  BY DEF FileInv, FileDeleted, Sparing
<1>4. /\ y \in PhotoRecord /\ Fades(photo[x], y)
      /\ y.file => photo[x].file /\ outcome # "gone"
      /\ Sparing(q, outcome) \subseteq y.spared
  BY <1>1, <1>3 DEF PhotoRecord, Fades
<1>5. /\ r \in RequestRecord /\ r.at = "files" /\ r.kind = request[q].kind
      /\ r.target = request[q].target /\ r.files = request[q].files \ {x}
      /\ r.named = request[q].named
      /\ request[q].failed \/ outcome = "failed" => r.failed
  BY <1>2, <1>3 DEF RequestRecord
<1>6. /\ photo' = [photo EXCEPT ![x] = y]
      /\ request' = [request EXCEPT ![q] = r]
  BY <1>1, <1>2, <1>3 DEF FileDeleted, PhotoRecord, RequestRecord, FileInv
<1>7. /\ photo' \in [Photos -> PhotoRecord]
      /\ \A p \in Photos : photo'[p] = IF p = x THEN y ELSE photo[p]
      /\ \A p \in Photos : Fades(photo[p], photo'[p])
  BY <1>4, <1>6 DEF FileInv, Fades
<1>8. ASSUME NEW p \in Photos PROVE Covered(q, r, p, photo'[p])
  <2>1. Covered(q, request[q], p, photo[p])
    BY DEF FileInv
  <2>2. CASE p = x
    <3>1. outcome = "left" \/ (outcome = "failed" /\ r.kind = "delete") => q \in y.spared
      BY <1>4, <1>5 DEF Sparing
    <3>2. r.kind \in {"change", "delete", "leave"} /\ outcome \in {"gone", "left", "failed"}
      BY <1>5 DEF RequestRecord, Outcomes
    <3>3. QED
      BY <1>3, <1>4, <1>5, <1>7, <2>1, <2>2, <3>1, <3>2 DEF Covered, Deletion, Fades
  <2>3. CASE p # x
    BY <1>3, <1>5, <1>7, <2>1, <2>3 DEF Covered, Deletion
  <2>4. QED
    BY <2>2, <2>3
<1>9. Settled(r)
  BY <1>5 DEF Settled
<1>10. QED
  BY <1>5, <1>6, <1>7, <1>8, <1>9, DeletionGoesOn

\* Only what was read without sizes is passed over.
LEMMA NothingDeletedKeeps ==
    ASSUME FileInv, NEW q \in AdminRequests, NEW x \in Photos, NothingToDelete(q, x)
    PROVE  FileInv'
<1>1. PICK r : r = [request[q] EXCEPT !.files = @ \ {x}]
  OBVIOUS
<1>2. request[q] \in RequestRecord /\ request[q].at = "files" /\ x \notin request[q].named
  BY DEF FileInv, NothingToDelete
<1>3. /\ r \in RequestRecord /\ r.at = "files" /\ r.kind = request[q].kind
      /\ r.target = request[q].target /\ r.files = request[q].files \ {x}
      /\ r.named = request[q].named /\ r.failed = request[q].failed
  BY <1>1, <1>2 DEF RequestRecord
<1>4. request' = [request EXCEPT ![q] = r] /\ photo' = photo
  BY <1>1, <1>2 DEF NothingToDelete, FileInv, RequestRecord
<1>5. photo' \in [Photos -> PhotoRecord] /\ \A p \in Photos : Fades(photo[p], photo'[p])
  BY <1>4 DEF FileInv, Fades
<1>6. \A p \in Photos : Covered(q, r, p, photo'[p])
  BY <1>2, <1>3, <1>4 DEF FileInv, Covered, Deletion
<1>7. Settled(r)
  BY <1>3 DEF Settled
<1>8. QED
  BY <1>3, <1>4, <1>5, <1>6, <1>7, DeletionGoesOn

\* What is authorized, posted or recorded meanwhile: sizes that are recorded stay
\* with the row, and nothing is posted once they are.
LEMMA PhotoStepsKeep ==
    ASSUME FileInv, NEW x \in Photos,
           \/ \E u \in Users : PhotoArrives(x, u)
           \/ FileChecked(x) \/ SizesRecorded(x)
           \/ \E whole \in BOOLEAN : FileStreamed(x, whole)
    PROVE  FileInv'
<1>1. photo[x] \in PhotoRecord /\ request' = request
  BY DEF FileInv, PhotoArrives, FileChecked, SizesRecorded, FileStreamed
<1>2. SUFFICES ASSUME NEW y \in PhotoRecord, photo' = [photo EXCEPT ![x] = y],
                      Accounted(y),
                      \A k \in AdminRequests : Covered(k, request[k], x, y)
               PROVE  FileInv'
  <2>1. ASSUME NEW u \in Users, PhotoArrives(x, u)
        PROVE  \E y \in PhotoRecord :
                  /\ photo' = [photo EXCEPT ![x] = y] /\ Accounted(y)
                  /\ \A k \in AdminRequests : Covered(k, request[k], x, y)
    <3>1. PICK y : y = [photo[x] EXCEPT !.owner = u, !.row = TRUE, !.sizes = FALSE,
                                        !.spared = @ \cup Deleting(u)]
      OBVIOUS
    <3>2. /\ y \in PhotoRecord /\ y.owner = u /\ y.row /\ Deleting(u) \subseteq y.spared
      BY <1>1, <3>1 DEF PhotoRecord, Deleting
    <3>3. photo' = [photo EXCEPT ![x] = y]
      BY <1>1, <2>1, <3>1 DEF PhotoArrives, FileInv, PhotoRecord
    <3>4. ASSUME NEW k \in AdminRequests PROVE Covered(k, request[k], x, y)
      BY <3>2 DEF Covered, Deletion, Deleting, Target
    <3>5. QED
      BY <3>2, <3>3, <3>4 DEF Accounted
  <2>2. ASSUME NEW sizes \in BOOLEAN, NEW posting \in BOOLEAN, NEW file \in BOOLEAN,
               photo' = [photo EXCEPT ![x] = [photo[x] EXCEPT !.sizes = sizes,
                                                  !.posting = posting, !.file = file]],
               photo[x].row \/ photo[x].posting,
               ~ photo[x].sizes \/ photo[x].posting
        PROVE  \E y \in PhotoRecord :
                  /\ photo' = [photo EXCEPT ![x] = y] /\ Accounted(y)
                  /\ \A k \in AdminRequests : Covered(k, request[k], x, y)
    <3>1. PICK y : y = [photo[x] EXCEPT !.sizes = sizes, !.posting = posting, !.file = file]
      OBVIOUS
    <3>2. /\ y \in PhotoRecord /\ y.owner = photo[x].owner /\ y.row = photo[x].row
          /\ y.spared = photo[x].spared
      BY <1>1, <3>1 DEF PhotoRecord
    <3>3. Accounted(photo[x]) /\ \A k \in AdminRequests : Covered(k, request[k], x, photo[x])
      BY DEF FileInv
    <3>4. Accounted(y)
      BY <2>2, <3>2, <3>3 DEF Accounted
    <3>5. \A k \in AdminRequests : Covered(k, request[k], x, y)
      BY <2>2, <3>2, <3>3 DEF Covered
    <3>6. QED
      BY <2>2, <3>1, <3>2, <3>4, <3>5
  <2>3. CASE FileChecked(x)
    <3>1. photo' = [photo EXCEPT ![x] = [photo[x] EXCEPT !.sizes = photo[x].sizes,
                                             !.posting = TRUE, !.file = photo[x].file]]
      BY <1>1, <2>3 DEF FileChecked, FileInv, PhotoRecord
    <3>2. /\ photo[x].sizes \in BOOLEAN /\ photo[x].file \in BOOLEAN
          /\ photo[x].row /\ ~ photo[x].sizes
      BY <1>1, <2>3 DEF FileChecked, PhotoRecord
    <3>3. QED
      BY <2>2, <3>1, <3>2
  <2>4. CASE SizesRecorded(x)
    <3>1. photo' = [photo EXCEPT ![x] = [photo[x] EXCEPT !.sizes = TRUE,
                             !.posting = photo[x].posting, !.file = photo[x].file]]
      BY <1>1, <2>4 DEF SizesRecorded, FileInv, PhotoRecord
    <3>2. /\ photo[x].posting \in BOOLEAN /\ photo[x].file \in BOOLEAN
          /\ photo[x].row /\ ~ photo[x].sizes
      BY <1>1, <2>4 DEF SizesRecorded, PhotoRecord
    <3>3. QED
      BY <2>2, <3>1, <3>2
  <2>5. ASSUME NEW whole \in BOOLEAN, FileStreamed(x, whole)
        PROVE  \E y \in PhotoRecord :
                  /\ photo' = [photo EXCEPT ![x] = y] /\ Accounted(y)
                  /\ \A k \in AdminRequests : Covered(k, request[k], x, y)
    <3>1. PICK y : y = [photo[x] EXCEPT !.posting = FALSE, !.file = @ \/ whole]
      OBVIOUS
    <3>2. photo' = [photo EXCEPT ![x] = y] /\ y \in PhotoRecord
      BY <1>1, <2>5, <3>1 DEF FileStreamed, FileInv, PhotoRecord
    <3>3. y = [photo[x] EXCEPT !.sizes = photo[x].sizes, !.posting = FALSE, !.file = y.file]
      BY <1>1, <3>1 DEF PhotoRecord
    <3>4. photo[x].sizes \in BOOLEAN /\ y.file \in BOOLEAN /\ photo[x].posting
      BY <1>1, <2>5, <3>2 DEF FileStreamed, PhotoRecord
    <3>5. QED
      BY <2>2, <3>2, <3>3, <3>4
  <2>6. QED
    BY <2>1, <2>3, <2>4, <2>5, <2>2
<1>3. /\ photo' \in [Photos -> PhotoRecord]
      /\ \A p \in Photos : photo'[p] = IF p = x THEN y ELSE photo[p]
  BY <1>2 DEF FileInv
<1>4. QED
  BY <1>1, <1>2, <1>3 DEF FileInv

LEMMA DeletionCommits ==
    ASSUME FileInv, NEW q \in AdminRequests, CommitChange(q) \/ CommitDelete(q)
    PROVE  FileInv'
<1>1. \A k \in AdminRequests :
        /\ request[k] \in RequestRecord
        /\ request'[k] \in RequestRecord
        /\ \/ k = q /\ request'[k].at = "done"
           \/ /\ request'[k].at = request[k].at /\ request'[k].kind = request[k].kind
              /\ request'[k].target = request[k].target
              /\ request'[k].files = request[k].files
              /\ request'[k].named = request[k].named
              /\ request'[k].failed = request[k].failed
  <2> SUFFICES ASSUME NEW k \in AdminRequests
               PROVE  /\ request[k] \in RequestRecord
                      /\ request'[k] \in RequestRecord
                      /\ \/ k = q /\ request'[k].at = "done"
                         \/ /\ request'[k].at = request[k].at
                            /\ request'[k].kind = request[k].kind
                            /\ request'[k].target = request[k].target
                            /\ request'[k].files = request[k].files
                            /\ request'[k].named = request[k].named
                            /\ request'[k].failed = request[k].failed
    OBVIOUS
  <2>1. request[k] \in RequestRecord
    BY DEF FileInv
  <2>2. k = q => request'[k] = [IdleRequest EXCEPT !.at = "done"]
    BY DEF CommitChange, CommitDelete, Committed
  <2>3. PICK b \in BOOLEAN :
          k # q => request'[k] = [request[k] EXCEPT !.raced = b] \/ request'[k] = request[k]
    BY <2>1 DEF CommitChange, CommitDelete, Committed, RequestRecord
  <2>4. CASE k = q
    BY <2>1, <2>2, <2>4, DoneRequest
  <2>5. CASE k # q
    BY <2>1, <2>3, <2>5 DEF RequestRecord
  <2>6. QED
    BY <2>4, <2>5
<1>2. request' \in [AdminRequests -> RequestRecord]
  <2>1. request' = [k \in AdminRequests |-> request'[k]]
    BY DEF CommitChange, CommitDelete, Committed
  <2>2. QED
    BY <1>1, <2>1
<1>3. \A k \in AdminRequests : Settled(request'[k])
  BY <1>1 DEF FileInv, Settled
<1>4. \A k \in AdminRequests, p \in Photos : Covered(k, request'[k], p, photo[p])
  BY <1>1 DEF FileInv, Covered, Deletion
<1>5. CASE CommitChange(q)
  <2>1. photo' = photo
    BY <1>5 DEF CommitChange
  <2>2. QED
    BY <1>2, <1>3, <1>4, <2>1 DEF FileInv
<1>6. CASE CommitDelete(q)
  <2>1. /\ photo' = [p \in Photos |->
             IF p \in PhotosOf(request[q].target)
             THEN [photo[p] EXCEPT !.row = FALSE, !.spared = @ \cap {q}] ELSE photo[p]]
        /\ request[q].at = "commit" /\ request[q].kind # "change"
    BY <1>6 DEF CommitDelete
  <2>2. ASSUME NEW p \in Photos
        PROVE  /\ photo'[p] \in PhotoRecord /\ Accounted(photo'[p])
               /\ \A k \in AdminRequests : Covered(k, request'[k], p, photo'[p])
    <3>1. photo[p] \in PhotoRecord
      BY DEF FileInv
    <3>2. CASE p \in PhotosOf(request[q].target)
      <4>1. photo'[p] = [photo[p] EXCEPT !.row = FALSE, !.spared = @ \cap {q}]
        BY <2>1, <3>2
      <4>2. /\ photo'[p] \in PhotoRecord /\ ~ photo'[p].row
            /\ photo'[p].file = photo[p].file /\ photo'[p].posting = photo[p].posting
            /\ photo'[p].spared = photo[p].spared \cap {q}
        BY <3>1, <4>1 DEF PhotoRecord
      <4>3. q \in photo[p].spared \/ (~ photo[p].file /\ ~ photo[p].posting)
        BY <2>1, <3>2 DEF FileInv, Covered, Deletion, Settled, PhotosOf
      <4>4. QED
        BY <4>2, <4>3 DEF Covered, Accounted
    <3>3. CASE p \notin PhotosOf(request[q].target)
      <4>1. photo'[p] = photo[p]
        BY <2>1, <3>3
      <4>2. QED
        BY <1>4, <3>1, <4>1 DEF FileInv
    <3>4. QED
      BY <3>2, <3>3
  <2>3. photo' \in [Photos -> PhotoRecord]
    <3>1. photo' = [p \in Photos |-> photo'[p]]
      BY <2>1
    <3>2. QED
      BY <2>2, <3>1
  <2>4. QED
    BY <1>2, <1>3, <2>2, <2>3 DEF FileInv
<1>7. QED
  BY <1>5, <1>6

\* Files outlive the row of a photo only for a named cause, for any number of
\* users, photos and requests.
THEOREM OrphansHaveCauses == AccountsSpec => []OrphanNeedsCause
<1>1. AccountsInit => FileInv
  <2> SUFFICES ASSUME AccountsInit PROVE FileInv
    OBVIOUS
  <2>1. request = [q \in AdminRequests |-> IdleRequest] /\ photo = [p \in Photos |-> NoPhoto]
    BY DEF AccountsInit
  <2>2. (\A q \in AdminRequests : request[q] = IdleRequest)
        /\ (\A p \in Photos : photo[p] = NoPhoto)
    BY <2>1
  <2>3. NoPhoto \in PhotoRecord /\ ~ NoPhoto.file /\ ~ NoPhoto.posting
    BY DEF NoPhoto, PhotoRecord
  <2>4. request \in [AdminRequests -> RequestRecord] /\ photo \in [Photos -> PhotoRecord]
    BY <2>1, <2>3, DoneRequest
  <2>5. QED
    BY <2>2, <2>3, <2>4, DoneRequest DEF FileInv, Covered, Deletion, Settled, Accounted
<1>2. FileInv /\ [AccountsNext]_accountVars => FileInv'
  <2> SUFFICES ASSUME FileInv, [AccountsNext]_accountVars PROVE FileInv'
    OBVIOUS
  <2>1. CASE UNCHANGED <<request, photo>>
    BY <2>1 DEF FileInv
  <2>2. QED
    BY <2>1, DeletionSteps, FileDeletedKeeps, NothingDeletedKeeps, PhotoStepsKeep,
       DeletionCommits
       DEF AccountsNext, accountVars
<1>3. FileInv => OrphanNeedsCause
  BY DEF FileInv, OrphanNeedsCause, Accounted
<1>4. QED
  BY <1>1, <1>2, <1>3, PTL DEF AccountsSpec

\* Both: an administrator remains, and no files are left without a cause.
THEOREM AccountsAreSafe == AccountsSpec => []AccountsSafe
<1>1. AdminRemains /\ OrphanNeedsCause => AccountsSafe
  BY DEF AccountsSafe
<1>2. QED
  BY <1>1, AdministratorRemains, OrphansHaveCauses, PTL

-----------------------------------------------------------------------------
(* Marks: what a request has read decides how it is answered, so it is of   *)
(* what was read that the request's effect has to be known.                 *)

MarkRow == [id : Nat, value : {"none", "open", "resolved", "up", "down"}]

MarkRecord == [at : {"idle", "read", "ok", "failed"}, was : BOOLEAN,
               wants : {"nothing", "none", "open", "resolved", "up", "down"}, seen : MarkRow]

\* The row that a deletion has read is gone, and so the mark was.
DeletedBefore(r, m) == m.wants = "none" /\ m.seen # NoRow /\ r.id # m.seen.id

Applied(r, m) ==
    /\ m.at = "ok" => m.was
    /\ m.at = "read" /\ (Satisfied(m.wants, m.seen) \/ DeletedBefore(r, m)) => m.was

MarkInv ==
    /\ row \in MarkRow /\ (row.id = 0 => row = NoRow)
    /\ lastId \in Nat
    /\ marking \in [MarkRequests -> MarkRecord]
    /\ \A q \in MarkRequests : Applied(row, marking[q]) /\ (Seen(q).id = 0 => Seen(q) = NoRow)

\* Looking at the row adds to what was true, and changes nothing else.
LEMMA ObserveAdds ==
    ASSUME NEW rs \in [MarkRequests -> MarkRecord], NEW r \in MarkRow
    PROVE  /\ Observe(r, rs) \in [MarkRequests -> MarkRecord]
           /\ \A q \in MarkRequests :
                /\ Observe(r, rs)[q].at = rs[q].at /\ Observe(r, rs)[q].wants = rs[q].wants
                /\ Observe(r, rs)[q].seen = rs[q].seen
                /\ Observe(r, rs)[q].was = (rs[q].was \/ (rs[q].at = "read" /\ Satisfied(rs[q].wants, r)))
<1> DEFINE saw(q) == rs[q].was \/ (rs[q].at = "read" /\ Satisfied(rs[q].wants, r))
<1>1. \A q \in MarkRequests : rs[q] \in MarkRecord /\ saw(q) \in BOOLEAN
  BY DEF MarkRecord
<1>2. \A q \in MarkRequests : Observe(r, rs)[q] = [rs[q] EXCEPT !.was = saw(q)]
  BY DEF Observe
<1>3. \A q \in MarkRequests :
         /\ [rs[q] EXCEPT !.was = saw(q)] \in MarkRecord
         /\ [rs[q] EXCEPT !.was = saw(q)].was = saw(q)
         /\ [rs[q] EXCEPT !.was = saw(q)].at = rs[q].at
         /\ [rs[q] EXCEPT !.was = saw(q)].wants = rs[q].wants
         /\ [rs[q] EXCEPT !.was = saw(q)].seen = rs[q].seen
  <2> SUFFICES ASSUME NEW q \in MarkRequests, NEW b \in BOOLEAN
               PROVE  /\ [rs[q] EXCEPT !.was = b] \in MarkRecord
                      /\ [rs[q] EXCEPT !.was = b].was = b
                      /\ [rs[q] EXCEPT !.was = b].at = rs[q].at
                      /\ [rs[q] EXCEPT !.was = b].wants = rs[q].wants
                      /\ [rs[q] EXCEPT !.was = b].seen = rs[q].seen
    BY <1>1
  <2>1. QED
    BY <1>1 DEF MarkRecord
<1>4. Observe(r, rs) \in [MarkRequests -> MarkRecord]
  BY <1>2, <1>3 DEF Observe
<1>5. ASSUME NEW q \in MarkRequests
      PROVE  /\ Observe(r, rs)[q].at = rs[q].at /\ Observe(r, rs)[q].wants = rs[q].wants
             /\ Observe(r, rs)[q].seen = rs[q].seen
             /\ Observe(r, rs)[q].was = saw(q)
  <2> HIDE DEF saw
  <2>1. QED
    BY <1>2, <1>3, Zenon
<1>6. QED
  BY <1>4, <1>5

\* A row that is written: whoever deletes another one has seen the mark gone.
LEMMA ChangeKeeps ==
    ASSUME MarkInv, NEW q \in MarkRequests, NEW r \in MarkRow, Change(r, q),
           r.id = 0 => r = NoRow, lastId' \in Nat,
           r = NoRow \/ row = NoRow \/ r.id = row.id
    PROVE  MarkInv'
<1> DEFINE rs == [MarkEnds(q, "ok") EXCEPT ![q].was = TRUE]
<1>1. marking \in [MarkRequests -> MarkRecord]
  BY DEF MarkInv
<1>2. /\ rs \in [MarkRequests -> MarkRecord]
      /\ rs[q].at = "ok" /\ rs[q].was /\ rs[q].seen = marking[q].seen
      /\ \A p \in MarkRequests \ {q} : rs[p] = marking[p]
  BY <1>1 DEF MarkEnds, MarkRecord
<1>3. marking' = Observe(r, rs) /\ row' = r
  BY DEF Change
<1> HIDE DEF rs
<1>4. /\ marking' \in [MarkRequests -> MarkRecord]
      /\ \A p \in MarkRequests :
           /\ marking'[p].at = rs[p].at /\ marking'[p].wants = rs[p].wants
           /\ marking'[p].seen = rs[p].seen
           /\ marking'[p].was = (rs[p].was \/ (rs[p].at = "read" /\ Satisfied(rs[p].wants, r)))
  BY <1>2, <1>3, ObserveAdds
<1>5. ASSUME NEW p \in MarkRequests
      PROVE  Applied(r, marking'[p]) /\ (marking'[p].seen.id = 0 => marking'[p].seen = NoRow)
  <2>1. CASE p = q
    BY <1>2, <1>4, <2>1 DEF Applied, MarkInv, Seen
  <2>2. CASE p # q
    <3>1. rs[p] = marking[p]
      BY <1>2, <2>2
    <3>2. Applied(row, marking[p]) /\ (marking[p].seen.id = 0 => marking[p].seen = NoRow)
      BY DEF MarkInv, Seen
    <3>3. ASSUME DeletedBefore(r, marking[p]), marking[p].at = "read"
          PROVE  marking'[p].was
      <4>1. CASE r = NoRow
        BY <1>4, <3>1, <3>3, <4>1 DEF DeletedBefore, Satisfied, NoRow
      <4>2. CASE row = NoRow
        BY <1>4, <3>1, <3>2, <3>3, <4>2 DEF DeletedBefore, NoRow, Applied
      <4>3. CASE r.id = row.id
        BY <1>4, <3>1, <3>2, <3>3, <4>3 DEF DeletedBefore, Applied
      <4>4. QED
        BY <4>1, <4>2, <4>3
    <3>4. marking[p].was => marking'[p].was
      BY <1>4, <3>1
    <3>5. DeletedBefore(r, marking'[p]) = DeletedBefore(r, marking[p])
      BY <1>4, <3>1 DEF DeletedBefore
    <3>6. QED
      BY <1>4, <3>1, <3>2, <3>3, <3>4, <3>5 DEF Applied
  <2>3. QED
    BY <2>1, <2>2
<1>6. QED
  BY <1>3, <1>4, <1>5 DEF MarkInv, Seen

\* An answer that changes nothing is a refusal, or comes after the effect.
LEMMA AnswerKeeps ==
    ASSUME MarkInv, NEW q \in MarkRequests, NEW result \in {"ok", "failed"},
           marking' = MarkEnds(q, result), UNCHANGED <<row, lastId>>,
           result = "ok" => marking[q].was
    PROVE  MarkInv'
<1>1. marking \in [MarkRequests -> MarkRecord]
  BY DEF MarkInv
<1>2. /\ marking' \in [MarkRequests -> MarkRecord]
      /\ marking'[q].at = result /\ marking'[q].was = marking[q].was
      /\ marking'[q].seen = marking[q].seen
      /\ \A p \in MarkRequests \ {q} : marking'[p] = marking[p]
  BY <1>1 DEF MarkEnds, MarkRecord
<1>3. QED
  BY <1>2 DEF MarkInv, Applied, DeletedBefore, Seen

LEMMA ReadsKeeps ==
    ASSUME MarkInv, NEW q \in MarkRequests,
           NEW wanted \in {"none", "open", "resolved", "up", "down"}, Reads(q, wanted)
    PROVE  MarkInv'
<1> DEFINE rs == [marking EXCEPT ![q] = [@ EXCEPT !.at = "read", !.wants = wanted, !.seen = row]]
<1>1. marking \in [MarkRequests -> MarkRecord] /\ row \in MarkRow
  BY DEF MarkInv
<1>2. /\ rs \in [MarkRequests -> MarkRecord]
      /\ rs[q].at = "read" /\ rs[q].wants = wanted /\ rs[q].seen = row
      /\ \A p \in MarkRequests \ {q} : rs[p] = marking[p]
  BY <1>1 DEF MarkRecord
<1>3. marking' = Observe(row, rs) /\ UNCHANGED <<row, lastId>>
  BY DEF Reads
<1> HIDE DEF rs
<1>4. /\ marking' \in [MarkRequests -> MarkRecord]
      /\ \A p \in MarkRequests :
           /\ marking'[p].at = rs[p].at /\ marking'[p].wants = rs[p].wants
           /\ marking'[p].seen = rs[p].seen
           /\ marking'[p].was = (rs[p].was \/ (rs[p].at = "read" /\ Satisfied(rs[p].wants, row)))
  BY <1>1, <1>2, <1>3, ObserveAdds
<1>5. ASSUME NEW p \in MarkRequests
      PROVE  Applied(row, marking'[p]) /\ (marking'[p].seen.id = 0 => marking'[p].seen = NoRow)
  <2>1. CASE p = q
    BY <1>2, <1>4, <2>1 DEF Applied, DeletedBefore, MarkInv
  <2>2. CASE p # q
    <3>1. rs[p] = marking[p]
      BY <1>2, <2>2
    <3>2. Applied(row, marking[p]) /\ (marking[p].seen.id = 0 => marking[p].seen = NoRow)
      BY DEF MarkInv, Seen
    <3>3. marking[p].was => marking'[p].was
      BY <1>4, <3>1
    <3>4. /\ marking'[p].at = marking[p].at /\ marking'[p].wants = marking[p].wants
          /\ marking'[p].seen = marking[p].seen
      BY <1>4, <3>1
    <3> HIDE DEF rs
    <3>5. QED
      BY <3>2, <3>3, <3>4 DEF Applied, DeletedBefore
  <2>3. QED
    BY <2>1, <2>2
<1>6. QED
  BY <1>3, <1>4, <1>5 DEF MarkInv, Seen

LEMMA UpdateKeepsMarks ==
    ASSUME MarkInv, NEW q \in MarkRequests, Update(q)
    PROVE  MarkInv'
<1>1. marking[q].wants \in {"resolved", "up", "down"} /\ lastId' \in Nat /\ row \in MarkRow
  BY DEF MarkInv, Update
<1>2. CASE RowIsThere(q) /\ Change([row EXCEPT !.value = marking[q].wants], q)
  <2> DEFINE r == [row EXCEPT !.value = marking[q].wants]
  <2>1. r \in MarkRow /\ r.id = row.id
    BY <1>1 DEF MarkRow
  <2>2. Seen(q) # NoRow /\ (Seen(q).id = 0 => Seen(q) = NoRow) /\ row.id = Seen(q).id
    BY <1>2 DEF Update, MarkInv, RowIsThere
  <2>3. Change(r, q)
    BY <1>2
  <2> HIDE DEF r
  <2>4. QED
    BY <1>1, <2>1, <2>2, <2>3, ChangeKeeps
<1>3. CASE ~ RowIsThere(q) /\ marking' = MarkEnds(q, IF UpdateApplies(q) THEN "ok" ELSE "failed")
           /\ UNCHANGED row
  BY <1>3, AnswerKeeps DEF UpdateApplies, Update
<1>4. QED
  BY <1>2, <1>3 DEF Update

LEMMA DeleteKeepsMarks ==
    ASSUME MarkInv, NEW q \in MarkRequests, Delete(q)
    PROVE  MarkInv'
<1>1. NoRow \in MarkRow /\ NoRow.id = 0
  BY DEF NoRow, MarkRow
<1>2. CASE RowIsThere(q) /\ Change(NoRow, q)
  BY <1>1, <1>2, ChangeKeeps DEF Delete, MarkInv
<1>3. CASE ~ RowIsThere(q) /\ marking' = MarkEnds(q, "ok") /\ UNCHANGED row
  <2>1. marking[q].at = "read" /\ DeletedBefore(row, marking[q])
    BY <1>3 DEF Delete, DeletedBefore, RowIsThere, Seen
  <2>2. marking[q].was
    BY <2>1 DEF MarkInv, Applied
  <2>3. QED
    BY <1>3, <2>2, AnswerKeeps DEF Delete
<1>4. QED
  BY <1>2, <1>3 DEF Delete

LEMMA InsertKeepsMarks ==
    ASSUME MarkInv, NEW q \in MarkRequests, Insert(q)
    PROVE  MarkInv'
<1>1. CASE row # NoRow /\ Answers(q, "failed")
  BY <1>1, AnswerKeeps DEF Answers
<1>2. CASE row = NoRow /\ lastId' = lastId + 1
           /\ Change([id |-> lastId + 1, value |-> marking[q].wants], q)
  <2> DEFINE r == [id |-> lastId + 1, value |-> marking[q].wants]
  <2>1. marking[q].wants \in {"open", "up", "down"} /\ lastId \in Nat
    BY DEF Insert, MarkInv
  <2>2. r \in MarkRow /\ r.id # 0 /\ lastId' \in Nat
    BY <1>2, <2>1 DEF MarkRow
  <2>3. Change(r, q)
    BY <1>2
  <2> HIDE DEF r
  <2>4. QED
    BY <1>2, <2>2, <2>3, ChangeKeeps
<1>3. QED
  BY <1>1, <1>2 DEF Insert

\* Whatever several requests do to a mark between the reading and the writing
\* of each, one that is answered with success had its effect.
THEOREM SuccessIsApplied == MarkSpec => []AnsweredIsApplied
<1>1. MarkInit => MarkInv
  <2>1. NoRow \in MarkRow /\ IdleMark \in MarkRecord /\ IdleMark.at = "idle" /\ IdleMark.seen = NoRow
    BY DEF NoRow, MarkRow, IdleMark, MarkRecord
  <2>2. QED
    BY <2>1 DEF MarkInit, MarkInv, Applied, Seen
<1>2. MarkInv /\ [MarkNext]_markVars => MarkInv'
  <2> SUFFICES ASSUME MarkInv, [MarkNext]_markVars PROVE MarkInv'
    OBVIOUS
  <2>1. ASSUME NEW q \in MarkRequests, NothingToDo(q) PROVE MarkInv'
    <3>1. marking[q].was
      BY <2>1 DEF NothingToDo, MarkInv, Applied, Seen
    <3>2. QED
      BY <2>1, <3>1, AnswerKeeps DEF NothingToDo, Answers
  <2>2. ASSUME NEW q \in MarkRequests, NoFlag(q) PROVE MarkInv'
    BY <2>2, AnswerKeeps DEF NoFlag, Answers
  <2>3. ASSUME NEW q \in MarkRequests, NEW wanted \in {"none"} \cup Values(kind), Reads(q, wanted)
        PROVE  MarkInv'
    <3>1. wanted \in {"none", "open", "resolved", "up", "down"}
      BY DEF Values
    <3>2. QED
      BY <2>3, <3>1, ReadsKeeps
  <2>4. CASE UNCHANGED markVars
    BY <2>4 DEF markVars, MarkInv, Applied, DeletedBefore, Seen
  <2>5. QED
    BY <2>1, <2>2, <2>3, <2>4, InsertKeepsMarks, UpdateKeepsMarks, DeleteKeepsMarks DEF MarkNext
<1>3. MarkInv => AnsweredIsApplied
  BY DEF MarkInv, Applied, AnsweredIsApplied
<1>4. QED
  BY <1>1, <1>2, <1>3, PTL DEF MarkSpec
-----------------------------------------------------------------------------
(* Rate limits: what the client was told outlasts what refused it.          *)

Advice == [wait : Nat, waits : BOOLEAN, since : BOOLEAN]

StillWaits == advice.waits /\ ~ advice.since

\* Nothing was recorded for a client that still waits: when its wait ends, the
\* window is empty, and the lockout is forgotten or less than a second from its end.
WindowEmpties ==
    StillWaits /\ limiter # SignIns =>
        (advice.wait <= 1 => history[0] = 0) /\ (advice.wait = 0 => history[1] = 0)

LockoutEnds ==
    StillWaits /\ limiter = SignIns =>
        \/ failure.count = 0 \/ failure.age >= AttemptTicks
        \/ Lockout(failure.count) <= failure.age + advice.wait + 1

WaitInv ==
    /\ advice \in Advice
    /\ failure \in [age : Nat, count : Nat]
    /\ history \in [0..WindowTicks -> Nat]
    /\ WindowEmpties /\ LockoutEnds

LEMMA LockoutNat ==
    ASSUME NEW c \in Nat
    PROVE  Lockout(c) \in Nat
BY LimitsAssumption DEF Lockout, LockoutTicks, FirstTicks

LEMMA RecordedEndsWait ==
    ASSUME advice \in Advice, Recorded
    PROVE  advice' \in Advice /\ ~ StillWaits'
<1>1. PICK b \in BOOLEAN : b = advice.waits
  BY DEF Advice
<1>2. advice' = [advice EXCEPT !.since = b]
  BY <1>1 DEF Recorded
<1>3. advice' \in Advice /\ advice'.since = b /\ advice'.waits = b
  BY <1>1, <1>2 DEF Advice
<1>4. QED
  BY <1>3 DEF StillWaits

LEMMA TellsStartsWait ==
    ASSUME NEW n \in Nat, Tells(n)
    PROVE  advice' \in Advice /\ advice'.wait = n
BY DEF Tells, Advice

\* No request counts under the identifier of a login.
LEMMA RequestsAreNoLogins ==
    ASSUME NEW r \in Requests
    PROVE  SignIns \notin CountedAs(r)
BY DEF CountedAs, dispatch, OwnLimit, get_identifier, SignIns

LEMMA WindowCheckKeeps ==
    ASSUME WaitInv, NEW r \in Requests, check_rate_limit(r)
    PROVE  WaitInv'
<1> DEFINE h == InWindow(history)
<1>1. /\ h \in [0..WindowTicks -> Nat] /\ h[0] = history[0] /\ h[1] = history[1]
      /\ limiter # SignIns /\ limiter' = limiter /\ failure' = failure
  BY RequestsAreNoLogins
     DEF WindowEmpties, LockoutEnds, WaitInv, InWindow, WindowTicks, check_rate_limit
<1>2. CASE WindowFull(h) /\ history' = h /\ Tells(WindowTicks)
  <2>1. advice' \in Advice /\ advice'.wait = 2
    BY <1>2, TellsStartsWait DEF WindowTicks
  <2>2. QED
    BY <1>1, <1>2, <2>1 DEF WindowEmpties, LockoutEnds, WaitInv
<1>3. CASE history' = [h EXCEPT ![0] = @ + 1] /\ Recorded
  <2>1. advice' \in Advice /\ ~ StillWaits'
    BY <1>3, RecordedEndsWait DEF WindowEmpties, LockoutEnds, WaitInv
  <2>2. history' \in [0..WindowTicks -> Nat]
    BY <1>1, <1>3 DEF WindowTicks
  <2>3. QED
    BY <1>1, <2>1, <2>2 DEF WindowEmpties, LockoutEnds, WaitInv
<1>4. QED
  BY <1>2, <1>3 DEF check_rate_limit

LEMMA LoginCheckKeeps ==
    ASSUME WaitInv, NEW t \in LoginTries, check_auth_rate_limit(t)
    PROVE  WaitInv'
<1> DEFINE f == Remembered(failure)
<1>1. /\ f \in [age : Nat, count : Nat] /\ (f = failure \/ f.count = 0)
      /\ failure' = f /\ limiter = SignIns /\ limiter' = limiter /\ history' = history
  BY DEF WindowEmpties, LockoutEnds, WaitInv, Remembered, NoFailure, check_auth_rate_limit
<1> HIDE DEF f
<1>2. CASE Locked(f) /\ Tells(Remaining(f))
  <2>1. Lockout(f.count) \in Nat /\ f.age \in Nat /\ Lockout(f.count) > f.age
    BY <1>1, <1>2, LockoutNat DEF Locked, LockoutLeft
  <2>2. Remaining(f) \in Nat /\ Lockout(f.count) <= f.age + Remaining(f) + 1
    BY <2>1 DEF Remaining, LockoutLeft, SecondTicks
  <2>3. advice' \in Advice /\ advice'.wait = Remaining(f)
    BY <1>2, <2>2, TellsStartsWait
  <2>4. Lockout(failure'.count) <= failure'.age + advice'.wait + 1
    BY <1>1, <2>1, <2>2, <2>3
  <2>5. history' \in [0..WindowTicks -> Nat] /\ failure' \in [age : Nat, count : Nat]
        /\ limiter' = SignIns
    BY <1>1 DEF WindowEmpties, LockoutEnds, WaitInv
  <2>6. /\ StillWaits' /\ limiter' # SignIns =>
             (advice'.wait <= 1 => history'[0] = 0) /\ (advice'.wait = 0 => history'[1] = 0)
        /\ StillWaits' /\ limiter' = SignIns =>
             \/ failure'.count = 0 \/ failure'.age >= AttemptTicks
             \/ Lockout(failure'.count) <= failure'.age + advice'.wait + 1
    BY <2>4, <2>5
  <2>7. QED
    BY <2>3, <2>5, <2>6 DEF WindowEmpties, LockoutEnds, WaitInv
<1>3. CASE UNCHANGED advice
  BY <1>1, <1>3 DEF WindowEmpties, LockoutEnds, WaitInv, StillWaits
<1>4. QED
  BY <1>2, <1>3 DEF check_auth_rate_limit, f

LEMMA TimeKeeps ==
    ASSUME WaitInv, TimePasses
    PROVE  WaitInv'
<1>1. /\ history' \in [0..WindowTicks -> Nat]
      /\ history'[0] = 0 /\ history'[1] = history[0]
      /\ limiter' = limiter
  BY DEF WindowEmpties, LockoutEnds, WaitInv, TimePasses, WindowTicks
<1>2. /\ advice' \in Advice /\ StillWaits' = StillWaits
      /\ IF advice.wait = 0 THEN advice'.wait = 0 ELSE advice'.wait = advice.wait - 1
  <2>1. CASE advice.wait = 0
    BY <2>1 DEF WindowEmpties, LockoutEnds, WaitInv, TimePasses, StillWaits
  <2>2. CASE advice.wait # 0
    <3>1. advice' = [advice EXCEPT !.wait = @ - 1] /\ advice.wait - 1 \in Nat
      BY <2>2 DEF WindowEmpties, LockoutEnds, WaitInv, TimePasses, Advice
    <3>2. /\ advice' \in Advice /\ advice'.waits = advice.waits
          /\ advice'.since = advice.since /\ advice'.wait = advice.wait - 1
      BY <3>1 DEF WindowEmpties, LockoutEnds, WaitInv, Advice
    <3>3. QED
      BY <2>2, <3>2 DEF StillWaits
  <2>3. QED
    BY <2>1, <2>2
<1>3. /\ failure' \in [age : Nat, count : Nat] /\ failure'.count = failure.count
      /\ \/ failure'.age = failure.age /\ (failure.age = AttemptTicks \/ failure.count = 0)
         \/ failure'.age = failure.age + 1
  BY DEF WindowEmpties, LockoutEnds, WaitInv, TimePasses
<1>4. advice.wait \in Nat /\ failure.age \in Nat /\ Lockout(failure.count) \in Nat
  BY LockoutNat DEF WindowEmpties, LockoutEnds, WaitInv, Advice
<1>5. ASSUME StillWaits, limiter # SignIns
      PROVE  (advice'.wait <= 1 => history'[0] = 0) /\ (advice'.wait = 0 => history'[1] = 0)
  BY <1>1, <1>2, <1>4, <1>5 DEF WindowEmpties, LockoutEnds, WaitInv
<1>6. ASSUME StillWaits, limiter = SignIns
      PROVE  \/ failure'.count = 0 \/ failure'.age >= AttemptTicks
             \/ Lockout(failure'.count) <= failure'.age + advice'.wait + 1
  BY <1>2, <1>3, <1>4, <1>6 DEF WindowEmpties, LockoutEnds, WaitInv, AttemptTicks
<1>7. /\ StillWaits' /\ limiter' # SignIns =>
           (advice'.wait <= 1 => history'[0] = 0) /\ (advice'.wait = 0 => history'[1] = 0)
      /\ StillWaits' /\ limiter' = SignIns =>
           \/ failure'.count = 0 \/ failure'.age >= AttemptTicks
           \/ Lockout(failure'.count) <= failure'.age + advice'.wait + 1
  BY <1>1, <1>2, <1>5, <1>6
<1>8. advice' \in Advice /\ failure' \in [age : Nat, count : Nat]
      /\ history' \in [0..WindowTicks -> Nat]
  BY <1>1, <1>2, <1>3
<1>9. WindowEmpties' /\ LockoutEnds'
  BY <1>7 DEF WindowEmpties, LockoutEnds
<1>10. QED
  BY <1>8, <1>9 DEF WaitInv

\* A refused client that waits as long as it was told is let in, or less than a
\* second before it would be, whatever the limits are and however logins overlap.
THEOREM WaitingIsEnough == LimitsSpec => []RetryAfterHolds
<1>1. LimitsInit => WaitInv
  <2>1. NotTold \in Advice /\ NotTold.waits = FALSE
    BY DEF NotTold, Advice
  <2>2. QED
    BY <2>1 DEF LimitsInit, WindowEmpties, LockoutEnds, WaitInv, StillWaits, NoFailure, WindowTicks
<1>2. WaitInv /\ [LimitsNext]_limitVars => WaitInv'
  <2> SUFFICES ASSUME WaitInv, [LimitsNext]_limitVars PROVE WaitInv'
    OBVIOUS
  <2>1. ASSUME NEW t \in LoginTries, record_failed_attempt(t) PROVE WaitInv'
    <3>1. advice' \in Advice /\ ~ StillWaits'
      BY <2>1, RecordedEndsWait DEF record_failed_attempt, WindowEmpties, LockoutEnds, WaitInv
    <3>2. failure' \in [age : Nat, count : Nat] /\ history' = history /\ limiter' = limiter
      BY <2>1 DEF record_failed_attempt, WindowEmpties, LockoutEnds, WaitInv
    <3>3. QED
      BY <3>1, <3>2 DEF WindowEmpties, LockoutEnds, WaitInv
  <2>2. ASSUME NEW t \in LoginTries, clear_failed_attempts(t) PROVE WaitInv'
    BY <2>2 DEF clear_failed_attempts, WindowEmpties, LockoutEnds, WaitInv, NoFailure, StillWaits
  <2>3. CASE UNCHANGED limitVars
    BY <2>3 DEF limitVars, WindowEmpties, LockoutEnds, WaitInv, StillWaits
  <2>4. QED
    BY <2>1, <2>2, <2>3, WindowCheckKeeps, LoginCheckKeeps, TimeKeeps DEF LimitsNext
<1>3. WaitInv => RetryAfterHolds
  <2> DEFINE f == Remembered(failure)
  <2> SUFFICES ASSUME WaitInv, StillWaits, advice.wait = 0
               PROVE  IF limiter = SignIns THEN Locked(f) => LockoutLeft(f) < SecondTicks
                                           ELSE ~ WindowFull(InWindow(history))
    BY DEF RetryAfterHolds, Waited, StillWaits
  <2>1. CASE limiter # SignIns
    BY <2>1, LimitsAssumption DEF WindowEmpties, LockoutEnds, WaitInv, WindowFull, InWindow, WindowTicks
  <2>2. CASE limiter = SignIns
    <3>1. failure.age \in Nat /\ Lockout(failure.count) \in Nat
      BY LockoutNat DEF WindowEmpties, LockoutEnds, WaitInv
    <3>2. CASE f = NoFailure
      BY <2>2, <3>2 DEF Locked, NoFailure
    <3>3. CASE f = failure /\ failure.age < AttemptTicks
      BY <2>2, <3>1, <3>3
         DEF WaitInv, LockoutEnds, Locked, LockoutLeft, SecondTicks, AttemptTicks
    <3>4. QED
      BY <2>2, <3>2, <3>3 DEF Remembered
  <2>3. QED
    BY <2>1, <2>2
<1>4. QED
  BY <1>1, <1>2, <1>3, PTL DEF LimitsSpec

-----------------------------------------------------------------------------
(* Annotations: the current row of a chain.                                *)

ChainRows(c) == {r \in Rows : annotation[r].chain = c}
Tips(c) == {r \in Rows : annotation[r].chain = c /\ annotation[r].current}

AnnotationRow == [by : Authors \cup {"nobody"}, event : {"created", "updated", "deleted"},
                  current : BOOLEAN, superseded_by : Nat, chain : Nat]

EditRow == [row : Nat, event : {"created", "updated", "deleted"},
            by : Authors \cup {"nobody"}, overlapped : BOOLEAN]

\* A request that no other one overtook holds the current row of its chain, or
\* one that is gone for good.
Holding(e) ==
    edit[e].row # NoneYet =>
        /\ edit[e].row <= used
        /\ IsThere(edit[e].row) /\ ~ edit[e].overlapped => annotation[edit[e].row].current

\* Rows are numbered as they come, and a chain bears the number of its first.
Placed(r) ==
    IF IsThere(r) THEN r <= used /\ annotation[r].chain \in 1..used
                  ELSE annotation[r].chain = NoneYet

TipInv ==
    /\ used \in 0..MaxAnnotations
    /\ annotation \in [Rows -> AnnotationRow]
    /\ edit \in [Edits -> EditRow]
    /\ author \subseteq Authors
    /\ \A r \in Rows : Placed(r)
    /\ \A e \in Edits : Holding(e)
    /\ \A c \in Rows \ (forked \cup cut) :
          ChainRows(c) # {} => \E t \in Rows : Tips(c) = {t}

LEMMA SomeRows == MaxAnnotations \in Nat /\ 0 \in 0..MaxAnnotations
<1>1. MaxAnnotations \in Nat
  BY AnnotationsAssumption
<1>2. QED
  BY <1>1

LEMMA RowNumbers ==
    ASSUME used \in 0..MaxAnnotations
    PROVE  /\ used \in Nat /\ NoneYet = 0
           /\ \A r \in Rows : r \in Nat /\ r # NoneYet /\ r # 0
           /\ \A r \in Nat : r # NoneYet /\ r <= used => r \in Rows /\ r # used + 1
           /\ \A r \in 1..used : r \in Rows /\ r # used + 1 /\ r # NoneYet /\ r \in 1..(used + 1)
           /\ \A r \in Nat : r <= used => r <= used + 1
           /\ used < MaxAnnotations =>
                used + 1 \in Rows /\ used + 1 \in 0..MaxAnnotations /\ used + 1 \in 1..(used + 1)
<1>1. MaxAnnotations \in Nat /\ used \in Nat /\ NoneYet = 0 /\ used <= MaxAnnotations
  BY SomeRows DEF NoneYet
<1>2. \A r \in Rows : r \in Nat /\ r # NoneYet /\ r # 0
  BY <1>1 DEF Rows
<1>3. \A r \in Nat : r # NoneYet /\ r <= used => r \in Rows /\ r # used + 1
  BY <1>1 DEF Rows
<1>4. \A r \in 1..used : r \in Rows /\ r # used + 1 /\ r # NoneYet /\ r \in 1..(used + 1)
  BY <1>1 DEF Rows
<1>5. \A r \in Nat : r <= used => r <= used + 1
  BY <1>1
<1>6. used < MaxAnnotations =>
         used + 1 \in Rows /\ used + 1 \in 0..MaxAnnotations /\ used + 1 \in 1..(used + 1)
  BY <1>1 DEF Rows
<1>7. QED
  BY <1>1, <1>2, <1>3, <1>4, <1>5, <1>6

LEMMA NoAuthor == "nobody" \notin Authors
BY AnnotationsAssumption

LEMMA BlankRows ==
    /\ NoAnnotation \in AnnotationRow /\ NoAnnotation.chain = NoneYet /\ NoAnnotation.by = "nobody"
    /\ IdleEdit \in EditRow /\ IdleEdit.row = NoneYet
BY DEF NoAnnotation, IdleEdit, AnnotationRow, EditRow, NoneYet

LEMMA CreateKeepsTips ==
    ASSUME TipInv, NEW u \in Authors, create_annotation(u)
    PROVE  TipInv'
<1> DEFINE new == used + 1
<1>1. /\ new \in Rows /\ used' = new /\ used \in Nat /\ new \in 0..MaxAnnotations
      /\ edit' = edit /\ author' = author /\ forked' = forked /\ cut' = cut
  <2>1. /\ used \in 0..MaxAnnotations /\ used < MaxAnnotations /\ used' = new
        /\ edit' = edit /\ author' = author /\ forked' = forked /\ cut' = cut
    BY DEF TipInv, create_annotation
  <2>2. QED
    BY <2>1, RowNumbers
<1>2. PICK row0 : row0 = [NoAnnotation EXCEPT !.by = u, !.current = TRUE, !.chain = new]
  OBVIOUS
<1>3. annotation' = [annotation EXCEPT ![new] = row0]
  BY <1>2 DEF create_annotation
<1>4. row0 \in AnnotationRow /\ row0.by # "nobody" /\ row0.chain = new /\ row0.current
  <2>1. new \in Nat
    BY <1>1
  <2> HIDE DEF new
  <2>2. QED
    BY <1>2, <2>1, BlankRows, NoAuthor DEF AnnotationRow
<1>5. /\ annotation' \in [Rows -> AnnotationRow] /\ annotation'[new] = row0
      /\ \A r \in Rows \ {new} : annotation'[r] = annotation[r]
  BY <1>1, <1>3, <1>4 DEF TipInv
<1>n. used \in 0..MaxAnnotations /\ \A r \in Rows : Placed(r)
  BY DEF TipInv
<1>6. \A r \in Rows : annotation[r].chain # new
  BY <1>1, <1>n, RowNumbers DEF Placed
<1>7. \A r \in Rows : Placed(r)'
  <2> SUFFICES ASSUME NEW r \in Rows PROVE Placed(r)'
    OBVIOUS
  <2>1. CASE r = new
    <3>1. IsThere(r)' /\ annotation'[r].chain = new
      BY <1>4, <1>5, <2>1 DEF IsThere
    <3>2. QED
      BY <1>1, <1>n, <2>1, <3>1, RowNumbers DEF Placed
  <2>2. CASE r # new
    <3>1. IsThere(r)' = IsThere(r) /\ annotation'[r].chain = annotation[r].chain
      BY <1>5, <2>2 DEF IsThere
    <3>2. QED
      BY <1>1, <1>n, <3>1, RowNumbers DEF Placed
  <2>3. QED
    BY <2>1, <2>2
<1>8. ASSUME NEW e \in Edits PROVE Holding(e)'
  <2>1. Holding(e) /\ edit[e].row \in Nat
    BY DEF TipInv, EditRow
  <2>2. CASE edit[e].row # NoneYet
    <3>1. edit[e].row \in Rows \ {new}
      BY <1>n, <2>1, <2>2, RowNumbers DEF Holding
    <3>2. edit[e].row <= used'
      BY <1>1, <1>n, <2>1, <2>2, RowNumbers DEF Holding
    <3>3. IsThere(edit[e].row)' = IsThere(edit[e].row)
          /\ annotation'[edit[e].row].current = annotation[edit[e].row].current
      <4>1. annotation'[edit[e].row] = annotation[edit[e].row] /\ edit' = edit
        BY <1>1, <1>5, <3>1
      <4>2. QED
        BY <4>1 DEF IsThere
    <3>4. QED
      BY <1>1, <2>1, <2>2, <3>2, <3>3 DEF Holding
  <2>3. QED
    BY <1>1, <2>2 DEF Holding
<1>9. ASSUME NEW c \in Rows \ (forked' \cup cut'), ChainRows(c)' # {}
      PROVE  \E t \in Rows : Tips(c)' = {t}
  <2>1. CASE c = new
    <3>1. Tips(c)' = {new}
      <4>1. \A r \in Rows : annotation'[r].chain = new => r = new
        BY <1>5, <1>6
      <4>2. annotation'[new].chain = new /\ annotation'[new].current
        BY <1>4, <1>5
      <4> HIDE DEF new
      <4>3. QED
        BY <1>1, <2>1, <4>1, <4>2 DEF Tips
    <3>2. QED
      BY <1>1, <3>1
  <2>2. CASE c # new
    <3>1. annotation'[new].chain # c /\ annotation[new].chain # c
      <4>1. ~ IsThere(new) /\ c # NoneYet
        BY <1>1, <1>n, RowNumbers DEF Placed
      <4>2. annotation[new].chain = NoneYet
        BY <1>1, <1>n, <4>1 DEF Placed
      <4>3. QED
        BY <1>4, <1>5, <2>2, <4>1, <4>2
    <3>2. Tips(c)' = Tips(c) /\ ChainRows(c)' = ChainRows(c)
      BY <1>5, <3>1 DEF Tips, ChainRows
    <3>3. QED
      BY <1>1, <1>9, <3>2 DEF TipInv
  <2>3. QED
    BY <2>1, <2>2
<1>10. QED
  <2>1. used' \in 0..MaxAnnotations /\ author' \subseteq Authors /\ edit' \in [Edits -> EditRow]
    BY <1>1 DEF TipInv
  <2>2. QED
    BY <1>5, <1>7, <1>8, <1>9, <2>1 DEF TipInv

LEMMA CommitKeepsTips ==
    ASSUME TipInv, NEW e \in Edits, Commits(e)
    PROVE  TipInv'
<1> DEFINE old == edit[e].row
           c0 == annotation[old].chain
           new == used + 1
<1>1. /\ old # NoneYet /\ IsThere(old) /\ used < MaxAnnotations /\ used' = new
      /\ author' = author /\ cut' = cut /\ edit[e].by \in author
      /\ forked' = IF edit[e].overlapped THEN forked \cup {c0} ELSE forked
      /\ edit[e] \in EditRow /\ old \in Nat /\ used \in Nat
  <2>1. used \in 0..MaxAnnotations /\ edit[e] \in EditRow
    BY DEF TipInv
  <2>2. old \in Nat /\ used \in Nat
    BY <2>1, RowNumbers DEF EditRow
  <2>3. QED
    BY <2>1, <2>2 DEF Commits
<1>n. /\ used \in 0..MaxAnnotations /\ (\A r \in Rows : Placed(r))
      /\ \A f \in Edits : edit[f] \in EditRow /\ edit[f].row \in Nat /\ Holding(f)
  BY DEF TipInv, EditRow
<1>2. /\ old \in Rows /\ new \in Rows /\ old # new /\ new \in 0..MaxAnnotations
      /\ c0 \in Rows /\ c0 # new /\ c0 \in 1..used
  <2>1. old \in Rows /\ old # new
    BY <1>1, <1>n, RowNumbers DEF Holding
  <2>2. c0 \in 1..used
    BY <1>1, <1>n, <2>1 DEF Placed
  <2>3. QED
    BY <1>1, <1>n, <2>1, <2>2, RowNumbers
<1>3. PICK row0 : row0 = [by |-> edit[e].by, event |-> edit[e].event, current |-> TRUE,
                       superseded_by |-> NoneYet, chain |-> c0]
  OBVIOUS
<1>4. row0 \in AnnotationRow /\ row0.by # "nobody" /\ row0.current /\ row0.chain = c0
  <2>1. c0 \in Nat /\ NoneYet \in Nat
    BY <1>2, RowNumbers, <1>n DEF NoneYet
  <2>2. edit[e].by \in Authors /\ edit[e].event \in {"created", "updated", "deleted"}
    BY <1>1 DEF EditRow, TipInv
  <2> HIDE DEF c0
  <2>3. QED
    BY <1>3, <2>1, <2>2, NoAuthor DEF AnnotationRow
<1>5. annotation' = [annotation EXCEPT ![new] = row0, ![old].current = FALSE,
                                       ![old].superseded_by = new]
  BY <1>3 DEF Commits
<1>6. /\ annotation' \in [Rows -> AnnotationRow] /\ annotation'[new] = row0
      /\ ~ annotation'[old].current /\ annotation'[old].chain = c0
      /\ annotation'[old].by = annotation[old].by
      /\ \A r \in Rows \ {old, new} : annotation'[r] = annotation[r]
  <2>1. annotation[old] \in AnnotationRow /\ annotation \in [Rows -> AnnotationRow] /\ new \in Nat
    BY <1>1, <1>2 DEF TipInv
  <2>2. PICK r0 : r0 = [annotation[old] EXCEPT !.current = FALSE, !.superseded_by = new]
    OBVIOUS
  <2>3. r0 \in AnnotationRow /\ ~ r0.current /\ r0.chain = c0 /\ r0.by = annotation[old].by
    BY <2>1, <2>2 DEF AnnotationRow
  <2>4. annotation' = [annotation EXCEPT ![new] = row0, ![old] = r0]
    BY <1>2, <1>5, <2>1, <2>2
  <2>5. QED
    BY <1>2, <1>4, <2>1, <2>3, <2>4
<1>7. \A r \in Rows : Placed(r)'
  <2> SUFFICES ASSUME NEW r \in Rows PROVE Placed(r)'
    OBVIOUS
  <2>1. CASE r = new
    <3>1. IsThere(r)' /\ annotation'[r].chain = c0
      BY <1>4, <1>6, <2>1 DEF IsThere
    <3>2. QED
      BY <1>1, <1>2, <1>n, <2>1, <3>1, RowNumbers DEF Placed
  <2>2. CASE r = old
    <3>1. IsThere(r)' = IsThere(r) /\ annotation'[r].chain = annotation[r].chain
      BY <1>6, <2>2 DEF IsThere
    <3>2. QED
      BY <1>1, <1>n, <3>1, RowNumbers DEF Placed
  <2>3. CASE r \notin {old, new}
    <3>1. IsThere(r)' = IsThere(r) /\ annotation'[r].chain = annotation[r].chain
      BY <1>6, <2>3 DEF IsThere
    <3>2. QED
      BY <1>1, <1>n, <3>1, RowNumbers DEF Placed
  <2>4. QED
    BY <2>1, <2>2, <2>3
<1>8. \A f \in Edits : edit'[f] \in EditRow /\ Holding(f)'
  <2> SUFFICES ASSUME NEW f \in Edits PROVE edit'[f] \in EditRow /\ Holding(f)'
    OBVIOUS
  <2>1. CASE f = e
    <3>1. edit'[f] = IdleEdit
      BY <2>1 DEF Commits
    <3>2. IdleEdit \in EditRow /\ IdleEdit.row = NoneYet
      BY DEF IdleEdit, EditRow, NoneYet
    <3>3. QED
      BY <3>1, <3>2 DEF Holding
  <2>2. CASE f # e
    <3>1. PICK b \in BOOLEAN : b = (edit[f].overlapped \/ edit[f].row = old)
      OBVIOUS
    <3>2. edit'[f] = [edit[f] EXCEPT !.overlapped = b]
      BY <2>2, <3>1 DEF Commits
    <3>3. edit[f] \in EditRow /\ Holding(f)
      BY DEF TipInv
    <3>4. edit'[f] \in EditRow /\ edit'[f].row = edit[f].row /\ edit'[f].overlapped = b
      BY <3>2, <3>3 DEF EditRow
    <3>5. CASE edit[f].row # NoneYet /\ edit[f].row # old
      <4>1. edit[f].row \in Rows \ {old, new}
        BY <1>n, <3>5, RowNumbers DEF Holding
      <4>2. annotation'[edit[f].row] = annotation[edit[f].row]
        BY <1>6, <4>1
      <4>3. edit[f].row <= used'
        BY <1>1, <1>n, <3>5, RowNumbers DEF Holding
      <4>4. IsThere(edit[f].row)' = IsThere(edit[f].row)
        BY <3>4, <4>2 DEF IsThere
      <4>5. QED
        BY <3>1, <3>3, <3>4, <4>2, <4>3, <4>4 DEF Holding
    <3>6. CASE edit[f].row = old
      <4>1. old <= used'
        BY <1>1, <1>n, RowNumbers DEF Holding
      <4>2. QED
        BY <3>1, <3>4, <3>6, <4>1 DEF Holding
    <3>7. QED
      BY <3>4, <3>5, <3>6 DEF Holding
  <2>3. QED
    BY <2>1, <2>2
<1>9. ASSUME NEW c \in Rows \ (forked' \cup cut'), ChainRows(c)' # {}
      PROVE  \E t \in Rows : Tips(c)' = {t}
  <2>1. c \in Rows \ (forked \cup cut)
    BY <1>1, <1>9
  <2>2. CASE c = c0
    <3>1. ~ edit[e].overlapped
      BY <1>1, <1>9, <2>2
    <3>2. annotation[old].current
      BY <1>1, <1>n, <3>1 DEF Holding
    <3>3. old \in ChainRows(c) /\ old \in Tips(c)
      BY <1>2, <2>2, <3>2 DEF ChainRows, Tips
    <3>4. Tips(c) = {old}
      BY <2>1, <3>3 DEF TipInv
    <3>5. \A r \in Rows \ {old, new} : ~ (annotation'[r].chain = c /\ annotation'[r].current)
      BY <1>6, <3>4 DEF Tips
    <3>6. Tips(c)' = {new}
      BY <1>2, <1>4, <1>6, <2>2, <3>5 DEF Tips
    <3>7. QED
      BY <1>2, <3>6
  <2>3. CASE c # c0
    <3>1. annotation[new].chain # c
      <4>1. ~ IsThere(new) /\ c # NoneYet
        BY <1>1, <1>2, <1>n, RowNumbers DEF Placed
      <4>2. QED
        BY <1>2, <1>n, <4>1 DEF Placed
    <3>2. \A r \in Rows : /\ (annotation'[r].chain = c) = (annotation[r].chain = c)
                          /\ annotation[r].chain = c => annotation'[r] = annotation[r]
      BY <1>2, <1>4, <1>6, <2>3, <3>1
    <3>3. Tips(c)' = Tips(c) /\ ChainRows(c)' = ChainRows(c)
      BY <3>2 DEF Tips, ChainRows
    <3>4. QED
      BY <1>9, <2>1, <3>3 DEF TipInv
  <2>4. QED
    BY <2>2, <2>3
<1>10. edit' \in [Edits -> EditRow]
  BY <1>8 DEF Commits
<1>11. QED
  <2>1. used' \in 0..MaxAnnotations /\ author' \subseteq Authors
    BY <1>1, <1>2 DEF TipInv
  <2>2. QED
    BY <1>6, <1>7, <1>8, <1>9, <1>10, <2>1 DEF TipInv

\* What only changes the requests leaves every chain as it is.
LEMMA SameRows ==
    ASSUME TipInv, annotation' = annotation, used' = used, forked' = forked, cut' = cut,
           author' = author
    PROVE  /\ used' \in 0..MaxAnnotations /\ author' \subseteq Authors
           /\ annotation' \in [Rows -> AnnotationRow]
           /\ \A r \in Rows : Placed(r)'
           /\ \A c \in Rows \ (forked' \cup cut') :
                 ChainRows(c)' # {} => \E t \in Rows : Tips(c)' = {t}
<1>1. \A r \in Rows : Placed(r)' = Placed(r)
  BY DEF Placed, IsThere
<1>2. \A c \in Rows : ChainRows(c)' = ChainRows(c) /\ Tips(c)' = Tips(c)
  BY DEF ChainRows, Tips
<1>3. QED
  BY <1>1, <1>2 DEF TipInv

LEMMA LoadKeepsTips ==
    ASSUME TipInv, NEW e \in Edits, NEW r \in Rows, NEW u \in Authors,
           NEW event \in {"updated", "deleted"}, Loadable(r), Opens(e, r, u, event),
           UNCHANGED <<annotation, used, author, forked, cut>>
    PROVE  TipInv'
<1>1. PICK x : x = [IdleEdit EXCEPT !.row = r, !.by = u, !.event = event]
  OBVIOUS
<1>2. edit' = [edit EXCEPT ![e] = x]
  BY <1>1 DEF Opens
<1>3. x \in EditRow /\ x.row = r
  <2>1. r \in Nat
    BY DEF Rows
  <2>2. QED
    BY <1>1, <2>1, BlankRows DEF EditRow
<1>4. IsThere(r) /\ annotation[r].current
  BY DEF Loadable, CurrentVersion
<1>5. ASSUME NEW f \in Edits PROVE Holding(f)'
  <2>1. CASE f = e
    <3>1. edit'[f] = x /\ annotation' = annotation /\ used' = used
      BY <1>2, <2>1 DEF TipInv
    <3>2. r <= used
      BY <1>4 DEF TipInv, Placed
    <3>3. QED
      BY <1>3, <1>4, <3>1, <3>2 DEF Holding
  <2>2. CASE f # e
    <3>1. edit'[f] = edit[f]
      BY <1>2, <2>2 DEF TipInv
    <3>2. QED
      BY <3>1 DEF TipInv, Holding, IsThere
  <2>3. QED
    BY <2>1, <2>2
<1>6. edit' \in [Edits -> EditRow]
  BY <1>2, <1>3 DEF TipInv
<1>7. QED
  BY <1>5, <1>6, SameRows DEF TipInv

LEMMA AccountKeepsTips ==
    ASSUME TipInv, NEW u \in Authors, AccountDeleted(u)
    PROVE  TipInv'
<1> DEFINE gone == {r \in Rows : annotation[r].by = u}
<1>1. /\ used' = used /\ edit' = edit /\ forked' = forked
      /\ cut' = cut \cup {annotation[r].chain : r \in gone}
      /\ author' \subseteq Authors /\ u # "nobody"
  BY NoAuthor DEF AccountDeleted, TipInv
<1>2. ASSUME NEW r \in Rows
      PROVE  /\ annotation'[r] \in AnnotationRow
             /\ IF r \in gone THEN annotation'[r].by = "nobody" /\ annotation'[r].chain = NoneYet
                ELSE /\ annotation'[r].by = annotation[r].by
                     /\ annotation'[r].chain = annotation[r].chain
                     /\ annotation'[r].current = annotation[r].current
  <2>1. annotation[r] \in AnnotationRow
    BY DEF TipInv
  <2>2. CASE r \in gone
    <3>1. annotation'[r] = NoAnnotation
      BY <2>2 DEF AccountDeleted
    <3>2. QED
      BY <2>2, <3>1, BlankRows
  <2>3. CASE r \notin gone
    <3>1. PICK n \in Nat : n = NoneYet
      BY DEF NoneYet
    <3>2. \/ annotation'[r] = annotation[r]
          \/ annotation'[r] = [annotation[r] EXCEPT !.superseded_by = n]
      BY <2>3, <3>1 DEF AccountDeleted
    <3>3. QED
      BY <2>1, <2>3, <3>2 DEF AnnotationRow
  <2>4. QED
    BY <2>2, <2>3
<1>3. annotation' \in [Rows -> AnnotationRow]
  BY <1>2 DEF AccountDeleted
<1>n. \A r \in Rows : IF r \in gone THEN ~ IsThere(r)' ELSE IsThere(r)' = IsThere(r)
  BY <1>2 DEF IsThere
<1>4. \A r \in Rows : Placed(r)'
  BY <1>1, <1>2, <1>n DEF TipInv, Placed
<1>5. ASSUME NEW e \in Edits PROVE Holding(e)'
  <2>1. Holding(e) /\ edit[e].row \in Nat
    BY DEF TipInv, EditRow
  <2>2. CASE edit[e].row # NoneYet
    <3>1. edit[e].row \in Rows
      BY <2>1, <2>2, RowNumbers DEF Holding, TipInv
    <3>2. QED
      BY <1>1, <1>2, <1>n, <2>1, <3>1 DEF Holding
  <2>3. QED
    BY <1>1, <2>2 DEF Holding
<1>6. ASSUME NEW c \in Rows \ (forked' \cup cut'), ChainRows(c)' # {}
      PROVE  \E t \in Rows : Tips(c)' = {t}
  <2>1. \A r \in Rows : annotation[r].chain = c => r \notin gone
    BY <1>1, <1>6
  <2>2. c # NoneYet
    BY DEF Rows, NoneYet
  <2>3. Tips(c)' = Tips(c) /\ ChainRows(c)' = ChainRows(c)
    BY <1>2, <2>1, <2>2 DEF Tips, ChainRows
  <2>4. QED
    BY <1>1, <1>6, <2>3 DEF TipInv
<1>7. QED
  BY <1>1, <1>3, <1>4, <1>5, <1>6 DEF TipInv

\* Every chain that no two overlapping edits forked, and that no account took
\* rows out of, has exactly one current row, for any number of users, requests
\* and rows.
THEOREM OneCurrentVersion == AnnotationsSpec => []OneTip
<1>1. AnnotationsInit => TipInv
  <2> SUFFICES ASSUME AnnotationsInit PROVE TipInv
    OBVIOUS
  <2>1. /\ \A r \in Rows : annotation[r] = NoAnnotation
        /\ \A e \in Edits : edit[e] = IdleEdit
        /\ annotation \in [Rows -> AnnotationRow] /\ edit \in [Edits -> EditRow]
        /\ author \subseteq Authors
    BY BlankRows DEF AnnotationsInit
  <2>2. used \in 0..MaxAnnotations
    BY SomeRows DEF AnnotationsInit
  <2>3. (\A r \in Rows : Placed(r)) /\ (\A e \in Edits : Holding(e))
    BY <2>1, BlankRows DEF Placed, Holding, IsThere
  <2>4. \A c \in Rows : ChainRows(c) = {}
    BY <2>1, <2>2, BlankRows, RowNumbers DEF ChainRows
  <2>5. QED
    BY <2>1, <2>2, <2>3, <2>4 DEF TipInv
<1>2. TipInv /\ [AnnotationsNext]_annotationVars => TipInv'
  <2> SUFFICES ASSUME TipInv, [AnnotationsNext]_annotationVars PROVE TipInv'
    OBVIOUS
  <2>1. ASSUME NEW e \in Edits, NEW r \in Rows, NEW u \in Authors, LoadsVersion(e, r, u)
        PROVE  TipInv'
    BY <2>1, LoadKeepsTips DEF LoadsVersion
  <2>2. ASSUME NEW e \in Edits, NEW r \in Rows, NEW u \in Authors, LoadsEvent(e, r, u)
        PROVE  TipInv'
    BY <2>2, LoadKeepsTips DEF LoadsEvent
  <2>3. ASSUME NEW e \in Edits, EditFails(e) PROVE TipInv'
    <3>1. /\ edit' \in [Edits -> EditRow] /\ edit'[e] = IdleEdit
          /\ \A f \in Edits \ {e} : edit'[f] = edit[f]
      BY <2>3, BlankRows DEF EditFails, TipInv
    <3>2. UNCHANGED <<annotation, used, author, forked, cut>>
      BY <2>3 DEF EditFails
    <3>3. \A f \in Edits : Holding(f)'
      BY <3>1, <3>2, BlankRows DEF TipInv, Holding, IsThere
    <3>4. QED
      BY <3>1, <3>2, <3>3, SameRows DEF TipInv
  <2>4. CASE UNCHANGED annotationVars
    <3>1. UNCHANGED <<annotation, used, author, edit, forked, cut>>
      BY <2>4 DEF annotationVars
    <3>2. \A f \in Edits : Holding(f)'
      BY <3>1 DEF TipInv, Holding, IsThere
    <3>3. QED
      BY <3>1, <3>2, SameRows DEF TipInv
  <2>5. QED
    BY <2>1, <2>2, <2>3, <2>4, CreateKeepsTips, CommitKeepsTips, AccountKeepsTips
       DEF AnnotationsNext
<1>3. TipInv => OneTip
  <2> SUFFICES ASSUME TipInv, NEW c \in Rows \ (forked \cup cut), annotation[c].chain = c
               PROVE  Cardinality(Tips(c)) = 1
    BY DEF OneTip, Tips
  <2>1. ChainRows(c) # {}
    BY DEF ChainRows
  <2>2. PICK t \in Rows : Tips(c) = {t}
    BY <2>1 DEF TipInv
  <2>3. QED
    BY <2>2, FS_Singleton
<1>4. QED
  BY <1>1, <1>2, <1>3, PTL DEF AnnotationsSpec

-----------------------------------------------------------------------------
(* Mapillary streams: a picture is sent once, and at most Limit of them.    *)

StreamRecord ==
    [at : {"idle", "open", "insert", "fetch", "got", "cached", "done", "error"},
     sent : SUBSET Pictures, count : Nat, attempt : Nat, batch : SUBSET Pictures]

\* A stream that has not begun has sent nothing.
StreamInv ==
    /\ cache \subseteq Pictures
    /\ stream \in [Streams -> StreamRecord]
    /\ ~ twice
    /\ \A s \in Streams : /\ stream[s].count <= Limit
                          /\ stream[s].at = "idle" => stream[s].sent = {} /\ stream[s].count = 0

LEMMA SetLimits == Limit \in Nat /\ IsFiniteSet(Pictures)
BY StreamAssumption

LEMMA SomePictures ==
    ASSUME NEW pictures \in SUBSET Pictures
    PROVE  Cardinality(pictures) \in Nat
BY SetLimits, FS_Subset, FS_CardinalityType

\* What a step makes of a stream keeps the invariant.
LEMMA OneStreamMoves ==
    ASSUME StreamInv, NEW s \in Streams, NEW x \in StreamRecord,
           x.count <= Limit, x.at # "idle",
           stream' = [stream EXCEPT ![s] = x], cache' \subseteq Pictures, ~ twice'
    PROVE  StreamInv'
<1>1. \A o \in Streams : stream'[o] = IF o = s THEN x ELSE stream[o]
  BY DEF StreamInv
<1>2. stream' \in [Streams -> StreamRecord]
  BY DEF StreamInv
<1>3. QED
  BY <1>1, <1>2 DEF StreamInv

LEMMA StreamStopsWell ==
    ASSUME StreamInv, NEW s \in Streams, NEW how \in {"done", "error"}, StreamEnds(s, how),
           cache' \subseteq Pictures, twice' = twice
    PROVE  StreamInv'
<1>1. PICK x : x = [IdleStream EXCEPT !.at = how]
  OBVIOUS
<1>2. x \in StreamRecord /\ x.count = 0 /\ x.at # "idle"
  BY <1>1 DEF IdleStream, StreamRecord
<1>3. stream' = [stream EXCEPT ![s] = x] /\ x.count <= Limit /\ ~ twice'
  BY <1>1, <1>2, SetLimits DEF StreamEnds, StreamInv
<1>4. QED
  BY <1>2, <1>3, OneStreamMoves

LEMMA StreamGoesOn ==
    ASSUME StreamInv, NEW s \in Streams, Becomes(s, "insert") \/ Becomes(s, "fetch") \/ Becomes(s, "cached"),
           cache' \subseteq Pictures, twice' = twice
    PROVE  StreamInv'
<1>1. PICK at \in {"insert", "fetch", "cached"} : Becomes(s, at)
  OBVIOUS
<1>2. PICK x : x = [stream[s] EXCEPT !.at = at]
  OBVIOUS
<1>3. stream[s] \in StreamRecord /\ stream[s].count <= Limit /\ ~ twice'
  BY DEF StreamInv
<1>4. x \in StreamRecord /\ x.count = stream[s].count /\ x.at # "idle"
  BY <1>2, <1>3 DEF StreamRecord
<1>5. stream' = [stream EXCEPT ![s] = x]
  BY <1>1, <1>2 DEF Becomes, StreamInv
<1>6. QED
  BY <1>3, <1>4, <1>5, OneStreamMoves

\* Pictures that were not sent yet, and no more than the limit leaves room for.
LEMMA SendKeeps ==
    ASSUME StreamInv, NEW s \in Streams, NEW at \in {"open", "done"},
           NEW pictures \in SUBSET Pictures, NEW seen \in SUBSET Pictures,
           pictures \cap stream[s].sent = {},
           stream[s].count + Cardinality(pictures) <= Limit,
           Send(s, at, pictures, seen), cache' = cache
    PROVE  StreamInv'
<1>1. PICK n : n = Cardinality(pictures)
  OBVIOUS
<1>2. n \in Nat /\ stream[s] \in StreamRecord
  BY <1>1, SomePictures DEF StreamInv
<1>3. PICK x : x = [stream[s] EXCEPT !.at = at, !.sent = @ \cup seen, !.batch = {},
                                    !.count = @ + Cardinality(pictures)]
  OBVIOUS
<1>4. x \in StreamRecord /\ x.count = stream[s].count + n /\ x.at # "idle"
  <2>1. PICK old \in StreamRecord : old = stream[s]
    BY <1>2
  <2>2. old.sent \cup seen \in SUBSET Pictures /\ old.count + n \in Nat /\ {} \in SUBSET Pictures
    BY <1>2 DEF StreamRecord
  <2>3. PICK sent \in SUBSET Pictures : sent = old.sent \cup seen
    BY <2>2
  <2>4. x = [old EXCEPT !.at = at, !.sent = sent, !.batch = {}, !.count = old.count + n]
    BY <1>1, <1>3, <2>1, <2>3 DEF StreamRecord
  <2>5. QED
    BY <2>1, <2>2, <2>4 DEF StreamRecord
<1>5. stream' = [stream EXCEPT ![s] = x]
  BY <1>3 DEF Send
<1>6. ~ twice' /\ cache' \subseteq Pictures
  BY DEF Send, StreamInv
<1>7. QED
  BY <1>1, <1>4, <1>5, <1>6, OneStreamMoves

\* However many streams look at one box and fill one cache, no client is sent a
\* picture twice or more pictures than the limit.
THEOREM SentWithinLimit == StreamSpec => []SentOnceWithinLimit
<1>1. StreamInit => StreamInv
  <2>1. IdleStream \in StreamRecord /\ IdleStream.sent = {} /\ IdleStream.count = 0
    BY DEF IdleStream, StreamRecord
  <2>2. QED
    BY <2>1, SetLimits DEF StreamInit, StreamInv
<1>2. StreamInv /\ [StreamNext]_streamVars => StreamInv'
  <2> SUFFICES ASSUME StreamInv, [StreamNext]_streamVars PROVE StreamInv'
    OBVIOUS
  <2>n. cache \subseteq Pictures /\ ~ twice /\ Limit \in Nat
    BY SetLimits DEF StreamInv
  <2>1. ASSUME NEW s \in Streams, SendsCached(s) PROVE StreamInv'
    <3>1. PICK sample \in SUBSET (cache \ hidden) :
             Cardinality(sample) <= Limit /\ Send(s, "open", sample, sample)
      BY <2>1 DEF SendsCached, get_cached_photos_in_bbox, apply_mapillary_hidden_content_filters
    <3>2. /\ stream[s].sent = {} /\ stream[s].count = 0 /\ cache' = cache
          /\ sample \in SUBSET Pictures
      BY <2>1, <2>n DEF SendsCached, get_cached_photos_in_bbox, apply_mapillary_hidden_content_filters, StreamInv
    <3>3. Cardinality(sample) \in Nat
      BY <3>2, SomePictures
    <3>4. stream[s].count + Cardinality(sample) <= Limit
      BY <2>n, <3>1, <3>2, <3>3
    <3>5. QED
      BY <3>1, <3>2, <3>4, SendKeeps
  <2>2. ASSUME NEW s \in Streams, FindsRegion(s) PROVE StreamInv'
    BY <2>2, <2>n, StreamStopsWell, StreamGoesOn DEF FindsRegion
  <2>3. ASSUME NEW s \in Streams, InsertsRegion(s) PROVE StreamInv'
    BY <2>3, <2>n, StreamGoesOn DEF InsertsRegion, FoundAgain
  <2>4. ASSUME NEW s \in Streams, FetchRetries(s) PROVE StreamInv'
    <3>1. PICK x : x = [stream[s] EXCEPT !.attempt = stream[s].attempt + 1]
      OBVIOUS
    <3>2. stream[s] \in StreamRecord /\ stream[s].at = "fetch" /\ stream[s].count <= Limit
      BY <2>4 DEF FetchRetries, StreamInv
    <3>3. x \in StreamRecord /\ x.count <= Limit /\ x.at # "idle"
      BY <3>1, <3>2 DEF StreamRecord
    <3>4. stream' = [stream EXCEPT ![s] = x] /\ cache' = cache /\ twice' = twice
      BY <2>4, <3>1 DEF FetchRetries, StreamInv
    <3>5. QED
      BY <2>n, <3>3, <3>4, OneStreamMoves
  <2>5. ASSUME NEW s \in Streams, FetchFails(s) PROVE StreamInv'
    BY <2>5, <2>n, StreamStopsWell DEF FetchFails
  <2>6. ASSUME NEW s \in Streams, NEW batch \in SUBSET Pictures, Fetched(s, batch) PROVE StreamInv'
    <3>1. PICK x : x = [stream[s] EXCEPT !.at = "got", !.batch = batch]
      OBVIOUS
    <3>2. stream[s] \in StreamRecord /\ stream[s].count <= Limit
      BY DEF StreamInv
    <3>3. x \in StreamRecord /\ x.count <= Limit /\ x.at # "idle"
      BY <3>1, <3>2 DEF StreamRecord
    <3>4. stream' = [stream EXCEPT ![s] = x] /\ cache' = cache /\ twice' = twice
      BY <2>6, <3>1 DEF Fetched, StreamInv
    <3>5. QED
      BY <2>n, <3>3, <3>4, OneStreamMoves
  <2>7. ASSUME NEW s \in Streams, CachesBatch(s) PROVE StreamInv'
    <3>1. stream[s].batch \subseteq Pictures
      BY DEF StreamInv, StreamRecord
    <3>2. cache' \subseteq Pictures /\ twice' = twice
      BY <2>7, <2>n, <3>1 DEF CachesBatch
    <3>3. QED
      BY <2>7, <3>2, StreamStopsWell, StreamGoesOn DEF CachesBatch
  <2>8. ASSUME NEW s \in Streams, SendsLive(s) PROVE StreamInv'
    <3>1. PICK chunk \in SUBSET (Unsent(s) \ hidden) :
             /\ Cardinality(chunk) <= Limit - stream[s].count
             /\ Send(s, "done", chunk, Unsent(s))
      BY <2>8 DEF SendsLive, filter_mapillary_photos_list
    <3>2. stream[s] \in StreamRecord
      BY DEF StreamInv
    <3>3. /\ Unsent(s) \in SUBSET Pictures /\ chunk \in SUBSET Pictures
          /\ chunk \cap stream[s].sent = {} /\ cache' = cache /\ stream[s].count \in Nat
      BY <2>8, <3>1, <3>2 DEF SendsLive, Unsent, StreamRecord
    <3>4. stream[s].count + Cardinality(chunk) <= Limit
      BY <2>n, <3>1, <3>3, SomePictures
    <3>5. QED
      BY <3>1, <3>3, <3>4, SendKeeps
  <2>9. ASSUME NEW s \in Streams, Cancelled(s) PROVE StreamInv'
    BY <2>9, <2>n, StreamStopsWell DEF Cancelled
  <2>10. ASSUME NEW pictures \in SUBSET Pictures, UserHides(pictures)
               PROVE  StreamInv'
    BY <2>10 DEF UserHides, StreamInv
  <2>11. CASE UNCHANGED streamVars
    BY <2>11 DEF streamVars, StreamInv
  <2>12. QED
    BY <2>1, <2>2, <2>3, <2>4, <2>5, <2>6, <2>7, <2>8, <2>9, <2>10, <2>11 DEF StreamNext
<1>3. StreamInv => SentOnceWithinLimit
  BY DEF StreamInv, SentOnceWithinLimit
<1>4. QED
  BY <1>1, <1>2, <1>3, PTL DEF StreamSpec

-----------------------------------------------------------------------------
(* The readers of the photo table                                          *)

\* A query's answer: each photo once, each photo that qualifies, in order.
IsAnswer(q, S) ==
    /\ q \in Seq(Shots) /\ Len(q) = Cardinality(S)
    /\ \A i \in 1..Len(q) : q[i] \in S
    /\ \A i, j \in 1..Len(q) : q[i] = q[j] => i = j
    /\ \A s \in S : \E i \in 1..Len(q) : q[i] = s

LEMMA RowsAreAnswers ==
    ASSUME NEW S \in SUBSET Shots, NEW q \in SetToSeqs(S)
    PROVE  IsAnswer(q, S)
<1> DEFINE n == Cardinality(S)
           D == 1..n
<1>1. IsFiniteSet(S) /\ n \in Nat
  BY ListingsAssumption, FS_Subset, FS_CardinalityType
<1>2. q \in [D -> S] /\ \A i, j \in D : i # j => q[i] # q[j]
  BY DEF SetToSeqs
<1>3. q \in Seq(Shots) /\ Len(q) = n
  BY <1>1, <1>2
<1>4. q \in Injection(D, S)
  BY <1>2 DEF Injection, IsInjective
<1>5. IsFiniteSet(D) /\ Cardinality(D) = n
  BY <1>1, FS_Interval
<1>6. q \in Surjection(D, S)
  BY <1>1, <1>4, <1>5, FS_Injection
<1>7. QED
  BY <1>2, <1>3, <1>6 DEF IsAnswer, Surjection

LEMMA OrderedAnswers ==
    ASSUME NEW S \in SUBSET Shots, NEW q \in Orderings(S)
    PROVE  /\ IsAnswer(q, S)
           /\ \A i, j \in 1..Len(q) : i < j => MayPrecede(q[i], q[j])
<1>1. IsAnswer(q, S)
  BY RowsAreAnswers DEF Orderings
<1>2. QED
  BY <1>1 DEF Orderings, IsAnswer

\* How often a reader has seen a photo.
Once(w, s) == \E i \in 1..Len(w) : w[i] = s /\ \A j \in 1..Len(w) : w[j] = s => j = i
Never(w, s) == \A i \in 1..Len(w) : w[i] # s

LEMMA ShowingsCount ==
    ASSUME walk.seen \in Seq(Shots), NEW s
    PROVE  /\ Once(walk.seen, s) => Showings(s) = 1
           /\ Showings(s) = 0 <=> Never(walk.seen, s)
<1> DEFINE I == {i \in DOMAIN walk.seen : walk.seen[i] = s}
<1>1. DOMAIN walk.seen = 1..Len(walk.seen) /\ Len(walk.seen) \in Nat
  OBVIOUS
<1>2. IsFiniteSet(I)
  <2>1. IsFiniteSet(1..Len(walk.seen)) /\ I \in SUBSET (1..Len(walk.seen))
    BY <1>1, FS_Interval
  <2>2. QED
    BY <2>1, FS_Subset
<1>3. ASSUME Once(walk.seen, s) PROVE Showings(s) = 1
  <2>1. PICK i \in 1..Len(walk.seen) :
           walk.seen[i] = s /\ \A j \in 1..Len(walk.seen) : walk.seen[j] = s => j = i
    BY <1>3 DEF Once
  <2>2. I = {i}
    BY <1>1, <2>1
  <2>3. QED
    BY <2>2, FS_Singleton DEF Showings
<1>4. Showings(s) = 0 <=> I = {}
  BY <1>2, FS_EmptySet DEF Showings
<1>5. QED
  BY <1>1, <1>3, <1>4 DEF Never

LEMMA FirstOfAnswers ==
    ASSUME NEW q \in Seq(Shots), NEW n \in Nat
    PROVE  /\ FirstOf(n, q) \in Seq(Shots)
           /\ Len(FirstOf(n, q)) = IF n < Len(q) THEN n ELSE Len(q)
           /\ \A i \in 1..Len(FirstOf(n, q)) : FirstOf(n, q)[i] = q[i]
  BY DEF FirstOf

\* One page more.
LEMMA PageSeen ==
    ASSUME NEW w \in Seq(Shots), NEW p \in Seq(Shots), NEW s,
           \A i, j \in 1..Len(p) : p[i] = p[j] => i = j
    PROVE  /\ w \o p \in Seq(Shots)
           /\ Never(w, s) /\ ~ Never(p, s) => Once(w \o p, s)
           /\ Never(w, s) /\ Never(p, s) => Never(w \o p, s)
           /\ Once(w, s) /\ Never(p, s) => Once(w \o p, s)
<1> DEFINE l == Len(w)
<1>1. /\ w \o p \in Seq(Shots) /\ Len(w \o p) = l + Len(p)
      /\ l \in Nat /\ Len(p) \in Nat
      /\ \A i \in 1..Len(w \o p) : (w \o p)[i] = IF i <= l THEN w[i] ELSE p[i - l]
  OBVIOUS
<1>2. ASSUME Never(w, s), NEW k \in 1..Len(p), p[k] = s PROVE Once(w \o p, s)
  <2>1. (w \o p)[l + k] = s /\ l + k \in 1..Len(w \o p)
    BY <1>1, <1>2
  <2>2. ASSUME NEW j \in 1..Len(w \o p), (w \o p)[j] = s PROVE j = l + k
    <3>1. ~ j <= l
      BY <1>1, <1>2, <2>2 DEF Never
    <3>2. p[j - l] = p[k] /\ j - l \in 1..Len(p)
      BY <1>1, <1>2, <2>2, <3>1
    <3>3. j - l = k
      BY <1>2, <3>2
    <3>4. QED
      BY <1>1, <1>2, <2>2, <3>3
  <2>3. QED
    BY <2>1, <2>2 DEF Once
<1>3. ASSUME Never(w, s), Never(p, s) PROVE Never(w \o p, s)
  <2>1. ASSUME NEW i \in 1..Len(w \o p) PROVE (w \o p)[i] # s
    <3>1. CASE i <= l
      BY <1>1, <1>3, <3>1 DEF Never
    <3>2. CASE ~ i <= l
      BY <1>1, <1>3, <3>2 DEF Never
    <3>3. QED
      BY <3>1, <3>2
  <2>2. QED
    BY <2>1 DEF Never
<1>4. ASSUME Never(p, s), NEW k \in 1..l, w[k] = s, \A j \in 1..l : w[j] = s => j = k
      PROVE  Once(w \o p, s)
  <2>1. (w \o p)[k] = s /\ k \in 1..Len(w \o p)
    BY <1>1, <1>4
  <2>2. ASSUME NEW j \in 1..Len(w \o p), (w \o p)[j] = s PROVE j = k
    BY <1>1, <1>4, <2>2 DEF Never
  <2>3. QED
    BY <2>1, <2>2 DEF Once
<1>5. QED
  BY <1>1, <1>2, <1>3, <1>4 DEF Never, Once

IsRow(r) ==
    /\ r \in [at : {r.at}, name : {r.name}, owner : {r.owner}, status : {r.status},
              public : {r.public}, gone : {r.gone}, featured : {r.featured},
              analysis : {r.analysis}, liked : {r.liked}]
    /\ r.at \in Nat /\ r.name \in Nat /\ r.liked \in {0, 1}

IsWalk(w) ==
    /\ w \in [at : {w.at}, cursor : {w.cursor}, older : {w.older}, seen : {w.seen},
              cuts : {w.cuts}, steady : {w.steady}, moreOlder : {w.moreOlder},
              moreNewer : {w.moreNewer}, quiet : {w.quiet}, opened : {w.opened}]
    /\ w.cursor \in [at : Nat, name : Nat, id : Nat]
    /\ w.seen \in Seq(Shots) /\ w.steady \subseteq Shots
    /\ w.opened \in {"nothing", "found", "missing"}
    /\ w.at # "opened" => w.opened = "nothing"

RowsTyped == gallery = [s \in Shots |-> gallery[s]] /\ \A s \in Shots : IsRow(gallery[s])

ReadersTyped ==
    /\ RowsTyped
    /\ feed \in Feeds
    /\ feed \in {"sitemap", "welcome"} => viewer = "anonymous"
    /\ walk.at = "idle" => walk = NewWalk
    /\ walk.at = "picked" => feed = "map"
    /\ walk.at \in {"anchored", "older", "newer"} => feed = "timeline"
    /\ IsWalk(walk)
    /\ \A s \in walk.steady : Shown(s)

\* A feed with a cursor: a photo is behind it and was shown, or is before it and
\* was not, or has the time of a photo at which a page ended.
Passed(s) == feed # "best" /\ gallery[s].at \in walk.cuts

CursorKept ==
    feed \in CursorFeeds =>
        /\ walk.at = "paging" =>
              \A s \in walk.steady :
                 \/ Once(walk.seen, s) /\ ~ Beyond(s)
                 \/ Never(walk.seen, s) /\ (Beyond(s) \/ Passed(s))
        /\ walk.at = "done" =>
              \A s \in walk.steady :
                 Once(walk.seen, s) \/ (Never(walk.seen, s) /\ Passed(s))

\* The sitemap, as long as the list stays: the offset tells who was shown.
Untied(s) == \A o \in Shots \ {s} : gallery[o].at # gallery[s].at

Rank(s) == Cardinality({o \in Shots : Shown(o) /\ gallery[o].at > gallery[s].at})

OffsetKept ==
    feed = "sitemap" /\ walk.quiet /\ walk.at \in {"paging", "done"} =>
        /\ walk.steady = {s \in Shots : Shown(s)}
        /\ walk.cursor.at = Cardinality(walk.steady)
        /\ \A s \in walk.steady : Untied(s) =>
              IF Rank(s) < walk.cursor.id THEN Once(walk.seen, s) ELSE Never(walk.seen, s)
        /\ walk.at = "done" => walk.cursor.at <= walk.cursor.id

WelcomeKept ==
    feed = "welcome" /\ walk.at = "done" /\ walk.steady # {} => Len(walk.seen) = 1

\* Both halves of the timeline: in order, and what is left out of one lies
\* beyond its far end.
AnchorKept ==
    feed = "timeline" /\ walk.at \in {"anchored", "older", "newer", "done"} =>
        /\ walk.cursor.id \in Shots
        /\ walk.cursor.id \in walk.steady => Position(walk.cursor.id) = walk.cursor

OlderKept ==
    feed = "timeline" /\ walk.at \in {"older", "newer"} =>
        /\ walk.older \in Seq(Shots)
        /\ \A i \in 1..Len(walk.older) : walk.older[i] \in walk.steady =>
              /\ KeyBefore(Position(walk.older[i]), walk.cursor)
              /\ \A j \in 1..Len(walk.older) : i < j /\ walk.older[j] \in walk.steady =>
                    KeyBefore(Position(walk.older[i]), Position(walk.older[j]))
        /\ \A s \in walk.steady :
              KeyBefore(Position(s), walk.cursor) /\ Never(walk.older, s) =>
                 /\ walk.moreOlder
                 /\ \A i \in 1..Len(walk.older) : walk.older[i] \in walk.steady =>
                       KeyBefore(Position(s), Position(walk.older[i]))

NewerKept ==
    feed = "timeline" /\ walk.at = "newer" =>
        /\ \A i \in 1..Len(walk.seen) : walk.seen[i] \in walk.steady =>
              /\ KeyBefore(walk.cursor, Position(walk.seen[i]))
              /\ \A j \in 1..Len(walk.seen) : i < j /\ walk.seen[j] \in walk.steady =>
                    KeyBefore(Position(walk.seen[i]), Position(walk.seen[j]))
        /\ \A s \in walk.steady :
              KeyBefore(walk.cursor, Position(s)) /\ Never(walk.seen, s) =>
                 /\ walk.moreNewer
                 /\ \A i \in 1..Len(walk.seen) : walk.seen[i] \in walk.steady =>
                       KeyBefore(Position(walk.seen[i]), Position(s))

\* What TimelineSlice says, without counting.
SliceKept ==
    feed = "timeline" /\ walk.at = "done" =>
        /\ \A i, j \in 1..Len(walk.seen) :
              i < j /\ walk.seen[i] \in walk.steady /\ walk.seen[j] \in walk.steady =>
                 KeyBefore(Position(walk.seen[i]), Position(walk.seen[j]))
        /\ \A s \in walk.steady : Never(walk.seen, s) =>
              /\ \/ \A i \in 1..Len(walk.seen) : walk.seen[i] \in walk.steady =>
                       KeyBefore(Position(s), Position(walk.seen[i]))
                 \/ \A i \in 1..Len(walk.seen) : walk.seen[i] \in walk.steady =>
                       KeyBefore(Position(walk.seen[i]), Position(s))
              /\ IF KeyBefore(Position(s), walk.cursor) THEN walk.moreOlder ELSE walk.moreNewer

ListingsInv ==
    /\ ReadersTyped
    /\ CursorKept /\ OffsetKept /\ WelcomeKept
    /\ AnchorKept /\ OlderKept /\ NewerKept /\ SliceKept
    /\ ListedOpens

LEMMA ListingsBegin == ListingsInit => ListingsInv
<1>1. SUFFICES ASSUME NEW f \in Feeds, ListingsStart(f) PROVE ListingsInv
  BY DEF ListingsInit
<1>2. gallery = [s \in Shots |-> gallery[s]] /\ \A s \in Shots : IsRow(gallery[s])
  <2>1. IsRow(PlainRow)
    BY DEF PlainRow, IsRow
  <2>2. \A t \in Nat : IsRow([PlainRow EXCEPT !.at = t])
    BY DEF PlainRow, IsRow
  <2>3. \A t \in Nat : IsRow([PlainRow EXCEPT !.at = t, !.owner = "me"])
    BY DEF PlainRow, IsRow
  <2>4. \A n \in {0, 1} : IsRow([PlainRow EXCEPT !.liked = n])
    BY DEF PlainRow, IsRow
  <2>5. \A t \in Nat : IsRow([PlainRow EXCEPT !.at = t, !.featured = TRUE])
    BY DEF PlainRow, IsRow
  <2>6. \A x \in BOOLEAN : IsRow([PlainRow EXCEPT !.featured = x, !.analysis = "fails"])
    BY DEF PlainRow, IsRow
  <2>7. \A n \in Nat : IsRow([PlainRow EXCEPT !.name = n])
    BY DEF PlainRow, IsRow
  <2>8. 0..2 \subseteq Nat /\ 0..1 \subseteq Nat /\ 2 \in Nat /\ 0..1 = {0, 1}
    OBVIOUS
  <2>9. ASSUME NEW r \in RowsFor(f) PROVE IsRow(r)
    <3>1. CASE f \in {"recent", "user"}
      <4>1. RowsFor(f) = {[PlainRow EXCEPT !.at = t] : t \in 0..2}
        BY <3>1 DEF RowsFor
      <4>2. QED
        BY <2>8, <2>9, <4>1, <2>2, Zenon
    <3>2. CASE f = "mine"
      <4>1. RowsFor(f) = {[PlainRow EXCEPT !.at = t, !.owner = "me"] : t \in 0..2}
        BY <3>2 DEF RowsFor
      <4>2. QED
        BY <2>8, <2>9, <4>1, <2>3, Zenon
    <3>3. CASE f \in {"best", "welcome"}
      <4>1. RowsFor(f) = {[PlainRow EXCEPT !.liked = n] : n \in 0..1}
        BY <3>3 DEF RowsFor
      <4>2. QED
        BY <2>8, <2>9, <4>1, <2>4, Zenon
    <3>4. CASE f = "sitemap"
      <4>1. RowsFor(f) = {[PlainRow EXCEPT !.at = t, !.featured = TRUE] : t \in 0..2}
        BY <3>4 DEF RowsFor
      <4>2. QED
        BY <2>8, <2>9, <4>1, <2>5, Zenon
    <3>5. CASE f = "map"
      <4>1. RowsFor(f) = {[PlainRow EXCEPT !.featured = x, !.analysis = "fails"] : x \in BOOLEAN}
                             \cup {PlainRow}
        BY <3>5 DEF RowsFor
      <4>2. QED
        BY <2>8, <2>9, <4>1, <2>1, <2>6, Zenon
    <3>6. CASE f = "timeline"
      <4>1. RowsFor(f) = {[PlainRow EXCEPT !.name = n] : n \in 0..1} \cup {[PlainRow EXCEPT !.at = 2]}
        BY <3>6 DEF RowsFor
      <4>2. QED
        BY <2>8, <2>9, <4>1, <2>2, <2>7, Zenon
    <3>7. QED
      BY <3>1, <3>2, <3>3, <3>4, <3>5, <3>6 DEF Feeds, CursorFeeds
  <2>10. QED
    BY <1>1, <2>9 DEF ListingsStart
<1>3. feed = f /\ walk = NewWalk /\ (f \in {"sitemap", "welcome"} => viewer = "anonymous")
  BY <1>1 DEF ListingsStart, ReadersOf
<1>4. IsWalk(walk) /\ walk.at = "idle" /\ walk.steady = {} /\ walk.opened = "nothing"
  <2>1. /\ NewWalk.seen = <<>> /\ NewWalk.steady = {} /\ NewWalk.opened = "nothing"
        /\ NewWalk.at = "idle"
    BY DEF NewWalk
  <2>2. NewWalk.cursor \in [at : Nat, name : Nat, id : Nat]
    <3>1. NewWalk.cursor = [at |-> 0, name |-> 0, id |-> 0]
      BY DEF NewWalk
    <3>2. [at |-> 0, name |-> 0, id |-> 0] \in [at : Nat, name : Nat, id : Nat]
      OBVIOUS
    <3>3. QED
      BY <3>1, <3>2, Zenon
  <2>3. NewWalk \in [at : {NewWalk.at}, cursor : {NewWalk.cursor}, older : {NewWalk.older},
              seen : {NewWalk.seen}, cuts : {NewWalk.cuts}, steady : {NewWalk.steady},
              moreOlder : {NewWalk.moreOlder}, moreNewer : {NewWalk.moreNewer},
              quiet : {NewWalk.quiet}, opened : {NewWalk.opened}]
    BY DEF NewWalk
  <2>4. IsWalk(NewWalk)
    <3>1. <<>> \in Seq(Shots) /\ {} \subseteq Shots
      OBVIOUS
    <3>2. QED
      BY <2>1, <2>2, <2>3, <3>1, Zenon DEF IsWalk
  <2>5. QED
    BY <1>3, <2>1, <2>4
<1>5. ReadersTyped
  BY <1>2, <1>3, <1>4 DEF ReadersTyped, RowsTyped
<1>6. QED
  BY <1>4, <1>5 DEF ListingsInv, CursorKept, OffsetKept, WelcomeKept, AnchorKept, OlderKept,
                    NewerKept, SliceKept, ListedOpens

LEMMA TableStaysTyped ==
    ASSUME RowsTyped, TableChanges
    PROVE  RowsTyped' /\ TableWritten
<1>1. ASSUME NEW s \in Shots, NEW r, gallery' = [gallery EXCEPT ![s] = r], IsRow(r)
      PROVE  RowsTyped'
  BY <1>1 DEF RowsTyped
<1>2. ASSUME NEW s \in Shots, NEW r, IsRow(r), RowBecomes(s, r)
      PROVE  RowsTyped' /\ TableWritten
  BY <1>1, <1>2 DEF RowBecomes
<1>3. ASSUME NEW h, Hides(h) PROVE RowsTyped' /\ TableWritten
  BY <1>3 DEF Hides, RowsTyped
<1>4. ASSUME NEW s \in Shots PROVE IsRow(gallery[s])
  BY <1>4 DEF RowsTyped
<1>5. ASSUME NEW s \in Shots, RowAppears(s) PROVE RowsTyped' /\ TableWritten
  <2>1. PICK mine, public \in BOOLEAN :
           gallery' = [gallery EXCEPT ![s] =
              [PlainRow EXCEPT !.at = 3, !.owner = IF mine THEN "me" ELSE "you",
                               !.status = "authorized", !.public = public]]
    BY <1>5 DEF RowAppears
  <2>2. IsRow([PlainRow EXCEPT !.at = 3, !.owner = IF mine THEN "me" ELSE "you",
                               !.status = "authorized", !.public = public])
    BY DEF IsRow, PlainRow
  <2>3. QED
    BY <1>1, <1>5, <2>1, <2>2 DEF RowAppears
<1>6. ASSUME NEW s \in Shots, RowCompletes(s) PROVE RowsTyped' /\ TableWritten
  <2>1. PICK t \in Times : RowBecomes(s, [gallery[s] EXCEPT !.status = "completed", !.at = t])
    BY <1>6 DEF RowCompletes
  <2>2. t \in Nat
    BY DEF Times
  <2>3. IsRow([gallery[s] EXCEPT !.status = "completed", !.at = t])
    BY <1>4, <2>2 DEF IsRow
  <2>4. QED
    BY <1>2, <2>1, <2>3
<1>7. ASSUME NEW s \in Shots, RowGoes(s) PROVE RowsTyped' /\ TableWritten
  <2>1. IsRow([gallery[s] EXCEPT !.gone = TRUE])
    BY <1>4 DEF IsRow
  <2>2. QED
    BY <1>2, <1>7, <2>1 DEF RowGoes
<1>8. ASSUME NEW s \in Shots, edit_photo(s) PROVE RowsTyped' /\ TableWritten
  <2>1. IsRow([gallery[s] EXCEPT !.featured = ~ @])
    BY <1>4 DEF IsRow
  <2>2. QED
    BY <1>2, <1>8, <2>1 DEF edit_photo
<1>9. ASSUME NEW s \in Shots, Scored(s) PROVE RowsTyped' /\ TableWritten
  <2>1. IsRow([gallery[s] EXCEPT !.liked = 1 - @])
    BY <1>4, <1>9 DEF IsRow
  <2>2. QED
    BY <1>2, <1>9, <2>1 DEF Scored
<1>10. ASSUME NEW s \in Shots, set_photo_analysis(s) PROVE RowsTyped' /\ TableWritten
  <2>1. PICK a \in {"fits", "fails"} : RowBecomes(s, [gallery[s] EXCEPT !.analysis = a])
    BY <1>10 DEF set_photo_analysis
  <2>2. IsRow([gallery[s] EXCEPT !.analysis = a])
    BY <1>4 DEF IsRow
  <2>3. QED
    BY <1>2, <2>1, <2>2
<1>11. QED
  BY <1>3, <1>5, <1>6, <1>7, <1>8, <1>9, <1>10, Zenon
  DEF TableChanges, HidesOrShowsPhoto, HidesOrShowsUser

\* A change of the table leaves the photos that stay steady as they are, and the
\* reader where it is.
LEMMA TableKeepsReaders ==
    ASSUME ListingsInv, RowsTyped', TableWritten
    PROVE  ListingsInv'
<1>1. /\ UNCHANGED <<viewer, feed, filter>> /\ walk.at # "idle" /\ IsWalk(walk)
      /\ \A s \in walk.steady : Shown(s)
  BY DEF ListingsInv, ReadersTyped, TableWritten
<1> DEFINE kept == {s \in walk.steady : gallery'[s] = gallery[s] /\ Shown(s)'}
<1>2. walk' = [walk EXCEPT !.quiet = FALSE, !.steady = kept]
  BY DEF TableWritten
<1>3. /\ walk'.steady = kept /\ walk'.quiet = FALSE /\ walk'.at = walk.at
      /\ walk'.cursor = walk.cursor /\ walk'.older = walk.older /\ walk'.seen = walk.seen
      /\ walk'.cuts = walk.cuts /\ walk'.moreOlder = walk.moreOlder
      /\ walk'.moreNewer = walk.moreNewer /\ walk'.opened = walk.opened
      /\ IsWalk(walk)'
  BY <1>1, <1>2 DEF IsWalk
<1>4. \A s \in kept : s \in walk.steady /\ gallery'[s] = gallery[s] /\ Shown(s)'
  OBVIOUS
<1> HIDE DEF kept
<1>5. ReadersTyped'
  BY <1>1, <1>3, <1>4 DEF ListingsInv, ReadersTyped
<1>6. CursorKept'
  BY <1>1, <1>3, <1>4
  DEF ListingsInv, CursorKept, Once, Never, Beyond, BelowCursor, BeyondCursor, Passed
<1>7. OffsetKept'
  BY <1>3 DEF OffsetKept
<1>8. WelcomeKept'
  BY <1>1, <1>3, <1>4 DEF ListingsInv, WelcomeKept
<1>9. \A s \in kept : Position(s)' = Position(s)
  BY <1>4 DEF Position
<1>10. AnchorKept'
  BY <1>1, <1>3, <1>4, <1>9 DEF ListingsInv, AnchorKept
<1>11. OlderKept'
  BY <1>1, <1>3, <1>4, <1>9 DEF ListingsInv, OlderKept, Never
<1>12. NewerKept'
  BY <1>1, <1>3, <1>4, <1>9 DEF ListingsInv, NewerKept, Never
<1>13. SliceKept'
  BY <1>1, <1>3, <1>4, <1>9 DEF ListingsInv, SliceKept, Never
<1>14. ListedOpens'
  BY <1>3, <1>4 DEF ListingsInv, ListedOpens
<1>15. QED
  BY <1>5, <1>6, <1>7, <1>8, <1>10, <1>11, <1>12, <1>13, <1>14 DEF ListingsInv

LEMMA ReaderGoesOn ==
    ASSUME ListingsInv, NEW w, Walks(w), IsWalk(w), w.at # "idle", \A s \in w.steady : Shown(s),
           w.at = "picked" => feed = "map",
           w.at \in {"anchored", "older", "newer"} => feed = "timeline"
    PROVE  ReadersTyped' /\ walk' = w /\ UNCHANGED <<gallery, hides, viewer, feed, filter>>
<1>1. walk' = w /\ UNCHANGED <<gallery, hides, viewer, feed, filter>>
  BY DEF Walks
<1>2. \A s : Shown(s)' <=> Shown(s)
  BY <1>1 DEF Shown, Present, InActivity, Mine, OfUser, Ranked, Indexed, InBox, OnTimeline, Welcoming,
              IsProcessed, NotHidden, Fits
<1>3. QED
  BY <1>1, <1>2 DEF ListingsInv, ReadersTyped, RowsTyped

LEMMA WalkStarts ==
    ASSUME ListingsInv, walk.at = "idle"
    PROVE  /\ IsWalk([StartOfWalk EXCEPT !.at = "paging"])
           /\ IsWalk(StartOfWalk) /\ StartOfWalk.steady = {s \in Shots : Shown(s)}
           /\ StartOfWalk.seen = <<>> /\ StartOfWalk.opened = "nothing" /\ StartOfWalk.quiet = TRUE
           /\ StartOfWalk.cursor = [at |-> 0, name |-> 0, id |-> 0]
<1>1. IsWalk(walk) /\ walk = NewWalk
  BY DEF ListingsInv, ReadersTyped
<1>2. /\ walk.seen = <<>> /\ walk.opened = "nothing" /\ walk.quiet = TRUE
      /\ walk.cursor = [at |-> 0, name |-> 0, id |-> 0]
  BY <1>1 DEF NewWalk
<1>3. {s \in Shots : Shown(s)} \subseteq Shots
  OBVIOUS
<1> DEFINE S == {s \in Shots : Shown(s)}
<1> HIDE DEF S
<1>4. StartOfWalk = [walk EXCEPT !.steady = S]
  BY DEF StartOfWalk, S
<1>5. S \subseteq Shots
  BY <1>3 DEF S
<1>6. QED
  BY <1>1, <1>2, <1>4, <1>5 DEF IsWalk, S

\* The photos of a page, and what is left for the next ones.
LEMMA PagesKeep ==
    ASSUME ListingsInv, NEW f \in CursorFeeds, GetsPage(f)
    PROVE  ListingsInv'
<1> DEFINE w == IF walk.at = "idle" THEN StartOfWalk ELSE walk
           S == {s \in Shots : Shown(s) /\ Beyond(s)}
<1>1. feed = f /\ walk.at \in {"idle", "paging"} /\ PageSize \in Nat \ {0}
  BY ListingsAssumption DEF GetsPage
<1>2. IsWalk(w) /\ \A s \in w.steady : s \in Shots /\ Shown(s)
  <2>1. CASE walk.at = "idle"
    BY <2>1, WalkStarts
  <2>2. CASE walk.at # "idle"
    BY <2>2 DEF ListingsInv, ReadersTyped, IsWalk
  <2>3. QED
    BY <2>1, <2>2
\* Before the page.
<1>3. \A s \in w.steady : \/ Once(w.seen, s) /\ s \notin S
                          \/ Never(w.seen, s) /\ (s \in S \/ Passed(s))
  <2>1. CASE walk.at = "idle"
    <3>1. w.seen = <<>> /\ Len(<<>>) = 0
      BY <2>1, WalkStarts
    <3>2. \A s : Never(w.seen, s)
      BY <3>1 DEF Never
    <3>3. \A s : Beyond(s)
      BY <2>1 DEF Beyond
    <3>4. QED
      BY <1>2, <3>2, <3>3
  <2>2. CASE walk.at = "paging"
    <3>1. w = walk /\ feed \in CursorFeeds
      BY <1>1, <2>2
    <3>2. \A s \in walk.steady :
             \/ Once(walk.seen, s) /\ ~ Beyond(s)
             \/ Never(walk.seen, s) /\ (Beyond(s) \/ Passed(s))
      BY <2>2, <3>1 DEF ListingsInv, CursorKept
    <3>3. \A s \in walk.steady : s \in Shots /\ Shown(s)
      BY <1>2, <3>1
    <3>4. QED
      BY <3>1, <3>2, <3>3
  <2>3. QED
    BY <1>1, <2>1, <2>2
<1>4. w.cuts = walk.cuts
  BY <1>2 DEF IsWalk, StartOfWalk, ListingsInv, ReadersTyped
<1>5. PICK q \in Orderings(S) :
         LET page == FirstOf(PageSize, q) IN
         IF Len(q) > PageSize
           THEN Walks([w EXCEPT !.at = "paging", !.seen = @ \o page,
                                !.cursor = CursorAt(page[PageSize]),
                                !.cuts = @ \cup {gallery[page[PageSize]].at}])
           ELSE Walks([w EXCEPT !.at = "done", !.seen = @ \o page])
  BY <1>1 DEF GetsPage
<1> DEFINE page == FirstOf(PageSize, q)
<1> HIDE DEF w, S
<1>6. S \subseteq Shots
  BY DEF S
<1>7. IsAnswer(q, S) /\ \A i, j \in 1..Len(q) : i < j => MayPrecede(q[i], q[j])
  BY <1>6, OrderedAnswers
<1>8. /\ page \in Seq(Shots) /\ Len(page) = (IF PageSize < Len(q) THEN PageSize ELSE Len(q))
      /\ \A i \in 1..Len(page) : page[i] = q[i]
  BY <1>1, <1>7, FirstOfAnswers DEF IsAnswer
<1>9. \A i, j \in 1..Len(page) : page[i] = page[j] => i = j
  BY <1>1, <1>7, <1>8 DEF IsAnswer
<1>10. \A i \in 1..Len(page) : page[i] \in S
  BY <1>1, <1>7, <1>8 DEF IsAnswer
<1> HIDE DEF page
<1>11. w.seen \o page \in Seq(Shots)
  BY <1>2, <1>8, <1>9, PageSeen DEF IsWalk
<1>12. ASSUME NEW s, s \in w.steady
       PROVE  /\ ~ Never(page, s) => Once(w.seen \o page, s) /\ s \in S
              /\ Never(page, s) /\ Never(w.seen, s) => Never(w.seen \o page, s)
              /\ Never(page, s) /\ Once(w.seen, s) => Once(w.seen \o page, s)
  <2>1. ~ Never(page, s) => s \in S
    BY <1>10 DEF Never
  <2>2. ~ Never(page, s) => Never(w.seen, s)
    BY <1>3, <1>12, <2>1
  <2>3. QED
    BY <1>2, <1>8, <1>9, <2>1, <2>2, PageSeen DEF IsWalk
<1>13. CASE ~ Len(q) > PageSize
  <2> DEFINE v == [w EXCEPT !.at = "done", !.seen = w.seen \o page]
  <2>1. Walks(v)
    BY <1>5, <1>13 DEF page
  <2>2. /\ IsWalk(v) /\ v.at = "done" /\ v.seen = w.seen \o page /\ v.steady = w.steady
        /\ v.cuts = walk.cuts /\ v.opened = "nothing"
    BY <1>1, <1>2, <1>4, <1>11 DEF IsWalk, w, StartOfWalk, ListingsInv, ReadersTyped
  <2> HIDE DEF v
  <2>3. ReadersTyped' /\ walk' = v /\ UNCHANGED <<gallery, hides, viewer, feed, filter>>
    BY <1>2, <2>1, <2>2, ReaderGoesOn
  <2>4. ASSUME NEW s \in w.steady PROVE s \in S => ~ Never(page, s)
    BY <1>1, <1>7, <1>8, <1>13 DEF IsAnswer, Never
  <2>5. CursorKept'
    <3>1. \A s : Passed(s)' <=> Passed(s)
      BY <2>2, <2>3 DEF Passed
    <3>2. \A s \in w.steady : \/ Once(v.seen, s)
                              \/ Never(v.seen, s) /\ Passed(s)
      BY <1>3, <1>12, <2>2, <2>4
    <3>3. QED
      BY <2>2, <2>3, <3>1, <3>2 DEF CursorKept
  <2>6. QED
    BY <1>1, <2>2, <2>3, <2>5
    DEF ListingsInv, OffsetKept, WelcomeKept, AnchorKept, OlderKept, NewerKept, SliceKept,
        ListedOpens, CursorFeeds
<1>14. CASE Len(q) > PageSize
  <2> DEFINE last == q[PageSize]
             v == [w EXCEPT !.at = "paging", !.seen = w.seen \o page, !.cursor = CursorAt(last),
                            !.cuts = walk.cuts \cup {gallery[last].at}]
  <2>1. Len(page) = PageSize /\ page[PageSize] = last /\ PageSize \in 1..Len(q) /\ last \in S
    BY <1>1, <1>7, <1>8, <1>14 DEF IsAnswer
  <2>2. Walks(v)
    BY <1>4, <1>5, <1>14, <2>1 DEF page
  <2>3. CursorAt(last) \in [at : Nat, name : Nat, id : Nat] /\ IsRow(gallery[last])
    BY <1>6, <2>1, ListingsAssumption DEF CursorAt, ListingsInv, ReadersTyped, RowsTyped, IsRow
  <2>4. /\ IsWalk(v) /\ v.at = "paging" /\ v.seen = w.seen \o page /\ v.steady = w.steady
        /\ v.cuts = walk.cuts \cup {gallery[last].at} /\ v.cursor = CursorAt(last)
        /\ v.opened = "nothing"
    BY <1>1, <1>2, <1>11, <2>3 DEF IsWalk, w, StartOfWalk, ListingsInv, ReadersTyped
  <2> HIDE DEF v, last
  <2>5. ReadersTyped' /\ walk' = v /\ UNCHANGED <<gallery, hides, viewer, feed, filter>>
    BY <1>2, <2>2, <2>4, ReaderGoesOn
  <2>6. \A s : Beyond(s)' <=> IF feed = "best"
                 THEN \/ gallery[s].liked < gallery[last].liked
                      \/ gallery[s].liked = gallery[last].liked /\ s < last
                 ELSE gallery[s].at < gallery[last].at
    <3>1. /\ CursorAt(last).at = IF feed = "best" THEN gallery[last].liked ELSE gallery[last].at
          /\ CursorAt(last).id = last
      BY DEF CursorAt
    <3>2. walk'.at = "paging" /\ walk'.cursor = CursorAt(last) /\ gallery' = gallery /\ feed' = feed
      BY <2>4, <2>5
    <3>3. QED
      BY <3>1, <3>2 DEF Beyond, BelowCursor, BeyondCursor
  <2>7. \A s : Passed(s)' <=> Passed(s) \/ (feed # "best" /\ gallery[s].at = gallery[last].at)
    BY <2>4, <2>5 DEF Passed
  <2>8. \A s \in Shots : s \in Nat /\ gallery[s].at \in Nat /\ gallery[s].liked \in Nat
    BY ListingsAssumption DEF ListingsInv, ReadersTyped, RowsTyped, IsRow
  <2>9. \A a, b : MayPrecede(a, b) <=>
           IF feed = "best" THEN \/ gallery[a].liked > gallery[b].liked
                                 \/ gallery[a].liked = gallery[b].liked /\ a > b
                            ELSE gallery[a].at >= gallery[b].at
    BY <1>1 DEF MayPrecede, CursorFeeds
  <2>10. ASSUME NEW s \in S PROVE IF Never(page, s) THEN Beyond(s)' \/ Passed(s)' ELSE ~ Beyond(s)'
    <3>1. PICK k \in 1..Len(q) : q[k] = s
      BY <1>7 DEF IsAnswer
    <3>2. last \in Shots /\ s \in Shots
      BY <1>6, <2>1
    <3>3. CASE k <= PageSize
      <4>1. ~ Never(page, s)
        BY <1>8, <2>1, <3>1, <3>3 DEF Never
      <4>2. s = last \/ MayPrecede(s, last)
        BY <1>1, <1>7, <2>1, <3>1, <3>3 DEF last
      <4>3. ~ Beyond(s)'
        <5>1. /\ s \in Nat /\ gallery[s].at \in Nat /\ gallery[s].liked \in Nat
              /\ last \in Nat /\ gallery[last].at \in Nat /\ gallery[last].liked \in Nat
          BY <2>8, <3>2
        <5>2. s = last \/ IF feed = "best"
                            THEN \/ gallery[s].liked > gallery[last].liked
                                 \/ gallery[s].liked = gallery[last].liked /\ s > last
                            ELSE gallery[s].at >= gallery[last].at
          BY <2>9, <4>2
        <5>3. ~ IF feed = "best" THEN \/ gallery[s].liked < gallery[last].liked
                                      \/ gallery[s].liked = gallery[last].liked /\ s < last
                                 ELSE gallery[s].at < gallery[last].at
          BY <5>1, <5>2
        <5>4. QED
          BY <2>6, <5>3
      <4>4. QED
        BY <4>1, <4>3
    <3>4. CASE ~ k <= PageSize
      <4>1. MayPrecede(last, s)
        BY <1>1, <1>7, <2>1, <3>1, <3>4 DEF last
      <4>2. Beyond(s)' \/ Passed(s)'
        BY <2>6, <2>7, <2>8, <2>9, <3>2, <4>1
      <4>3. Never(page, s)
        BY <1>7, <1>8, <2>1, <3>1, <3>4 DEF Never, IsAnswer
      <4>4. QED
        BY <4>2, <4>3
    <3>5. QED
      BY <3>3, <3>4
  <2>11. ASSUME NEW s \in w.steady, s \notin S PROVE ~ Beyond(s)'
    <3>1. ~ Beyond(s) /\ Beyond(last) /\ s \in Shots /\ last \in Shots
      BY <1>2, <1>6, <2>1, <2>11 DEF S
    <3>2. walk.cursor.at \in Nat /\ walk.cursor.id \in Nat
      BY DEF ListingsInv, ReadersTyped, IsWalk
    <3>3. /\ s \in Nat /\ gallery[s].at \in Nat /\ gallery[s].liked \in Nat
          /\ last \in Nat /\ gallery[last].at \in Nat /\ gallery[last].liked \in Nat
      BY <2>8, <3>1
    <3>4. CASE feed = "best"
      BY <2>6, <3>1, <3>2, <3>3, <3>4 DEF Beyond, BelowCursor
    <3>5. CASE feed # "best"
      BY <2>6, <3>1, <3>2, <3>3, <3>5 DEF Beyond, BeyondCursor
    <3>6. QED
      BY <3>4, <3>5
  <2>12. CursorKept'
    <3>1. ASSUME NEW s \in w.steady
          PROVE  \/ Once(v.seen, s) /\ ~ Beyond(s)'
                 \/ Never(v.seen, s) /\ (Beyond(s)' \/ Passed(s)')
      <4>1. CASE Never(page, s)
        BY <1>3, <1>12, <2>4, <2>7, <2>10, <2>11, <4>1
      <4>2. CASE ~ Never(page, s)
        BY <1>12, <2>4, <2>10, <4>2
      <4>3. QED
        BY <4>1, <4>2
    <3>2. QED
      BY <2>4, <2>5, <3>1 DEF CursorKept
  <2>13. QED
    BY <1>1, <2>4, <2>5, <2>12
    DEF ListingsInv, OffsetKept, WelcomeKept, AnchorKept, OlderKept, NewerKept, SliceKept,
        ListedOpens, CursorFeeds
<1>15. QED
  BY <1>13, <1>14

\* The photos before an untied one are those that are newer.
LEMMA RankIsPlace ==
    ASSUME RowsTyped, feed = "sitemap",
           NEW q \in Orderings({s \in Shots : Shown(s)}),
           NEW i \in 1..Len(q), Untied(q[i])
    PROVE  Rank(q[i]) = i - 1
<1> DEFINE S == {s \in Shots : Shown(s)}
           N == {o \in Shots : Shown(o) /\ gallery[o].at > gallery[q[i]].at}
           f == [j \in 1..(i - 1) |-> q[j]]
<1>1. S \in SUBSET Shots
  OBVIOUS
<1>2. IsAnswer(q, S) /\ \A j, k \in 1..Len(q) : j < k => MayPrecede(q[j], q[k])
  BY <1>1, OrderedAnswers
<1>3. \A o \in Shots : gallery[o].at \in Nat
  BY DEF RowsTyped, IsRow
<1>4. \A j, k \in 1..Len(q) : j < k => gallery[q[j]].at >= gallery[q[k]].at
  BY <1>2 DEF MayPrecede
<1>5. ASSUME NEW j \in 1..(i - 1) PROVE q[j] \in N
  <2>1. j \in 1..Len(q) /\ j < i /\ q[j] \in S /\ q[i] \in S /\ q[j] # q[i]
    BY <1>2 DEF IsAnswer
  <2>2. gallery[q[j]].at # gallery[q[i]].at
    BY <2>1 DEF Untied
  <2>3. gallery[q[j]].at > gallery[q[i]].at
    BY <1>3, <1>4, <2>1, <2>2
  <2>4. QED
    BY <2>1, <2>3
<1>6. ASSUME NEW o \in N PROVE \E j \in 1..(i - 1) : q[j] = o
  <2>1. PICK j \in 1..Len(q) : q[j] = o
    BY <1>2 DEF IsAnswer
  <2>2. q[i] \in Shots
    BY <1>2 DEF IsAnswer
  <2>3. ~ i <= j
    BY <1>3, <1>4, <1>6, <2>1, <2>2
  <2>4. QED
    BY <2>1, <2>3
<1>7. \A j, k \in 1..(i - 1) : q[j] = q[k] => j = k
  BY <1>2 DEF IsAnswer
<1>8. f \in [1..(i - 1) -> N]
  BY <1>5
<1>9. f \in Injection(1..(i - 1), N)
  BY <1>7, <1>8 DEF Injection, IsInjective
<1>10. f \in Surjection(1..(i - 1), N)
  BY <1>6, <1>8 DEF Surjection
<1>11. ExistsBijection(1..(i - 1), N)
  BY <1>9, <1>10 DEF ExistsBijection, Bijection
<1>12. IsFiniteSet(1..(i - 1)) /\ Cardinality(1..(i - 1)) = i - 1
  <2> DEFINE m == i - 1
  <2>1. m \in Int /\ 1 \in Int /\ m >= 0
    BY <1>2 DEF IsAnswer
  <2> HIDE DEF m
  <2>2. IsFiniteSet(1..m) /\ Cardinality(1..m) = IF 1 > m THEN 0 ELSE m - 1 + 1
    BY <2>1, FS_Interval
  <2>3. Cardinality(1..m) = m
    BY <2>1, <2>2
  <2>4. QED
    BY <2>2, <2>3 DEF m
<1>13. Cardinality(N) = i - 1
  BY <1>11, <1>12, FS_Bijection
<1>14. QED
  BY <1>13 DEF Rank

LEMMA TotalKeeps ==
    ASSUME ListingsInv, GetsSitemapTotal
    PROVE  ListingsInv'
<1> DEFINE S == {s \in Shots : Shown(s)}
           v == [StartOfWalk EXCEPT !.at = IF StartOfWalk.steady = {} THEN "done" ELSE "paging",
                            !.cursor.at = Cardinality(StartOfWalk.steady)]
<1>1. feed = "sitemap" /\ walk.at = "idle" /\ Walks(v)
  BY DEF GetsSitemapTotal
<1>2. S \subseteq Shots /\ \A s \in S : Shown(s)
  OBVIOUS
<1>3. IsFiniteSet(S) /\ Cardinality(S) \in Nat /\ (Cardinality(S) = 0 <=> S = {})
  BY <1>2, ListingsAssumption, FS_Subset, FS_CardinalityType, FS_EmptySet
<1>4. /\ IsWalk(StartOfWalk) /\ StartOfWalk.steady = S /\ StartOfWalk.seen = <<>>
      /\ StartOfWalk.opened = "nothing" /\ StartOfWalk.cursor = [at |-> 0, name |-> 0, id |-> 0]
  BY <1>1, WalkStarts
<1> HIDE DEF S
<1>5. v = [StartOfWalk EXCEPT !.at = IF S = {} THEN "done" ELSE "paging",
                              !.cursor = [at |-> Cardinality(S), name |-> 0, id |-> 0]]
  <2>1. v = [StartOfWalk EXCEPT !.at = IF S = {} THEN "done" ELSE "paging",
                                !.cursor = [StartOfWalk.cursor EXCEPT !.at = Cardinality(S)]]
    BY <1>4
  <2>2. [StartOfWalk.cursor EXCEPT !.at = Cardinality(S)]
           = [at |-> Cardinality(S), name |-> 0, id |-> 0]
    <3>1. \A n : [[at |-> 0, name |-> 0, id |-> 0] EXCEPT !.at = n] = [at |-> n, name |-> 0, id |-> 0]
      OBVIOUS
    <3>2. QED
      BY <1>4, <3>1, Zenon
  <2>3. QED
    BY <2>1, <2>2, Zenon
<1>6. [at |-> Cardinality(S), name |-> 0, id |-> 0] \in [at : Nat, name : Nat, id : Nat]
  BY <1>3
<1>7. /\ IsWalk(v) /\ v.at = (IF S = {} THEN "done" ELSE "paging") /\ v.steady = S
      /\ v.seen = <<>> /\ v.cursor.at = Cardinality(S) /\ v.cursor.id = 0 /\ v.opened = "nothing"
  <2> DEFINE a == IF S = {} THEN "done" ELSE "paging"
             c == [at |-> Cardinality(S), name |-> 0, id |-> 0]
  <2>1. c \in [at : Nat, name : Nat, id : Nat] /\ c.at = Cardinality(S) /\ c.id = 0
    BY <1>6
  <2>2. a \in {"done", "paging"} /\ v = [StartOfWalk EXCEPT !.at = a, !.cursor = c]
    BY <1>5
  <2> HIDE DEF a, c, v
  <2>3. /\ v.at = a /\ v.cursor = c /\ v.seen = StartOfWalk.seen /\ v.steady = StartOfWalk.steady
        /\ v.opened = StartOfWalk.opened /\ IsWalk(v)
    BY <1>4, <2>1, <2>2 DEF IsWalk
  <2>4. QED
    BY <1>4, <2>1, <2>3 DEF a
<1> HIDE DEF v
<1>8. ReadersTyped' /\ walk' = v /\ UNCHANGED <<gallery, hides, viewer, feed, filter>>
  BY <1>1, <1>2, <1>7, ReaderGoesOn
<1>9. \A s : Shown(s)' <=> Shown(s)
  BY <1>8 DEF Shown, Present, InActivity, Mine, OfUser, Ranked, Indexed, InBox, OnTimeline,
              Welcoming, IsProcessed, NotHidden, Fits
<1>10. ASSUME NEW s PROVE Never(v.seen, s)
  <2>1. Len(v.seen) = 0
    BY <1>7
  <2>2. QED
    BY <2>1 DEF Never
<1>11. ASSUME NEW s PROVE ~ (Rank(s)' < v.cursor.id)
  <2> DEFINE N == {o \in Shots : Shown(o)' /\ gallery[o]'.at > gallery[s]'.at}
  <2>1. N \in SUBSET Shots
    OBVIOUS
  <2>2. Cardinality(N) \in Nat
    BY <2>1, ListingsAssumption, FS_Subset, FS_CardinalityType
  <2>3. QED
    <3>1. Rank(s)' = Cardinality(N)
      BY DEF Rank
    <3>2. v.cursor.id = 0
      BY <1>7
    <3>3. QED
      BY <2>2, <3>1, <3>2
<1>12. OffsetKept'
  <2>1. v.steady = {s \in Shots : Shown(s)'}
    BY <1>7, <1>9 DEF S
  <2>2. v.at = "done" => v.cursor.at <= v.cursor.id
    <3>1. CASE S = {}
      <4>1. v.cursor.at = 0 /\ v.cursor.id = 0
        BY <1>3, <1>7, <3>1
      <4>2. QED
        BY <4>1
    <3>2. CASE S # {}
      <4>1. v.at = "paging"
        BY <1>7, <3>2
      <4>2. QED
        BY <4>1
    <3>3. QED
      BY <3>1, <3>2
  <2>3. QED
    BY <1>7, <1>8, <1>10, <1>11, <2>1, <2>2 DEF OffsetKept
<1>13. QED
  BY <1>1, <1>7, <1>8, <1>12
  DEF ListingsInv, CursorKept, WelcomeKept, AnchorKept, OlderKept, NewerKept, SliceKept,
      ListedOpens, CursorFeeds

LEMMA PieceOfAnswers ==
    ASSUME NEW q \in Seq(Shots), NEW m \in Nat \ {0}, NEW n \in 0..Len(q)
    PROVE  /\ SubSeq(q, m, n) \in Seq(Shots)
           /\ Len(SubSeq(q, m, n)) = IF m <= n THEN n - m + 1 ELSE 0
           /\ \A i \in 1..Len(SubSeq(q, m, n)) : SubSeq(q, m, n)[i] = q[m + i - 1]
  OBVIOUS

LEMMA OffsetPage ==
    ASSUME NEW q \in Seq(Shots), NEW L \in Nat, NEW next \in Nat, NEW page,
           page = SubSeq(q, L + 1, IF next < Len(q) THEN next ELSE Len(q))
    PROVE  /\ page \in Seq(Shots) /\ Len(page) \in Nat /\ Len(q) \in Nat
           /\ \A k \in 1..Len(page) : page[k] = q[L + k] /\ L + k <= next /\ L + k <= Len(q)
           /\ \A i \in 1..Len(q) : L < i /\ i <= next => i - L \in 1..Len(page)
<1> DEFINE n == IF next < Len(q) THEN next ELSE Len(q)
<1>1. n \in 0..Len(q) /\ L + 1 \in Nat \ {0} /\ n <= next /\ (n = next \/ n = Len(q))
  OBVIOUS
<1>2. page = SubSeq(q, L + 1, n)
  OBVIOUS
<1> HIDE DEF n
<1>3. /\ page \in Seq(Shots) /\ Len(page) \in Nat
      /\ Len(page) = IF L + 1 <= n THEN n - (L + 1) + 1 ELSE 0
      /\ \A i \in 1..Len(page) : page[i] = q[(L + 1) + i - 1]
  BY <1>1, <1>2, PieceOfAnswers
<1>4. ASSUME NEW k \in 1..Len(page)
      PROVE  page[k] = q[L + k] /\ L + k <= next /\ L + k <= Len(q)
  <2>1. (L + 1) + k - 1 = L + k /\ L + 1 <= n /\ k <= n - (L + 1) + 1
    BY <1>1, <1>3
  <2>2. QED
    BY <1>1, <1>3, <2>1
<1>5. ASSUME NEW i \in 1..Len(q), L < i, i <= next PROVE i - L \in 1..Len(page)
  BY <1>1, <1>3, <1>5
<1>6. QED
  BY <1>3, <1>4, <1>5

LEMMA SameListing ==
    ASSUME UNCHANGED <<gallery, hides, viewer, feed, filter>>
    PROVE  \A s : (Shown(s)' <=> Shown(s)) /\ Rank(s)' = Rank(s) /\ (Untied(s)' <=> Untied(s))
<1>1. \A s : Shown(s)' <=> Shown(s)
  BY DEF Shown, Present, InActivity, Mine, OfUser, Ranked, Indexed, InBox, OnTimeline,
         Welcoming, IsProcessed, NotHidden, Fits
<1>2. ASSUME NEW s
      PROVE  {o \in Shots : Shown(o)' /\ gallery'[o].at > gallery'[s].at}
                = {o \in Shots : Shown(o) /\ gallery[o].at > gallery[s].at}
  BY <1>1
<1>3. \A s : Rank(s)' = Rank(s)
  BY <1>2 DEF Rank
<1>4. QED
  BY <1>1, <1>3 DEF Untied

LEMMA OffsetKeeps ==
    ASSUME ListingsInv, GetsSitemap
    PROVE  ListingsInv'
<1> DEFINE L == walk.cursor.id
           next == L + PageSize
           S == {s \in Shots : Shown(s)}
<1>1. feed = "sitemap" /\ walk.at = "paging" /\ PageSize \in Nat \ {0}
  BY ListingsAssumption DEF GetsSitemap
<1>2. PICK q \in Orderings(S) :
         Walks([walk EXCEPT !.at = IF next < walk.cursor.at THEN "paging" ELSE "done",
                            !.seen = @ \o SubSeq(q, L + 1, IF next < Len(q) THEN next ELSE Len(q)),
                            !.cursor.id = next])
  BY DEF GetsSitemap
<1> DEFINE page == SubSeq(q, L + 1, IF next < Len(q) THEN next ELSE Len(q))
           a == IF next < walk.cursor.at THEN "paging" ELSE "done"
           c == [walk.cursor EXCEPT !.id = next]
           v == [walk EXCEPT !.at = a, !.seen = walk.seen \o page, !.cursor = c]
<1>3. Walks(v)
  BY <1>2
<1>4. /\ IsWalk(walk) /\ walk.opened = "nothing" /\ walk.seen \in Seq(Shots)
      /\ \A s \in walk.steady : Shown(s)
  BY <1>1 DEF ListingsInv, ReadersTyped, IsWalk
<1>n. L \in Nat /\ walk.cursor.at \in Nat /\ next \in Nat /\ next >= L
  <2>1. L \in Nat /\ walk.cursor.at \in Nat
    BY <1>4 DEF IsWalk
  <2> HIDE DEF L
  <2>2. QED
    BY <1>1, <2>1
<1>5. IsAnswer(q, S) /\ q \in Seq(Shots) /\ Len(q) \in Nat
  <2>1. S \in SUBSET Shots
    OBVIOUS
  <2>2. QED
    BY <2>1, OrderedAnswers DEF IsAnswer
<1> HIDE DEF S
<1> HIDE DEF L, next
<1>6. /\ page \in Seq(Shots) /\ Len(page) \in Nat
      /\ \A k \in 1..Len(page) : page[k] = q[L + k] /\ L + k <= next /\ L + k <= Len(q)
      /\ \A i \in 1..Len(q) : L < i /\ i <= next => i - L \in 1..Len(page)
  <2>1. page = SubSeq(q, L + 1, IF next < Len(q) THEN next ELSE Len(q))
    OBVIOUS
  <2> HIDE DEF page
  <2>2. QED
    <3>1. q \in Seq(Shots) /\ L \in Nat /\ next \in Nat
      BY <1>n, <1>5
    <3>2. /\ page \in Seq(Shots) /\ Len(page) \in Nat /\ Len(q) \in Nat
          /\ \A k \in 1..Len(page) : page[k] = q[L + k] /\ L + k <= next /\ L + k <= Len(q)
          /\ \A i \in 1..Len(q) : L < i /\ i <= next => i - L \in 1..Len(page)
      BY <2>1, <3>1, OffsetPage
    <3>3. QED
      BY <3>2
<1> HIDE DEF page
<1>7. ASSUME NEW k \in 1..Len(page), NEW l \in 1..Len(page), page[k] = page[l] PROVE k = l
  <2>1. L + k \in 1..Len(q) /\ L + l \in 1..Len(q) /\ q[L + k] = q[L + l]
    BY <1>n, <1>5, <1>6, <1>7
  <2>2. L + k = L + l
    BY <1>5, <2>1 DEF IsAnswer
  <2>3. QED
    BY <1>n, <1>6, <2>2
<1>8. page \in Seq(Shots) /\ walk.seen \in Seq(Shots) /\ walk.seen \o page \in Seq(Shots)
  <2>1. page \in Seq(Shots)
    BY <1>6
  <2>2. walk.seen \in Seq(Shots)
    BY <1>4
  <2>3. QED
    BY <2>1, <2>2
<1>9. c \in [at : Nat, name : Nat, id : Nat] /\ c.id = next /\ c.at = walk.cursor.at
  BY <1>4, <1>n DEF IsWalk
<1>10. a \in {"paging", "done"} /\ (a = "done" => walk.cursor.at <= next)
  BY <1>n
<1> HIDE DEF a, c
<1>11. /\ IsWalk(v) /\ v.at = a /\ v.seen = walk.seen \o page /\ v.cursor = c
       /\ v.steady = walk.steady /\ v.quiet = walk.quiet /\ v.opened = "nothing"
  BY <1>4, <1>8, <1>9, <1>10 DEF IsWalk
<1> HIDE DEF v
<1>12. ReadersTyped' /\ walk' = v /\ UNCHANGED <<gallery, hides, viewer, feed, filter>>
  BY <1>3, <1>4, <1>10, <1>11, ReaderGoesOn
<1>13. \A s : (Shown(s)' <=> Shown(s)) /\ Rank(s)' = Rank(s) /\ (Untied(s)' <=> Untied(s))
  BY <1>12, SameListing
<1>14. CASE ~ walk.quiet
  BY <1>1, <1>10, <1>11, <1>12, <1>14
  DEF ListingsInv, CursorKept, OffsetKept, WelcomeKept, AnchorKept, OlderKept, NewerKept,
      SliceKept, ListedOpens, CursorFeeds
<1>15. CASE walk.quiet
  <2>1. /\ walk.steady = S /\ walk.cursor.at = Cardinality(S)
        /\ \A s \in walk.steady : Untied(s) =>
              IF Rank(s) < L THEN Once(walk.seen, s) ELSE Never(walk.seen, s)
    BY <1>1, <1>15 DEF ListingsInv, OffsetKept, L, S
  <2>2. ASSUME NEW s \in walk.steady, Untied(s)
        PROVE  IF Rank(s) < next THEN Once(v.seen, s) ELSE Never(v.seen, s)
    <3>1. PICK i \in 1..Len(q) : q[i] = s
      BY <1>5, <2>1 DEF IsAnswer
    <3>2. Rank(s) = i - 1
      BY <1>1, <2>2, <3>1, RankIsPlace DEF ListingsInv, ReadersTyped, S
    <3>3. CASE L <= i - 1 /\ i - 1 < next
      <4>1. i - L \in 1..Len(page) /\ page[i - L] = s
        BY <1>n, <1>5, <1>6, <3>1, <3>3
      <4>2. Never(walk.seen, s)
        BY <1>n, <2>1, <2>2, <3>2, <3>3
      <4>3. Once(walk.seen \o page, s)
        BY <1>7, <1>8, <4>1, <4>2, PageSeen DEF Never
      <4>4. QED
        BY <1>11, <3>2, <3>3, <4>3
    <3>4. CASE ~ (L <= i - 1 /\ i - 1 < next)
      <4>1. ASSUME NEW k \in 1..Len(page) PROVE page[k] # s
        <5>1. L + k \in 1..Len(q) /\ L + k <= next /\ page[k] = q[L + k] /\ L + k > L
          BY <1>n, <1>5, <1>6
        <5>2. L + k # i
          BY <1>n, <1>5, <3>4, <5>1
        <5>3. QED
          BY <1>5, <3>1, <5>1, <5>2 DEF IsAnswer
      <4>2. Never(page, s)
        BY <4>1 DEF Never
      <4>3. Rank(s) < next <=> Rank(s) < L
        BY <1>n, <1>5, <3>2, <3>4
      <4>4. IF Rank(s) < L THEN Once(walk.seen \o page, s) ELSE Never(walk.seen \o page, s)
        BY <1>7, <1>8, <2>1, <2>2, <4>2, PageSeen
      <4>5. QED
        BY <1>11, <4>3, <4>4
    <3>5. QED
      BY <3>3, <3>4
  <2>3. OffsetKept'
    <3>1. v.steady = {s \in Shots : Shown(s)'}
      BY <1>11, <1>13, <2>1 DEF S
    <3>2. v.cursor.at = Cardinality(v.steady)
      BY <1>9, <1>11, <2>1
    <3>3. v.at = "done" => v.cursor.at <= v.cursor.id
      BY <1>9, <1>10, <1>11
    <3>4. \A s \in v.steady : Untied(s)' =>
             IF Rank(s)' < v.cursor.id THEN Once(v.seen, s) ELSE Never(v.seen, s)
      BY <1>9, <1>11, <1>13, <2>2
    <3>5. QED
      BY <1>12, <3>1, <3>2, <3>3, <3>4 DEF OffsetKept
  <2>4. QED
    BY <1>1, <1>10, <1>11, <1>12, <2>3
    DEF ListingsInv, CursorKept, WelcomeKept, AnchorKept, OlderKept, NewerKept, SliceKept,
        ListedOpens, CursorFeeds
<1>16. QED
  BY <1>14, <1>15

\* Of the welcome, one photo is shown if there is any.
LEMMA WelcomeKeeps ==
    ASSUME ListingsInv, GetsNearest \/ GetsGlobalBest
    PROVE  ListingsInv'
<1>1. feed = "welcome"
  BY DEF GetsNearest, GetsGlobalBest
<1>2. ASSUME NEW v, Walks(v), IsWalk(v), v.at # "idle", \A s \in v.steady : Shown(s), v.opened = "nothing",
             v.at \in {"fallback", "done"}, v.at = "done" /\ v.steady # {} => Len(v.seen) = 1
      PROVE  ListingsInv'
  <2>1. ReadersTyped' /\ walk' = v /\ UNCHANGED <<gallery, hides, viewer, feed, filter>>
    BY <1>2, ReaderGoesOn
  <2>2. QED
    BY <1>1, <1>2, <2>1
    DEF ListingsInv, CursorKept, OffsetKept, WelcomeKept, AnchorKept, OlderKept, NewerKept,
        SliceKept, ListedOpens, CursorFeeds
<1>3. CASE GetsNearest
  <2>1. /\ IsWalk(StartOfWalk) /\ StartOfWalk.steady = {s \in Shots : Shown(s)}
        /\ StartOfWalk.opened = "nothing"
    BY <1>3, WalkStarts DEF GetsNearest
  <2>2. CASE Walks([StartOfWalk EXCEPT !.at = "fallback"])
    <3> DEFINE v == [StartOfWalk EXCEPT !.at = "fallback"]
    <3>1. IsWalk(v) /\ v.at = "fallback" /\ v.steady = StartOfWalk.steady /\ v.opened = "nothing"
      BY <2>1 DEF IsWalk
    <3>2. Walks(v) /\ \A s \in v.steady : Shown(s)
      BY <2>1, <2>2, <3>1
    <3> HIDE DEF v
    <3>3. QED
      BY <1>2, <3>1, <3>2
  <2>3. ASSUME NEW s \in StartOfWalk.steady,
               Walks([StartOfWalk EXCEPT !.at = "done", !.seen = <<s>>])
        PROVE  ListingsInv'
    <3> DEFINE v == [StartOfWalk EXCEPT !.at = "done", !.seen = <<s>>]
    <3>1. <<s>> \in Seq(Shots) /\ Len(<<s>>) = 1
      <4>1. s \in Shots
        BY <2>1
      <4>2. QED
        BY <4>1
    <3>2. /\ IsWalk(v) /\ v.at = "done" /\ v.steady = StartOfWalk.steady /\ v.opened = "nothing"
          /\ v.seen = <<s>>
      BY <2>1, <3>1 DEF IsWalk
    <3>3. Walks(v) /\ \A o \in v.steady : Shown(o)
      BY <2>1, <2>3, <3>2
    <3> HIDE DEF v
    <3>4. QED
      BY <1>2, <3>1, <3>2, <3>3
  <2>4. QED
    BY <1>3, <2>2, <2>3 DEF GetsNearest
<1>4. CASE GetsGlobalBest
  <2> DEFINE S == {s \in Shots : Shown(s)}
  <2>1. PICK q \in Orderings(S) : Walks([walk EXCEPT !.at = "done", !.seen = FirstOf(1, q)])
    BY <1>4 DEF GetsGlobalBest
  <2>2. S \in SUBSET Shots /\ \A s \in S : Shown(s)
    OBVIOUS
  <2>3. IsAnswer(q, S)
    BY <2>2, OrderedAnswers
  <2>4. /\ IsWalk(walk) /\ walk.opened = "nothing"
        /\ \A s \in walk.steady : Shown(s) /\ s \in Shots
    BY <1>4 DEF GetsGlobalBest, ListingsInv, ReadersTyped, IsWalk
  <2>5. /\ FirstOf(1, q) \in Seq(Shots)
        /\ Len(FirstOf(1, q)) = IF 1 < Len(q) THEN 1 ELSE Len(q)
    BY <2>3, FirstOfAnswers DEF IsAnswer
  <2>6. walk.steady # {} => Len(FirstOf(1, q)) = 1
    <3>1. ASSUME NEW s \in walk.steady PROVE Len(q) >= 1
      <4>1. s \in S
        BY <2>4
      <4>2. QED
        BY <2>3, <4>1 DEF IsAnswer
    <3>2. Len(q) \in Nat
      BY <2>3 DEF IsAnswer
    <3>3. Len(q) >= 1 => Len(FirstOf(1, q)) = 1
      <4>1. \A n \in Nat : n >= 1 => (IF 1 < n THEN 1 ELSE n) = 1
        OBVIOUS
      <4>2. Len(FirstOf(1, q)) = IF 1 < Len(q) THEN 1 ELSE Len(q)
        BY <2>5
      <4>3. QED
        BY <3>2, <4>1, <4>2, Zenon
    <3>4. QED
      BY <3>1, <3>3
  <2> DEFINE v == [walk EXCEPT !.at = "done", !.seen = FirstOf(1, q)]
  <2>7. /\ IsWalk(v) /\ v.at = "done" /\ v.steady = walk.steady /\ v.opened = "nothing"
        /\ v.seen = FirstOf(1, q)
    BY <2>4, <2>5 DEF IsWalk
  <2>8. Walks(v)
    BY <2>1
  <2> HIDE DEF v
  <2>9. QED
    BY <1>2, <2>4, <2>6, <2>7, <2>8
<1>5. QED
  BY <1>3, <1>4

\* The map's answer is owed nothing but that what it lists opens.
LEMMA MapKeeps ==
    ASSUME ListingsInv, GetsPicks \/ GetsBox
    PROVE  ListingsInv'
<1>0. feed = "map"
  BY DEF GetsPicks, GetsBox, ListingsInv, ReadersTyped
<1>1. ASSUME NEW v, Walks(v), IsWalk(v), v.at \in {"picked", "done"}, \A s \in v.steady : Shown(s), v.opened = "nothing"
      PROVE  ListingsInv'
  <2>1. ReadersTyped' /\ walk' = v /\ UNCHANGED <<gallery, hides, viewer, feed, filter>>
    BY <1>0, <1>1, ReaderGoesOn
  <2>2. QED
    BY <1>0, <1>1, <2>1
    DEF ListingsInv, CursorKept, OffsetKept, WelcomeKept, AnchorKept, OlderKept, NewerKept,
        SliceKept, ListedOpens, CursorFeeds
<1>2. CASE GetsPicks
  <2>1. PICK picks \in {{}} \cup {{s} : s \in Shots} :
           \E q \in SetToSeqs({s \in picks : Pickable(s)}) :
              Walks([StartOfWalk EXCEPT !.at = "picked", !.seen = q, !.older = SetToSeq(picks)])
    BY <1>2 DEF GetsPicks
  <2>2. PICK q \in SetToSeqs({s \in picks : Pickable(s)}) :
              Walks([StartOfWalk EXCEPT !.at = "picked", !.seen = q, !.older = SetToSeq(picks)])
    BY <2>1
  <2>3. {s \in picks : Pickable(s)} \in SUBSET Shots
    BY <2>1
  <2>4. q \in Seq(Shots)
    BY <2>3, RowsAreAnswers DEF IsAnswer
  <2>5. /\ IsWalk(StartOfWalk) /\ StartOfWalk.steady = {s \in Shots : Shown(s)}
        /\ StartOfWalk.opened = "nothing"
    BY <1>2, WalkStarts DEF GetsPicks
  <2> DEFINE v == [StartOfWalk EXCEPT !.at = "picked", !.seen = q, !.older = SetToSeq(picks)]
  <2>6. IsWalk(v) /\ v.at = "picked" /\ v.steady = StartOfWalk.steady /\ v.opened = "nothing"
    BY <2>4, <2>5 DEF IsWalk
  <2>7. Walks(v) /\ \A s \in v.steady : Shown(s)
    BY <2>2, <2>5, <2>6
  <2> HIDE DEF v
  <2>8. QED
    BY <1>1, <2>6, <2>7
<1>3. CASE GetsBox
  <2> DEFINE S == {s \in Shots \ Range(walk.older) : Shown(s)}
             room == PageSize + 1 - Len(walk.seen)
  <2>1. PICK q \in Orderings(S) :
           Walks([walk EXCEPT !.at = "done", !.older = <<>>,
                              !.seen = IF room > 0 THEN @ \o FirstOf(room, q) ELSE @])
    BY <1>3 DEF GetsBox
  <2>2. S \in SUBSET Shots
    OBVIOUS
  <2>3. q \in Seq(Shots)
    BY <2>2, OrderedAnswers DEF IsAnswer
  <2>4. /\ IsWalk(walk) /\ walk.opened = "nothing" /\ walk.seen \in Seq(Shots)
        /\ \A s \in walk.steady : Shown(s)
    BY <1>3 DEF GetsBox, ListingsInv, ReadersTyped, IsWalk
  <2> DEFINE w == IF room > 0 THEN walk.seen \o FirstOf(room, q) ELSE walk.seen
             v == [walk EXCEPT !.at = "done", !.older = <<>>, !.seen = w]
  <2>5. w \in Seq(Shots)
    <3>1. PageSize \in Nat
      BY ListingsAssumption
    <3>l. walk.seen \in Seq(Shots) /\ Len(walk.seen) \in Nat
      <4>1. walk.seen \in Seq(Shots)
        BY <2>4
      <4>2. QED
        BY <4>1
    <3>2. CASE room > 0
      <4>1. room \in Nat
        <5>1. \A m, n \in Nat : m + 1 - n > 0 => m + 1 - n \in Nat
          OBVIOUS
        <5>2. QED
          BY <3>1, <3>l, <3>2, <5>1, Zenon
      <4>2. FirstOf(room, q) \in Seq(Shots)
        BY <2>3, <4>1, FirstOfAnswers
      <4>3. QED
        BY <3>l, <3>2, <4>2
    <3>3. CASE ~ room > 0
      BY <3>l, <3>3
    <3>4. QED
      BY <3>2, <3>3
  <2>6. Walks(v)
    BY <2>1
  <2> HIDE DEF w
  <2>7. IsWalk(v) /\ v.at = "done" /\ v.steady = walk.steady /\ v.opened = "nothing"
    BY <2>4, <2>5 DEF IsWalk
  <2> HIDE DEF v
  <2>8. QED
    BY <1>1, <2>4, <2>6, <2>7
<1>4. QED
  BY <1>2, <1>3

\* Whoever has opened a photo is done; a photo that is still listed is found.
LEMMA OpeningKeeps ==
    ASSUME ListingsInv, NEW s \in Shots, NEW found, OpensShown(s, found),
           s \in walk.steady => found
    PROVE  ListingsInv'
<1>1. /\ IsWalk(walk) /\ s \in Nat /\ walk.at \in {"paging", "done"}
      /\ \A o \in walk.steady : Shown(o)
  BY ListingsAssumption DEF ListingsInv, ReadersTyped, OpensShown
<1> DEFINE c == [walk.cursor EXCEPT !.id = s]
           o == IF found THEN "found" ELSE "missing"
           v == [walk EXCEPT !.at = "opened", !.cursor = c, !.opened = o]
<1>2. Walks(v)
  BY DEF OpensShown
<1>3. c \in [at : Nat, name : Nat, id : Nat] /\ c.id = s
  BY <1>1 DEF IsWalk
<1>4. o \in {"nothing", "found", "missing"} /\ (o = "missing" => s \notin walk.steady)
  OBVIOUS
<1> HIDE DEF c, o
<1>5. /\ IsWalk(v) /\ v.at = "opened" /\ v.steady = walk.steady /\ v.opened = o /\ v.cursor = c
  BY <1>1, <1>3, <1>4 DEF IsWalk
<1> HIDE DEF v
<1>6. ReadersTyped' /\ walk' = v /\ UNCHANGED <<gallery, hides, viewer, feed, filter>>
  BY <1>1, <1>2, <1>5, ReaderGoesOn
<1>7. ListedOpens'
  BY <1>3, <1>4, <1>5, <1>6 DEF ListedOpens
<1>8. QED
  BY <1>5, <1>6, <1>7
  DEF ListingsInv, CursorKept, OffsetKept, WelcomeKept, AnchorKept, OlderKept, NewerKept, SliceKept

LEMMA ListedIsFound ==
    ASSUME ListingsInv, NEW s \in walk.steady
    PROVE  /\ Present(s)
           /\ feed = "mine" => OwnPhoto(s)
           /\ feed # "mine" => PublicPhoto(s)
           /\ feed = "map" => gallery[s].public
<1>1. /\ Shown(s) /\ feed \in Feeds
      /\ feed \in {"sitemap", "welcome"} => viewer = "anonymous"
  BY DEF ListingsInv, ReadersTyped
<1>2. QED
  BY <1>1 DEF Shown, InActivity, Mine, OfUser, Ranked, InBox, OnTimeline, NotHidden, OwnPhoto,
              PublicPhoto, Feeds, CursorFeeds

LEMMA OpeningsKeep ==
    ASSUME ListingsInv, NEW s \in Shots,
           \/ get_photo(s) \/ get_public_photo(s) \/ get_photo_detections(s)
           \/ get_photo_share_metadata(s) \/ mint_share_link(s)
    PROVE  ListingsInv'
<1>1. s \in walk.steady =>
        /\ Present(s)
        /\ feed = "mine" => OwnPhoto(s)
        /\ feed # "mine" => PublicPhoto(s)
        /\ feed = "map" => gallery[s].public
  BY ListedIsFound
<1>2. CASE get_photo(s)
  BY <1>1, <1>2, OpeningKeeps DEF get_photo
<1>3. CASE get_public_photo(s)
  BY <1>1, <1>3, OpeningKeeps DEF get_public_photo
<1>4. CASE get_photo_detections(s)
  BY <1>1, <1>4, OpeningKeeps DEF get_photo_detections
<1>5. CASE get_photo_share_metadata(s)
  BY <1>1, <1>5, OpeningKeeps DEF get_photo_share_metadata
<1>6. CASE mint_share_link(s)
  BY <1>1, <1>6, OpeningKeeps DEF mint_share_link
<1>7. QED
  BY <1>2, <1>3, <1>4, <1>5, <1>6

(* The timeline                                                            *)

IsKey(a) == a.at \in Nat /\ a.name \in Nat /\ a.id \in Nat

LEMMA KeysAreOrdered ==
    ASSUME NEW a, IsKey(a), NEW b, IsKey(b), NEW c, IsKey(c)
    PROVE  /\ ~ (KeyBefore(a, b) /\ KeyBefore(b, a))
           /\ KeyBefore(a, b) /\ KeyBefore(b, c) => KeyBefore(a, c)
           /\ KeyBefore(a, b) \/ KeyBefore(b, a) \/ a.id = b.id
  BY DEF KeyBefore, IsKey

LEMMA PositionIsKey ==
    ASSUME RowsTyped, NEW s \in Shots
    PROVE  /\ IsKey(Position(s)) /\ Position(s).id = s
           /\ Position(s) \in [at : Nat, name : Nat, id : Nat]
  BY ListingsAssumption DEF RowsTyped, IsRow, IsKey, Position

LEMMA AnchorIsKept ==
    ASSUME ListingsInv, NEW s \in Shots, TimelineAnchor(s)
    PROVE  ListingsInv'
<1>1. feed = "timeline" /\ walk.at = "idle"
  BY DEF TimelineAnchor
<1>2. IsWalk(StartOfWalk) /\ StartOfWalk.steady = {o \in Shots : Shown(o)} /\ StartOfWalk.opened = "nothing"
  BY <1>1, WalkStarts
<1>3. Position(s) \in [at : Nat, name : Nat, id : Nat] /\ Position(s).id = s
  BY PositionIsKey DEF ListingsInv, ReadersTyped
<1> DEFINE v == [StartOfWalk EXCEPT !.at = "anchored", !.cursor = Position(s)]
<1>4. /\ IsWalk(v) /\ v.at = "anchored" /\ v.cursor = Position(s) /\ v.opened = "nothing"
      /\ v.steady = StartOfWalk.steady
  BY <1>2, <1>3 DEF IsWalk
<1>5. Walks(v) /\ \A o \in v.steady : Shown(o)
  BY <1>2, <1>4 DEF TimelineAnchor
<1> HIDE DEF v
<1>6. ReadersTyped' /\ walk' = v /\ UNCHANGED <<gallery, hides, viewer, feed, filter>>
  BY <1>1, <1>4, <1>5, ReaderGoesOn
<1>7. AnchorKept'
  BY <1>3, <1>4, <1>6 DEF AnchorKept, Position
<1>8. QED
  BY <1>1, <1>4, <1>6, <1>7
  DEF ListingsInv, CursorKept, OffsetKept, WelcomeKept, OlderKept, NewerKept, SliceKept,
      ListedOpens, CursorFeeds

\* r is q without its first photos; short: there are such.
WithoutFirst(q, r, short) ==
    \E d \in Nat : /\ d > 0 <=> short
                  /\ d <= Len(q) /\ Len(r) = Len(q) - d
                  /\ \A i \in 1..Len(r) : r[i] = q[d + i]

\* The last n photos.
LEMMA EndOfAnswers ==
    ASSUME NEW q \in Seq(Shots), NEW n \in Nat \ {0}, NEW r,
           r = IF Len(q) > n THEN SubSeq(q, Len(q) - n + 1, Len(q)) ELSE q
    PROVE  r \in Seq(Shots) /\ WithoutFirst(q, r, Len(q) > n)
<1>1. CASE Len(q) > n
  <2> DEFINE d == Len(q) - n
  <2>1. d \in Nat /\ d > 0 /\ d <= Len(q) /\ d + 1 \in Nat \ {0} /\ Len(q) \in 0..Len(q)
    BY <1>1
  <2>2. r = SubSeq(q, d + 1, Len(q))
    BY <1>1
  <2> HIDE DEF d
  <2>3. /\ r \in Seq(Shots)
        /\ Len(r) = IF d + 1 <= Len(q) THEN Len(q) - (d + 1) + 1 ELSE 0
        /\ \A i \in 1..Len(r) : r[i] = q[(d + 1) + i - 1]
    BY <2>1, <2>2, PieceOfAnswers
  <2>4. Len(r) = Len(q) - d
    BY <2>1, <2>3
  <2>5. \A i \in 1..Len(r) : r[i] = q[d + i]
    BY <2>1, <2>3, <2>4
  <2>6. QED
    <3>1. d > 0 <=> Len(q) > n
      BY <1>1, <2>1
    <3>2. QED
      BY <2>1, <2>3, <2>4, <2>5, <3>1 DEF WithoutFirst
<1>2. CASE ~ Len(q) > n
  <2>1. r = q /\ Len(q) \in Nat
    BY <1>2
  <2>2. 0 \in Nat /\ ~ (0 > 0) /\ 0 <= Len(q) /\ Len(r) = Len(q) - 0
    BY <2>1
  <2>3. \A i \in 1..Len(r) : r[i] = q[0 + i]
    BY <2>1
  <2>4. QED
    BY <1>2, <2>1, <2>2, <2>3, Zenon DEF WithoutFirst
<1>3. QED
  BY <1>1, <1>2

LEMMA OlderIsKept ==
    ASSUME ListingsInv, TimelineOlder
    PROVE  ListingsInv'
<1> DEFINE S == {s \in Shots : Shown(s) /\ OlderThanAnchor(Position(s), walk.cursor)}
<1>1. PICK q \in Orderings(S) :
         Walks([walk EXCEPT !.at = "older", !.moreOlder = Len(q) > PageSize,
                            !.older = IF Len(q) > PageSize
                                        THEN SubSeq(q, Len(q) - PageSize + 1, Len(q)) ELSE q])
  BY DEF TimelineOlder
<1>2. /\ walk.at = "anchored" /\ feed = "timeline" /\ IsWalk(walk) /\ walk.opened = "nothing"
      /\ \A s \in walk.steady : Shown(s) /\ s \in Shots
  BY DEF TimelineOlder, ListingsInv, ReadersTyped, IsWalk
<1>3. S \in SUBSET Shots
  OBVIOUS
<1>4. /\ IsAnswer(q, S) /\ q \in Seq(Shots) /\ Len(q) \in Nat
      /\ \A i, j \in 1..Len(q) : i < j => KeyBefore(Position(q[i]), Position(q[j]))
  <2>1. IsAnswer(q, S) /\ \A i, j \in 1..Len(q) : i < j => MayPrecede(q[i], q[j])
    BY <1>3, OrderedAnswers
  <2>2. q \in Seq(Shots)
    BY <2>1 DEF IsAnswer
  <2>3. Len(q) \in Nat
    BY <2>2
  <2>4. \A a, b : MayPrecede(a, b) <=> KeyBefore(Position(a), Position(b))
    BY <1>2 DEF MayPrecede
  <2>5. QED
    BY <2>1, <2>2, <2>3, <2>4
<1> DEFINE r == IF Len(q) > PageSize THEN SubSeq(q, Len(q) - PageSize + 1, Len(q)) ELSE q
           more == Len(q) > PageSize
           v == [walk EXCEPT !.at = "older", !.moreOlder = more, !.older = r]
<1>5. Walks(v)
  BY <1>1
<1>6. r \in Seq(Shots) /\ WithoutFirst(q, r, more)
  <2>1. PageSize \in Nat \ {0}
    BY ListingsAssumption
  <2>2. r = IF Len(q) > PageSize THEN SubSeq(q, Len(q) - PageSize + 1, Len(q)) ELSE q
    OBVIOUS
  <2>3. q \in Seq(Shots)
    BY <1>4
  <2> HIDE DEF r
  <2>4. QED
    BY <2>1, <2>2, <2>3, EndOfAnswers
<1> HIDE DEF r, more
<1>7. /\ IsWalk(v) /\ v.at = "older" /\ v.older = r /\ (v.moreOlder <=> more)
      /\ v.cursor = walk.cursor /\ v.steady = walk.steady /\ v.opened = "nothing"
  BY <1>2 DEF IsWalk
<1> HIDE DEF v
<1>8. ReadersTyped' /\ walk' = v /\ UNCHANGED <<gallery, hides, viewer, feed, filter>>
  BY <1>2, <1>5, <1>7, ReaderGoesOn
<1>9. \A s : Position(s)' = Position(s)
  BY <1>8 DEF Position
<1>10. PICK d \in Nat : /\ d > 0 <=> more
                        /\ d <= Len(q) /\ Len(r) = Len(q) - d
                        /\ \A i \in 1..Len(r) : r[i] = q[d + i]
  BY <1>6 DEF WithoutFirst

<1>11. \A i \in 1..Len(r) : d + i \in 1..Len(q) /\ r[i] = q[d + i]
  BY <1>4, <1>10
<1>12. \A i \in 1..Len(r) : KeyBefore(Position(r[i]), walk.cursor)
  BY <1>4, <1>11 DEF IsAnswer, OlderThanAnchor
<1>13. ASSUME NEW i \in 1..Len(r), NEW j \in 1..Len(r), i < j
       PROVE  KeyBefore(Position(r[i]), Position(r[j]))
  <2>1. d + i < d + j
    BY <1>4, <1>10, <1>13
  <2>2. QED
    BY <1>4, <1>11, <2>1
<1>14. ASSUME NEW s \in walk.steady, KeyBefore(Position(s), walk.cursor), Never(r, s)
       PROVE  more /\ \A i \in 1..Len(r) : KeyBefore(Position(s), Position(r[i]))
  <2>1. s \in S
    BY <1>2, <1>14 DEF OlderThanAnchor
  <2>2. PICK k \in 1..Len(q) : q[k] = s
    BY <1>4, <2>1 DEF IsAnswer
  <2>3. ~ k > d
    <3>1. SUFFICES ASSUME k > d PROVE FALSE
      OBVIOUS
    <3>2. k - d \in 1..Len(r) /\ d + (k - d) = k
      BY <1>4, <1>10, <2>2, <3>1
    <3>3. QED
      BY <1>11, <1>14, <2>2, <3>2 DEF Never
  <2>4. d > 0
    BY <1>10, <2>2, <2>3
  <2>5. ASSUME NEW i \in 1..Len(r) PROVE KeyBefore(Position(s), Position(r[i]))
    <3>1. k < d + i
      BY <1>4, <1>10, <2>2, <2>3
    <3>2. QED
      BY <1>4, <1>11, <2>2, <3>1
  <2>6. QED
    BY <1>10, <2>4, <2>5
<1>15. OlderKept'
  BY <1>6, <1>7, <1>8, <1>9, <1>12, <1>13, <1>14 DEF OlderKept
<1>16. AnchorKept'
  BY <1>2, <1>7, <1>8, <1>9 DEF ListingsInv, AnchorKept
<1>17. QED
  BY <1>2, <1>7, <1>8, <1>15, <1>16
  DEF ListingsInv, CursorKept, OffsetKept, WelcomeKept, NewerKept, SliceKept,
      ListedOpens, CursorFeeds

LEMMA NewerIsKept ==
    ASSUME ListingsInv, TimelineNewer
    PROVE  ListingsInv'
<1> DEFINE S == {s \in Shots : Shown(s) /\ KeyBefore(walk.cursor, Position(s))}
<1>1. PICK q \in Orderings(S) :
         Walks([walk EXCEPT !.at = "newer", !.moreNewer = Len(q) > PageSize,
                            !.seen = FirstOf(PageSize, q)])
  BY DEF TimelineNewer
<1>2. /\ walk.at = "older" /\ feed = "timeline" /\ IsWalk(walk) /\ walk.opened = "nothing"
      /\ \A s \in walk.steady : Shown(s) /\ s \in Shots
  BY DEF TimelineNewer, ListingsInv, ReadersTyped, IsWalk
<1>3. S \in SUBSET Shots
  OBVIOUS
<1>4. /\ IsAnswer(q, S) /\ q \in Seq(Shots) /\ Len(q) \in Nat
      /\ \A i, j \in 1..Len(q) : i < j => KeyBefore(Position(q[i]), Position(q[j]))
  <2>1. IsAnswer(q, S) /\ \A i, j \in 1..Len(q) : i < j => MayPrecede(q[i], q[j])
    BY <1>3, OrderedAnswers
  <2>2. q \in Seq(Shots)
    BY <2>1 DEF IsAnswer
  <2>3. Len(q) \in Nat
    BY <2>2
  <2>4. \A a, b : MayPrecede(a, b) <=> KeyBefore(Position(a), Position(b))
    BY <1>2 DEF MayPrecede
  <2>5. QED
    BY <2>1, <2>2, <2>3, <2>4
<1> DEFINE r == FirstOf(PageSize, q)
           more == Len(q) > PageSize
           v == [walk EXCEPT !.at = "newer", !.moreNewer = more, !.seen = r]
<1>5. Walks(v)
  BY <1>1
<1>6. /\ r \in Seq(Shots) /\ PageSize \in Nat
      /\ Len(r) = IF PageSize < Len(q) THEN PageSize ELSE Len(q)
      /\ \A i \in 1..Len(r) : r[i] = q[i]
      /\ more <=> PageSize < Len(q)
  <2>1. PageSize \in Nat
    BY ListingsAssumption
  <2>2. more <=> PageSize < Len(q)
    BY <1>4, <2>1
  <2>3. QED
    BY <1>4, <2>1, <2>2, FirstOfAnswers
<1> HIDE DEF r, more
<1>7. /\ IsWalk(v) /\ v.at = "newer" /\ v.older = walk.older /\ v.seen = r
      /\ (v.moreNewer <=> more) /\ v.moreOlder = walk.moreOlder
      /\ v.cursor = walk.cursor /\ v.steady = walk.steady /\ v.opened = "nothing"
  BY <1>2, <1>6 DEF IsWalk
<1> HIDE DEF v
<1>8. ReadersTyped' /\ walk' = v /\ UNCHANGED <<gallery, hides, viewer, feed, filter>>
  BY <1>2, <1>5, <1>7, ReaderGoesOn
<1>9. \A s : Position(s)' = Position(s)
  BY <1>8 DEF Position
<1>10. \A i \in 1..Len(r) : i \in 1..Len(q) /\ r[i] = q[i]
  BY <1>4, <1>6
<1>11. \A i \in 1..Len(r) : KeyBefore(walk.cursor, Position(r[i]))
  BY <1>4, <1>10 DEF IsAnswer
<1>12. \A i, j \in 1..Len(r) : i < j => KeyBefore(Position(r[i]), Position(r[j]))
  BY <1>4, <1>10
<1>13. ASSUME NEW s \in walk.steady, KeyBefore(walk.cursor, Position(s)), Never(r, s)
       PROVE  more /\ \A i \in 1..Len(r) : KeyBefore(Position(r[i]), Position(s))
  <2>1. s \in S
    BY <1>2, <1>13
  <2>2. PICK k \in 1..Len(q) : q[k] = s
    BY <1>4, <2>1 DEF IsAnswer
  <2>3. ~ k \in 1..Len(r)
    BY <1>10, <1>13, <2>2 DEF Never
  <2>4. k > Len(r) /\ PageSize < Len(q)
    BY <1>4, <1>6, <2>2, <2>3
  <2>5. ASSUME NEW i \in 1..Len(r) PROVE KeyBefore(Position(r[i]), Position(s))
    <3>1. i < k
      BY <1>4, <1>6, <2>2, <2>4
    <3>2. QED
      BY <1>4, <1>10, <2>2, <3>1
  <2>6. QED
    BY <1>6, <2>4, <2>5
<1>14. NewerKept'
  BY <1>7, <1>8, <1>9, <1>11, <1>12, <1>13 DEF NewerKept
<1>15. OlderKept'
  BY <1>2, <1>7, <1>8, <1>9 DEF ListingsInv, OlderKept
<1>16. AnchorKept'
  BY <1>2, <1>7, <1>8, <1>9 DEF ListingsInv, AnchorKept
<1>17. QED
  BY <1>2, <1>7, <1>8, <1>14, <1>15, <1>16
  DEF ListingsInv, CursorKept, OffsetKept, WelcomeKept, SliceKept, ListedOpens, CursorFeeds

\* x is a, then m, then b.
MadeOf(x, a, m, b) ==
    /\ x \in Seq(Shots)
    /\ \A i \in 1..Len(x) :
          \/ i \in 1..Len(a) /\ x[i] = a[i]
          \/ i - Len(a) \in 1..Len(m) /\ x[i] = m[i - Len(a)]
          \/ i - Len(a) - Len(m) \in 1..Len(b) /\ x[i] = b[i - Len(a) - Len(m)]
    /\ \A s : Never(x, s) => Never(a, s) /\ Never(m, s) /\ Never(b, s)

LEMMA ThreeParts ==
    ASSUME NEW a \in Seq(Shots), NEW m \in Seq(Shots), NEW b \in Seq(Shots), NEW x,
           x = a \o m \o b
    PROVE  MadeOf(x, a, m, b)
<1>1. /\ a \o m \in Seq(Shots) /\ Len(a \o m) = Len(a) + Len(m)
      /\ Len(a) \in Nat /\ Len(m) \in Nat /\ Len(b) \in Nat
      /\ \A i \in 1..Len(a \o m) : (a \o m)[i] = IF i <= Len(a) THEN a[i] ELSE m[i - Len(a)]
  OBVIOUS
<1>2. PICK y : y = a \o m
  OBVIOUS
<1>3. /\ y \in Seq(Shots) /\ Len(y) = Len(a) + Len(m) /\ x = y \o b
      /\ \A i \in 1..Len(y) : y[i] = IF i <= Len(a) THEN a[i] ELSE m[i - Len(a)]
  BY <1>1, <1>2
<1>4. /\ x \in Seq(Shots) /\ Len(x) = Len(a) + Len(m) + Len(b)
      /\ \A i \in 1..Len(x) : x[i] = IF i <= Len(y) THEN y[i] ELSE b[i - Len(y)]
  BY <1>1, <1>3
<1>5. ASSUME NEW i \in 1..Len(x)
      PROVE  \/ i \in 1..Len(a) /\ x[i] = a[i]
             \/ i - Len(a) \in 1..Len(m) /\ x[i] = m[i - Len(a)]
             \/ i - Len(a) - Len(m) \in 1..Len(b) /\ x[i] = b[i - Len(a) - Len(m)]
  <2>1. CASE i <= Len(a)
    BY <1>1, <1>3, <1>4, <2>1
  <2>2. CASE ~ i <= Len(a) /\ i <= Len(y)
    <3>1. i \in 1..Len(y) /\ i - Len(a) \in 1..Len(m)
      BY <1>1, <1>3, <1>4, <2>2
    <3>2. QED
      BY <1>3, <1>4, <2>2, <3>1
  <2>3. CASE ~ i <= Len(y)
    <3>1. i - Len(a) - Len(m) = i - Len(y) /\ i - Len(y) \in 1..Len(b)
      BY <1>1, <1>3, <1>4, <2>3
    <3>2. QED
      BY <1>4, <2>3, <3>1
  <2>4. QED
    BY <2>1, <2>2, <2>3
<1>6. ASSUME NEW s, Never(x, s) PROVE Never(a, s) /\ Never(m, s) /\ Never(b, s)
  <2>1. ASSUME NEW i \in 1..Len(a) PROVE a[i] # s
    <3>1. i \in 1..Len(x) /\ i <= Len(y) /\ i \in 1..Len(y)
      BY <1>1, <1>3, <1>4
    <3>2. x[i] = a[i]
      BY <1>3, <1>4, <3>1
    <3>3. QED
      BY <1>6, <3>1, <3>2 DEF Never
  <2>2. ASSUME NEW i \in 1..Len(m) PROVE m[i] # s
    <3>1. PICK k \in Nat : k = Len(a) + i
      BY <1>1
    <3>2. k \in 1..Len(x) /\ k \in 1..Len(y) /\ k <= Len(y) /\ ~ k <= Len(a) /\ k - Len(a) = i
      BY <1>1, <1>3, <1>4, <3>1
    <3>3. x[k] = m[i]
      BY <1>3, <1>4, <3>2
    <3>4. QED
      BY <1>6, <3>2, <3>3 DEF Never
  <2>3. ASSUME NEW i \in 1..Len(b) PROVE b[i] # s
    <3>1. PICK k \in Nat : k = Len(y) + i
      BY <1>1, <1>3
    <3>2. k \in 1..Len(x) /\ ~ k <= Len(y) /\ k - Len(y) = i
      BY <1>1, <1>3, <1>4, <3>1
    <3>3. x[k] = b[i]
      BY <1>4, <3>2
    <3>4. QED
      BY <1>6, <3>2, <3>3 DEF Never
  <2>4. QED
    BY <2>1, <2>2, <2>3 DEF Never
<1>7. QED
  BY <1>4, <1>5, <1>6 DEF MadeOf

LEMMA AnswerIsSlice ==
    ASSUME ListingsInv, TimelineAnswers
    PROVE  ListingsInv'
<1> DEFINE c == walk.cursor
           a == walk.older
           m == IF Shown(walk.cursor.id) THEN <<walk.cursor.id>> ELSE <<>>
           b == walk.seen
           x == a \o m \o b
           v == [walk EXCEPT !.at = "done", !.seen = x]
<1>1. /\ walk.at = "newer" /\ feed = "timeline" /\ IsWalk(walk) /\ walk.opened = "nothing"
      /\ \A s \in walk.steady : Shown(s) /\ s \in Shots
  BY DEF TimelineAnswers, ListingsInv, ReadersTyped, IsWalk
<1>2. /\ Walks(v)
      /\ walk.cursor.id \in Shots
      /\ walk.cursor.id \in walk.steady => Position(walk.cursor.id) = walk.cursor
  BY <1>1 DEF TimelineAnswers, ListingsInv, AnchorKept
<1>3. /\ a \in Seq(Shots) /\ m \in Seq(Shots) /\ b \in Seq(Shots)
      /\ \A i \in 1..Len(m) : i = 1 /\ m[i] = c.id /\ Shown(c.id)
      /\ \A s : Shown(s) /\ s = c.id => ~ Never(m, s)
  <2>1. a \in Seq(Shots) /\ b \in Seq(Shots)
    BY <1>1 DEF ListingsInv, OlderKept, IsWalk
  <2>2. CASE Shown(walk.cursor.id)
    <3>1. m = <<c.id>> /\ Len(m) = 1 /\ m \in Seq(Shots) /\ m[1] = c.id
      BY <1>2, <2>2
    <3>2. QED
      BY <2>1, <2>2, <3>1 DEF Never
  <2>3. CASE ~ Shown(walk.cursor.id)
    <3>1. m = <<>> /\ m \in Seq(Shots) /\ Len(m) = 0
      BY <2>3
    <3>2. QED
      BY <2>1, <2>3, <3>1
  <2>4. QED
    BY <2>2, <2>3
<1>4. /\ x \in Seq(Shots)
      /\ \A i \in 1..Len(x) :
            \/ i \in 1..Len(a) /\ x[i] = a[i]
            \/ i - Len(a) \in 1..Len(m) /\ x[i] = m[i - Len(a)]
            \/ i - Len(a) - Len(m) \in 1..Len(b) /\ x[i] = b[i - Len(a) - Len(m)]
      /\ \A s : Never(x, s) => Never(a, s) /\ Never(m, s) /\ Never(b, s)
  <2>1. x = a \o m \o b
    OBVIOUS
  <2> HIDE DEF x, m, a, b
  <2>2. a \in Seq(Shots) /\ m \in Seq(Shots) /\ b \in Seq(Shots)
    BY <1>3
  <2>3. MadeOf(x, a, m, b)
    BY <2>1, <2>2, ThreeParts
  <2>4. QED
    BY <2>3 DEF MadeOf
<1> HIDE DEF m, x
<1>5. /\ IsWalk(v) /\ v.at = "done" /\ v.seen = x /\ v.cursor = c /\ v.steady = walk.steady
      /\ v.opened = "nothing" /\ v.moreOlder = walk.moreOlder /\ v.moreNewer = walk.moreNewer
  BY <1>1, <1>4 DEF IsWalk
<1> HIDE DEF v
<1>6. ReadersTyped' /\ walk' = v /\ UNCHANGED <<gallery, hides, viewer, feed, filter>>
  BY <1>1, <1>2, <1>5, ReaderGoesOn
<1>7. \A s : Position(s)' = Position(s)
  BY <1>6 DEF Position
<1>8. IsKey(c) /\ \A s \in walk.steady : IsKey(Position(s)) /\ Position(s).id = s
  <2>1. IsKey(c)
    BY <1>1 DEF IsWalk, IsKey
  <2>2. QED
    BY <1>1, <2>1, PositionIsKey DEF ListingsInv, ReadersTyped
\* Where each photo of the answer stands.
<1> DEFINE K(i) == Position(x[i])
           Left(i) == i \in 1..Len(a) /\ x[i] = a[i] /\ KeyBefore(K(i), c)
           Mid(i) == i = Len(a) + 1 /\ Len(m) = 1 /\ K(i) = c
           Right(i) == /\ i - Len(a) - Len(m) \in 1..Len(b)
                       /\ x[i] = b[i - Len(a) - Len(m)] /\ KeyBefore(c, K(i))
<1>9. Len(a) \in Nat /\ Len(m) \in Nat /\ Len(b) \in Nat /\ (Len(m) # 0 => Len(m) = 1)
  <2>1. Len(a) \in Nat /\ Len(m) \in Nat /\ Len(b) \in Nat
    BY <1>3
  <2>2. Len(m) # 0 => Len(m) \in 1..Len(m)
    BY <2>1
  <2>3. QED
    BY <1>3, <2>1, <2>2
<1>10. ASSUME NEW i \in 1..Len(x), x[i] \in walk.steady
       PROVE  Left(i) \/ Mid(i) \/ Right(i)
  <2>1. CASE i \in 1..Len(a) /\ x[i] = a[i]
    BY <1>1, <1>10, <2>1 DEF ListingsInv, OlderKept
  <2>2. CASE i - Len(a) \in 1..Len(m) /\ x[i] = m[i - Len(a)]
    <3>1. i - Len(a) = 1 /\ x[i] = c.id
      BY <1>3, <2>2
    <3>2. i = Len(a) + 1 /\ Len(m) = 1
      BY <1>9, <2>2, <3>1
    <3>3. QED
      BY <1>2, <1>10, <3>1, <3>2
  <2>3. CASE i - Len(a) - Len(m) \in 1..Len(b) /\ x[i] = b[i - Len(a) - Len(m)]
    BY <1>1, <1>10, <2>3 DEF ListingsInv, NewerKept
  <2>4. QED
    BY <1>4, <2>1, <2>2, <2>3
<1>11. ASSUME NEW i \in 1..Len(x), NEW j \in 1..Len(x), i < j,
              x[i] \in walk.steady, x[j] \in walk.steady
       PROVE  KeyBefore(K(i), K(j))
  <2>1. IsKey(K(i)) /\ IsKey(K(j)) /\ IsKey(c)
    BY <1>8, <1>11
  <2>2. Left(i) \/ Mid(i) \/ Right(i)
    BY <1>10, <1>11
  <2>3. Left(j) \/ Mid(j) \/ Right(j)
    BY <1>10, <1>11
  <2>4. CASE Left(i) /\ Left(j)
    BY <1>1, <1>11, <2>4 DEF ListingsInv, OlderKept
  <2>5. CASE Left(i) /\ Right(j)
    BY <2>1, <2>5, KeysAreOrdered
  <2>6. CASE Right(i) /\ Right(j)
    <3>1. i - Len(a) - Len(m) < j - Len(a) - Len(m)
      BY <1>9, <1>11
    <3>2. QED
      BY <1>1, <1>11, <2>6, <3>1 DEF ListingsInv, NewerKept
  <2>7. CASE (Left(i) /\ Mid(j)) \/ (Mid(i) /\ Right(j))
    BY <2>7
  <2>8. ~ (Mid(i) /\ (Left(j) \/ Mid(j))) /\ ~ (Right(i) /\ (Left(j) \/ Mid(j)))
    BY <1>9, <1>11
  <2>9. QED
    BY <2>2, <2>3, <2>4, <2>5, <2>6, <2>7, <2>8
<1>12. ASSUME NEW s \in walk.steady, Never(x, s)
       PROVE  /\ \/ \A i \in 1..Len(x) : x[i] \in walk.steady => KeyBefore(Position(s), K(i))
                 \/ \A i \in 1..Len(x) : x[i] \in walk.steady => KeyBefore(K(i), Position(s))
              /\ IF KeyBefore(Position(s), c) THEN walk.moreOlder ELSE walk.moreNewer
  <2>1. Never(a, s) /\ Never(b, s) /\ s # c.id
    BY <1>1, <1>3, <1>4, <1>12
  <2>2. IsKey(Position(s)) /\ Position(s).id = s /\ IsKey(c)
    BY <1>8, <1>12
  <2>3. /\ KeyBefore(Position(s), c) \/ KeyBefore(c, Position(s))
        /\ ~ (KeyBefore(Position(s), c) /\ KeyBefore(c, Position(s)))
    BY <2>1, <2>2, KeysAreOrdered
  <2>4. CASE KeyBefore(Position(s), c)
    <3>1. /\ walk.moreOlder
          /\ \A i \in 1..Len(a) : a[i] \in walk.steady => KeyBefore(Position(s), Position(a[i]))
      BY <1>1, <1>12, <2>1, <2>4 DEF ListingsInv, OlderKept
    <3>2. ASSUME NEW i \in 1..Len(x), x[i] \in walk.steady PROVE KeyBefore(Position(s), K(i))
      <4>1. IsKey(K(i)) /\ (Left(i) \/ Mid(i) \/ Right(i))
        BY <1>8, <1>10, <3>2
      <4>2. CASE Left(i)
        BY <3>1, <3>2, <4>2
      <4>3. CASE Mid(i)
        BY <2>4, <4>3
      <4>4. CASE Right(i)
        BY <2>2, <2>4, <4>1, <4>4, KeysAreOrdered
      <4>5. QED
        BY <4>1, <4>2, <4>3, <4>4
    <3>3. QED
      BY <2>4, <3>1, <3>2
  <2>5. CASE KeyBefore(c, Position(s))
    <3>1. /\ walk.moreNewer
          /\ \A i \in 1..Len(b) : b[i] \in walk.steady => KeyBefore(Position(b[i]), Position(s))
      BY <1>1, <1>12, <2>1, <2>5 DEF ListingsInv, NewerKept
    <3>2. ASSUME NEW i \in 1..Len(x), x[i] \in walk.steady PROVE KeyBefore(K(i), Position(s))
      <4>1. IsKey(K(i)) /\ (Left(i) \/ Mid(i) \/ Right(i))
        BY <1>8, <1>10, <3>2
      <4>2. CASE Left(i)
        BY <2>2, <2>5, <4>1, <4>2, KeysAreOrdered
      <4>3. CASE Mid(i)
        BY <2>5, <4>3
      <4>4. CASE Right(i)
        BY <3>1, <3>2, <4>4
      <4>5. QED
        BY <4>1, <4>2, <4>3, <4>4
    <3>3. QED
      BY <2>3, <2>5, <3>1, <3>2
  <2>6. QED
    BY <2>3, <2>4, <2>5
<1>13. SliceKept'
  BY <1>5, <1>6, <1>7, <1>11, <1>12 DEF SliceKept
<1>14. AnchorKept'
  BY <1>1, <1>2, <1>5, <1>6, <1>7 DEF AnchorKept
<1>15. QED
  BY <1>1, <1>5, <1>6, <1>13, <1>14
  DEF ListingsInv, CursorKept, OffsetKept, WelcomeKept, OlderKept, NewerKept, ListedOpens,
      CursorFeeds

LEMMA ListingsStep == ListingsInv /\ [ListingsNext]_listingVars => ListingsInv'
<1> SUFFICES ASSUME ListingsInv, [ListingsNext]_listingVars PROVE ListingsInv'
  OBVIOUS
<1>1. CASE TableChanges
  <2>1. RowsTyped
    BY DEF ListingsInv, ReadersTyped
  <2>2. RowsTyped' /\ TableWritten
    BY <1>1, <2>1, TableStaysTyped
  <2>3. QED
    BY <2>2, TableKeepsReaders
<1>2. CASE get_recent_activity
  BY <1>2, PagesKeep DEF get_recent_activity, CursorFeeds
<1>3. CASE list_photos
  BY <1>3, PagesKeep DEF list_photos, CursorFeeds
<1>4. CASE get_user_photos
  BY <1>4, PagesKeep DEF get_user_photos, CursorFeeds
<1>5. CASE get_best_photos
  BY <1>5, PagesKeep DEF get_best_photos, CursorFeeds
<1>6. CASE GetsSitemapTotal \/ GetsSitemap
  BY <1>6, TotalKeeps, OffsetKeeps
<1>7. CASE GetsNearest \/ GetsGlobalBest
  BY <1>7, WelcomeKeeps
<1>8. CASE GetsPicks \/ GetsBox
  BY <1>8, MapKeeps
<1>9. CASE TimelineOlder \/ TimelineNewer \/ TimelineAnswers
  BY <1>9, OlderIsKept, NewerIsKept, AnswerIsSlice
<1>10. CASE \E s \in Shots : TimelineAnchor(s)
  BY <1>10, AnchorIsKept
<1>11. CASE \E s \in Shots : \/ get_photo(s) \/ get_public_photo(s) \/ get_photo_detections(s)
                             \/ get_photo_share_metadata(s) \/ mint_share_link(s)
  BY <1>11, OpeningsKeep
<1>12. CASE UNCHANGED listingVars
  <2>1. UNCHANGED <<gallery, hides, viewer, feed, filter, walk>>
    BY <1>12 DEF listingVars
  <2>2. \A s : (Shown(s)' <=> Shown(s)) /\ Rank(s)' = Rank(s) /\ (Untied(s)' <=> Untied(s))
    BY <2>1, SameListing
  <2>3. \A s : Position(s)' = Position(s)
    BY <2>1 DEF Position
  <2>4. ReadersTyped' /\ WelcomeKept' /\ ListedOpens'
    BY <2>1, <2>2 DEF ListingsInv, ReadersTyped, RowsTyped, WelcomeKept, ListedOpens
  <2>5. CursorKept'
    BY <2>1 DEF ListingsInv, CursorKept, Beyond, BelowCursor, BeyondCursor, Passed
  <2>6. OffsetKept'
    BY <2>1, <2>2 DEF ListingsInv, OffsetKept
  <2>7. AnchorKept' /\ OlderKept' /\ NewerKept' /\ SliceKept'
    BY <2>1, <2>3 DEF ListingsInv, AnchorKept, OlderKept, NewerKept, SliceKept
  <2>8. QED
    BY <2>4, <2>5, <2>6, <2>7 DEF ListingsInv
<1>13. QED
  BY <1>1, <1>2, <1>3, <1>4, <1>5, <1>6, <1>7, <1>8, <1>9, <1>10, <1>11, <1>12
  DEF ListingsNext

\* Fewer photos are before s than there are.
LEMMA RankIsBelow ==
    ASSUME RowsTyped, NEW s \in Shots, Shown(s)
    PROVE  Rank(s) < Cardinality({o \in Shots : Shown(o)})
<1> DEFINE S == {o \in Shots : Shown(o)}
           N == {o \in Shots : Shown(o) /\ gallery[o].at > gallery[s].at}
<1>1. S \in SUBSET Shots /\ N \in SUBSET S /\ s \in S
  OBVIOUS
<1>2. s \notin N
  BY DEF RowsTyped, IsRow
<1>3. IsFiniteSet(S) /\ IsFiniteSet(N)
  BY <1>1, ListingsAssumption, FS_Subset
<1>4. Cardinality(S) \in Nat /\ Cardinality(N) \in Nat
  BY <1>3, FS_CardinalityType
<1>5. Cardinality(N) <= Cardinality(S) /\ Cardinality(S) # Cardinality(N)
  BY <1>1, <1>2, <1>3, FS_Subset
<1>6. QED
  BY <1>4, <1>5 DEF Rank

LEMMA ReadersAreServedIf == ListingsInv => ReadersServed
<1> SUFFICES ASSUME ListingsInv PROVE ReadersServed
  OBVIOUS
<1>1. walk.seen \in Seq(Shots) /\ walk.steady \subseteq Shots
  BY DEF ListingsInv, ReadersTyped, IsWalk
<1>2. \A s : /\ Once(walk.seen, s) => Showings(s) = 1
             /\ Showings(s) = 0 <=> Never(walk.seen, s)
  BY <1>1, ShowingsCount
<1>3. FeedsComplete
  <2>1. SUFFICES ASSUME walk.at = "done", feed \notin {"map", "timeline"}, NEW s \in walk.steady
                 PROVE  \/ feed = "welcome" /\ Len(walk.seen) = 1
                        \/ Showings(s) = 1
                        \/ /\ Showings(s) = 0 /\ feed \in CursorFeeds \ {"best"}
                           /\ gallery[s].at \in walk.cuts
                        \/ feed = "sitemap" /\ (\/ ~ walk.quiet
                                                \/ \E o \in Shots \ {s} : gallery[o].at = gallery[s].at)
    BY DEF FeedsComplete
  <2>2. CASE feed = "welcome"
    BY <2>1, <2>2 DEF ListingsInv, WelcomeKept
  <2>3. CASE feed \in CursorFeeds
    BY <1>2, <2>1, <2>3 DEF ListingsInv, CursorKept, Passed
  <2>4. CASE feed = "sitemap" /\ walk.quiet /\ Untied(s)
    <3>1. /\ walk.steady = {o \in Shots : Shown(o)}
          /\ walk.cursor.at = Cardinality(walk.steady)
          /\ IF Rank(s) < walk.cursor.id THEN Once(walk.seen, s) ELSE Never(walk.seen, s)
          /\ walk.cursor.at <= walk.cursor.id
      BY <2>1, <2>4 DEF ListingsInv, OffsetKept
    <3>2. Rank(s) < walk.cursor.at
      BY <1>1, <3>1, RankIsBelow DEF ListingsInv, ReadersTyped
    <3>3. walk.cursor.at \in Nat /\ walk.cursor.id \in Nat
      BY DEF ListingsInv, ReadersTyped, IsWalk
    <3>4. Rank(s) \in Nat
      <4>1. {o \in Shots : Shown(o) /\ gallery[o].at > gallery[s].at} \in SUBSET Shots
        OBVIOUS
      <4>2. QED
        BY <4>1, ListingsAssumption, FS_Subset, FS_CardinalityType DEF Rank
    <3>5. \A k, m, n \in Nat : k < m /\ m <= n => k < n
      OBVIOUS
    <3>6. Rank(s) < walk.cursor.id
      BY <3>1, <3>2, <3>3, <3>4, <3>5, Zenon
    <3>7. QED
      BY <1>2, <3>1, <3>6
  <2>5. CASE feed = "sitemap" /\ ~ (walk.quiet /\ Untied(s))
    BY <2>5 DEF Untied
  <2>6. QED
    BY <2>1, <2>2, <2>3, <2>4, <2>5 DEF ListingsInv, ReadersTyped, Feeds
<1>4. TimelineSlice
  <2>1. SUFFICES ASSUME walk.at = "done", feed = "timeline" PROVE TimelineSlice
    BY DEF TimelineSlice
  <2>2. DOMAIN walk.seen = 1..Len(walk.seen)
    BY <1>1
  <2>3. /\ \A i, j \in 1..Len(walk.seen) :
              i < j /\ walk.seen[i] \in walk.steady /\ walk.seen[j] \in walk.steady =>
                 KeyBefore(Position(walk.seen[i]), Position(walk.seen[j]))
        /\ \A s \in walk.steady : Showings(s) = 0 =>
              /\ \/ \A i \in 1..Len(walk.seen) : walk.seen[i] \in walk.steady =>
                       KeyBefore(Position(s), Position(walk.seen[i]))
                 \/ \A i \in 1..Len(walk.seen) : walk.seen[i] \in walk.steady =>
                       KeyBefore(Position(walk.seen[i]), Position(s))
              /\ IF KeyBefore(Position(s), walk.cursor) THEN walk.moreOlder ELSE walk.moreNewer
    BY <1>2, <2>1 DEF ListingsInv, SliceKept
  <2>4. QED
    BY <2>2, <2>3 DEF TimelineSlice
<1>5. QED
  BY <1>3, <1>4 DEF ReadersServed, ListingsInv

\* Readers of the photo table get what they are owed, however the table changes
\* under them: a feed repeats nothing and leaves out only what its cursor
\* cannot tell apart, the timeline's answer has no holes, and what was listed
\* and stays as it is opens.
THEOREM ReadersAreServed == ListingsSpec => []ReadersServed
<1>1. ListingsInit => ListingsInv
  BY ListingsBegin
<1>2. ListingsInv /\ [ListingsNext]_listingVars => ListingsInv'
  BY ListingsStep
<1>3. ListingsInv => ReadersServed
  BY ReadersAreServedIf
<1>4. QED
  BY <1>1, <1>2, <1>3, PTL DEF ListingsSpec

=============================================================================
