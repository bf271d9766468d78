------------------------------ MODULE TokenBucket ------------------------------
(***************************************************************************)
(* The token bucket in front of the Mapillary API (mapillary_routes).  A   *)
(* waiter tries to take a token and sleeps a refill period when it gets    *)
(* none.  Whole periods since the last attempt refill the bucket; what     *)
(* remains of a period is dropped.  Time is counted in ticks.              *)
(***************************************************************************)
EXTENDS Integers

CONSTANTS
    Waiters,
    BucketSize,      \* max_tokens
    Period          \* refill_period, in ticks

ASSUME BucketAssumption == BucketSize \in Nat \ {0} /\ Period \in Nat \ {0}

VARIABLES
    tokens,
    since,      \* ticks since last_refill, as far as they make a difference
    waiter,     \* calling, asleep for 0..Period more ticks, or away
    exact       \* an exact bucket of the same size, in ticks' worth of tokens

bucketVars == <<tokens, since, waiter, exact>>

Full == BucketSize * Period

Away == -1

BucketTypeOK ==
    /\ tokens \in 0..BucketSize
    /\ since \in 0..Full
    /\ waiter \in [Waiters -> Away..Period]
    /\ exact \in Int

BucketInit ==
    /\ tokens = BucketSize /\ since = 0
    /\ waiter = [w \in Waiters |-> Away]
    /\ exact = Full

AtMost(a, b) == IF a <= b THEN a ELSE b

Arrives(w) ==
    /\ waiter[w] = Away
    /\ waiter' = [waiter EXCEPT ![w] = 0]
    /\ UNCHANGED <<tokens, since, exact>>

Refilled == AtMost(BucketSize, tokens + since \div Period)

\* Faulty variant: the time of the last refill is kept until a period is over,
\* but not moved when one is.
NotMoved == since

LastRefill == 0

acquire(w) ==
    /\ waiter[w] = 0
    /\ since' = LastRefill
    /\ IF Refilled > 0
         THEN /\ tokens' = Refilled - 1
              /\ waiter' = [waiter EXCEPT ![w] = Away]
              /\ exact' = exact - Period
         ELSE /\ tokens' = Refilled
              /\ waiter' = [waiter EXCEPT ![w] = Period]
              /\ UNCHANGED exact

Tick ==
    /\ \A w \in Waiters : waiter[w] # 0     \* no call takes as long as a tick
    /\ since' = AtMost(Full, since + 1)
    /\ exact' = AtMost(Full, exact + 1)
    /\ waiter' = [w \in Waiters |-> IF waiter[w] > 0 THEN waiter[w] - 1 ELSE waiter[w]]
    /\ UNCHANGED tokens

BucketNext == Tick \/ \E w \in Waiters : Arrives(w) \/ acquire(w)

BucketSpec == BucketInit /\ [][BucketNext]_bucketVars

-----------------------------------------------------------------------------
\* The bucket never grants a call that an exact bucket of the same size and
\* rate would refuse, whatever the times and the number of the waiters: no
\* burst above BucketSize, no rate above one per period.
RateHeld == exact >= 0
=============================================================================
