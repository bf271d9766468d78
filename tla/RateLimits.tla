------------------------------ MODULE RateLimits ------------------------------
(***************************************************************************)
(* The API's limits (rate_limiter.py): a sliding window of requests per    *)
(* identifier, and the lockouts that follow failed logins.  Each check     *)
(* runs under a lock, but a login is checked first, then tried against the *)
(* database, and recorded after that: logins overlap.                      *)
(*                                                                         *)
(* One identifier, out of all that requests are counted under: a request   *)
(* counts in the global middleware and again in its own endpoint.  A tick  *)
(* is half a second, and lockouts and their window are scaled down, five   *)
(* minutes to a second: they are whole seconds, of which waits are told,   *)
(* and requests come between them.                                         *)
(***************************************************************************)
EXTENDS Integers

CONSTANTS
    LoginTries,
    MaxRequests,    \* of a window
    MaxAttempts     \* failed logins before the first lockout

ASSUME LimitsAssumption == MaxRequests \in Nat \ {0} /\ MaxAttempts \in Nat \ {0}

VARIABLES
    limiter,    \* the identifier that is looked at
    history,    \* admitted requests by age
    failure,    \* the last failed login: its age and its number in a row; none is 0
    trying,     \* logins that were let in and are not decided
    advice        \* history: ticks that a refused client was told to wait, and
                \* whether anything was recorded for its identifier since

limitVars == <<limiter, history, failure, trying, advice>>

-----------------------------------------------------------------------------
(* Whom a request counts for                                               *)

Routes == {"token", "register", "preflight", "debug", "upload-file",
           "photo", "profile", "listing", "share"}

\* chained: X-Forwarded-For has more than one entry.  Photo operations and the
\* profile need a user.
Requests == {r \in [endpoint : Routes, user : BOOLEAN, chained : BOOLEAN] :
                r.endpoint \in {"photo", "profile"} => r.user}

PerUser == {"photo_operations", "user_profile"}

get_identifier(limit, user) ==
    [limit |-> limit, by |-> IF limit \in PerUser /\ user THEN "user" ELSE "address"]

SignIns == [limit |-> "logins", by |-> "name"]

\* GlobalRateLimitMiddleware knows no user.
dispatch(r) ==
    CASE r.endpoint \in {"token", "register", "preflight", "debug"} -> {}
      [] r.endpoint = "upload-file" -> {get_identifier("worker_upload", FALSE)}
      [] OTHER -> {get_identifier("general_api", FALSE)}

OwnLimit(r) ==
    CASE r.endpoint = "register" -> {get_identifier("user_registration", FALSE)}
      [] r.endpoint = "photo" -> {get_identifier("photo_operations", r.user)}
      [] r.endpoint = "profile" -> {get_identifier("user_profile", r.user)}
      [] r.endpoint = "listing" -> {get_identifier("public_read", r.user)}
      [] r.endpoint = "share" -> {get_identifier("share_mint", FALSE)}
      [] OTHER -> {}

\* get_client_ip answers 403 before anything is recorded.
CountedAs(r) == IF r.chained THEN {} ELSE dispatch(r) \cup OwnLimit(r)

Identifiers == {SignIns} \cup UNION {CountedAs(r) : r \in Requests}

-----------------------------------------------------------------------------
SecondTicks == 2
WindowTicks == 2        \* then a request has left the window
AttemptTicks == 6       \* auth_window_minutes
FirstTicks == 2         \* five minutes
LockoutTicks == 12      \* auth_lockout_minutes
WaitTicks == 0..(3 * LockoutTicks)

NoFailure == [age |-> 0, count |-> 0]
NotTold == [wait |-> 0, waits |-> FALSE, since |-> FALSE]

LimitsTypeOK ==
    /\ limiter \in Identifiers
    /\ history \in [0..WindowTicks -> 0..MaxRequests]
    /\ failure \in [age : 0..AttemptTicks, count : 0..(3 * MaxAttempts)]
    /\ trying \subseteq LoginTries
    /\ advice \in [wait : WaitTicks, waits : BOOLEAN, since : BOOLEAN]

LimitsInit ==
    /\ limiter \in Identifiers
    /\ history = [a \in 0..WindowTicks |-> 0]
    /\ failure = NoFailure
    /\ trying = {}
    /\ advice = NotTold

Tells(n) == advice' = [wait |-> n, waits |-> TRUE, since |-> FALSE]

Recorded == advice' = [advice EXCEPT !.since = advice.waits]

\* history[:] = [t for t in history if now - t < window_seconds]
InWindow(h) == [h EXCEPT ![WindowTicks] = 0]

WindowFull(h) == h[0] + h[1] >= MaxRequests

\* Refused requests leave no entry; Retry-After is the whole window.
check_rate_limit(r) ==
    /\ limiter \in CountedAs(r)
    /\ LET h == InWindow(history) IN
       IF WindowFull(h) THEN history' = h /\ Tells(WindowTicks)
                  ELSE history' = [h EXCEPT ![0] = @ + 1] /\ Recorded
    /\ UNCHANGED <<limiter, failure, trying>>

\* Failures that are too old are forgotten, and with the last one all of them.
Remembered(f) == IF f.age < AttemptTicks THEN f ELSE NoFailure

Lockout(count) ==
    CASE count >= 3 * MaxAttempts -> 3 * LockoutTicks
      [] count >= 2 * MaxAttempts /\ count < 3 * MaxAttempts -> LockoutTicks
      [] count >= MaxAttempts /\ count < 2 * MaxAttempts -> FirstTicks
      [] OTHER -> 0

LockoutLeft(f) == Lockout(f.count) - f.age

Locked(f) == f.count # 0 /\ LockoutLeft(f) > 0

\* Faulty variant: every lockout is announced as the first one.
ShortRemaining(f) == IF f.age < FirstTicks THEN FirstTicks - f.age ELSE 0

\* int((lockout_until - now).total_seconds())
Remaining(f) == LockoutLeft(f) - (LockoutLeft(f) % SecondTicks)

check_auth_rate_limit(t) ==
    /\ limiter = SignIns /\ t \notin trying
    /\ LET f == Remembered(failure) IN
       /\ failure' = f
       /\ IF Locked(f) THEN Tells(Remaining(f)) /\ UNCHANGED trying
                       ELSE trying' = trying \cup {t} /\ UNCHANGED advice
    /\ UNCHANGED <<limiter, history>>

\* Bound: failures are counted up to the last threshold.
record_failed_attempt(t) ==
    /\ t \in trying /\ trying' = trying \ {t}
    /\ failure' = [age |-> 0, count |-> IF failure.count = 3 * MaxAttempts
                                          THEN failure.count ELSE failure.count + 1]
    /\ Recorded
    /\ UNCHANGED <<limiter, history>>

clear_failed_attempts(t) ==
    /\ t \in trying /\ trying' = trying \ {t}
    /\ failure' = NoFailure
    /\ UNCHANGED <<limiter, history, advice>>

TimePasses ==
    /\ history' = [a \in 0..WindowTicks |->
                     CASE a = 0 -> 0
                       [] a = WindowTicks -> history[a] + history[a - 1]
                       [] OTHER -> history[a - 1]]
    /\ failure' = IF failure.age = AttemptTicks \/ failure.count = 0 THEN failure
                  ELSE [failure EXCEPT !.age = @ + 1]
    /\ advice' = IF advice.wait = 0 THEN advice ELSE [advice EXCEPT !.wait = @ - 1]
    /\ UNCHANGED <<limiter, trying>>

LimitsNext ==
    \/ TimePasses \/ \E r \in Requests : check_rate_limit(r)
    \/ \E t \in LoginTries : \/ check_auth_rate_limit(t)
                             \/ record_failed_attempt(t) \/ clear_failed_attempts(t)

LimitsSpec == LimitsInit /\ [][LimitsNext]_limitVars

-----------------------------------------------------------------------------
\* A client that was refused and has waited as long as it was told.
Waited == advice.waits /\ ~ advice.since /\ advice.wait = 0

\* It is let in, unless a request or a login of the same identifier was recorded
\* in the meantime; a lockout is announced less than a second too short, since
\* what is left of it is cut to whole seconds.
RetryAfterHolds ==
    Waited => IF limiter = SignIns
                THEN LET f == Remembered(failure) IN Locked(f) => LockoutLeft(f) < SecondTicks
                ELSE ~ WindowFull(InWindow(history))
=============================================================================
