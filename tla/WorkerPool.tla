------------------------------ MODULE WorkerPool ------------------------------
(***************************************************************************)
(* How a worker machine runs accepted photos: a task waits for one of      *)
(* Threads slots (process), passes the admission gate (wait_admission) and *)
(* is submitted to a child process of Threads puller threads               *)
(* (worker_processing).  Four actors share the tables: the event loop, the *)
(* child, the drainer of the result queue, and the supervisor that         *)
(* notices a dead child, fails what it held and starts another on fresh    *)
(* queues.  The pool has one child, the production shape.                  *)
(***************************************************************************)
EXTENDS Integers, Sequences, FiniteSets

CONSTANTS
    Jobs,           \* photos that reach `process`
    Threads,        \* PARALLEL_PROCESSING_CONCURRENCY
    RecoveryJobs,   \* OOM_SERIAL_RECOVERY_JOBS
    MaxFaults       \* bound: deaths of the child and timeouts of jobs

ASSUME PoolAssumption ==
    /\ IsFiniteSet(Jobs)
    /\ Threads \in Nat \ {0} /\ RecoveryJobs \in Nat \ {0} /\ MaxFaults \in Nat

VARIABLES
    job,        \* the event loop: where the task is
    posted,     \* outcomes on their way to the loop (call_soon_threadsafe)
    jobQueue,   \* _job_queue
    results,    \* _result_queue
    inflight,   \* _inflight of the child
    running,    \* what the child's threads run
    child,      \* warming, up, dead (by our SIGTERM or not), popped: see Supervisor
    doomed,     \* what the supervisor took out of _inflight
    poisoned,   \* a dead puller held the lock of the job queue
    serial,     \* _serial_remaining
    faults

poolVars == <<job, posted, jobQueue, results, inflight, running, child, doomed,
              poisoned, serial, faults>>

PoolTypeOK ==
    /\ job \in [Jobs -> {"queued", "gate", "submitted", "done"}]
    /\ posted \in [Jobs -> {"none", "ok", "error", "died"}]
    /\ jobQueue \subseteq Jobs /\ inflight \subseteq Jobs /\ doomed \subseteq Jobs
    /\ \A i \in DOMAIN results : results[i] \in Jobs \X {"picked", "ok", "error"}
    /\ running \subseteq Jobs /\ Cardinality(running) <= Threads
    /\ child \in {"warming", "up", "terminated", "killed", "popped"}
    /\ poisoned \in BOOLEAN
    /\ serial \in 0..RecoveryJobs
    /\ faults \in 0..MaxFaults

PoolInit ==
    /\ job = [j \in Jobs |-> "queued"]
    /\ posted = [j \in Jobs |-> "none"]
    /\ jobQueue = {} /\ results = <<>> /\ inflight = {}
    /\ running = {}
    /\ child = "warming" /\ doomed = {} /\ poisoned = FALSE
    /\ serial = 0 /\ faults = 0

At(place) == {j \in Jobs : job[j] = place}

Pending == At("submitted")                      \* _pending

-----------------------------------------------------------------------------
(* The event loop                                                          *)

elsewhere == <<inflight, results, running, child, doomed, poisoned, serial>>

End(j) == job' = [job EXCEPT ![j] = "done"]

TakeSlot(j) ==
    /\ job[j] = "queued"
    /\ Cardinality(At("gate") \cup Pending) < Threads
    /\ job' = [job EXCEPT ![j] = "gate"]
    /\ UNCHANGED <<posted, jobQueue, elsewhere, faults>>

SerialHolds == serial > 0 /\ Pending # {}

\* The gate lets one task pass and, in the same step of the loop, submit
\* registers it and puts it on the queue.
Submit(j) ==
    /\ job[j] = "gate"
    /\ ~ SerialHolds
    /\ job' = [job EXCEPT ![j] = "submitted"]
    /\ jobQueue' = jobQueue \cup {j}
    /\ UNCHANGED <<posted, elsewhere, faults>>

\* With RAM short a task passes only while nothing is pending.
SubmitForced(j) == Pending = {} /\ Submit(j)

SubmitWithRam(j) == Pending # {} /\ Submit(j)

\* QUEUE_WAIT_TIMEOUT_SECONDS, for the slot or in the gate.
WaitTimesOut(j) ==
    /\ job[j] \in {"queued", "gate"}
    /\ End(j)
    /\ UNCHANGED <<posted, jobQueue, elsewhere, faults>>

\* The loop runs what a thread has posted; the first outcome counts.
AnswerJob(j) ==
    /\ job[j] = "submitted"
    /\ posted[j] # "none"
    /\ End(j)
    /\ UNCHANGED <<posted, jobQueue, elsewhere, faults>>

Alive == child \in {"warming", "up"}

\* A child takes its threads with it, and the last of what it had put on the
\* result queue; a thread that waited for a job leaves the job queue locked.
ChildDies(how) ==
    /\ Alive
    /\ child' = how
    /\ \E n \in 0..Len(results) : results' = SubSeq(results, 1, n)
    /\ poisoned' \in {FALSE, child = "up" /\ Cardinality(running) < Threads}
    /\ running' = {}

\* PROCESSING_TIMEOUT_SECONDS: the child is terminated if the job is known to
\* be in it; a job nobody has announced is only given up.
TimesOut(j) ==
    /\ faults < MaxFaults /\ faults' = faults + 1
    /\ job[j] = "submitted"
    /\ posted[j] = "none"
    /\ End(j)
    /\ inflight' = inflight \ {j}
    /\ IF j \in inflight /\ Alive
         THEN ChildDies("terminated")
         ELSE UNCHANGED <<child, results, poisoned, running>>
    /\ UNCHANGED <<posted, jobQueue, doomed, serial>>

-----------------------------------------------------------------------------
(* The child                                                               *)

parentVars == <<job, posted, inflight, doomed, serial>>

WarmUp ==
    /\ child = "warming"
    /\ child' = "up"
    /\ UNCHANGED <<parentVars, jobQueue, results, running, poisoned, faults>>

Pull(j) ==
    /\ child = "up" /\ ~ poisoned
    /\ Cardinality(running) < Threads
    /\ j \in jobQueue
    /\ jobQueue' = jobQueue \ {j}
    /\ running' = running \cup {j}
    /\ results' = Append(results, <<j, "picked">>)
    /\ UNCHANGED <<parentVars, child, poisoned, faults>>

Finish(j, outcome) ==
    /\ j \in running
    /\ results' = Append(results, <<j, outcome>>)
    /\ running' = running \ {j}
    /\ UNCHANGED <<parentVars, jobQueue, child, poisoned, faults>>

\* Out of memory, or a crash.
Killed ==
    /\ faults < MaxFaults /\ faults' = faults + 1
    /\ ChildDies("killed")
    /\ UNCHANGED <<parentVars, jobQueue>>

-----------------------------------------------------------------------------
(* The drainer and the supervisor                                          *)

Post(S, outcome) ==
    posted' = [j \in Jobs |-> IF j \in S \cap Pending /\ posted[j] = "none"
                              THEN outcome ELSE posted[j]]

Drain ==
    /\ results # <<>>
    /\ results' = Tail(results)
    /\ LET j == Head(results)[1]  outcome == Head(results)[2] IN
       IF outcome = "picked"
         THEN /\ inflight' = inflight \cup {j}
              /\ UNCHANGED <<posted, serial>>
         ELSE /\ inflight' = inflight \ {j}
              /\ Post({j}, outcome)
              /\ serial' = IF outcome = "ok" /\ j \in Pending /\ serial > 0
                           THEN serial - 1 ELSE serial
    /\ UNCHANGED <<job, jobQueue, running, child, doomed, poisoned, faults>>

\* Timing assumption: between two rounds of the supervisor, a second apart at
\* least, the loop has run what the earlier round posted.
LoopKeepsUp == \A j \in Pending : posted[j] # "died"

\* What the dead child held is failed; an unplanned death starts serial mode.
FailInflight ==
    /\ LoopKeepsUp
    /\ child \in {"terminated", "killed"}
    /\ doomed' = inflight
    /\ inflight' = {}
    /\ Post(inflight, "died")
    /\ serial' = IF child = "killed" THEN RecoveryJobs ELSE serial
    /\ child' = "popped"
    /\ UNCHANGED <<job, jobQueue, results, running, poisoned, faults>>

\* Faulty variants: what was just failed is queued again, since its future is
\* not done yet; nothing is queued again.
RequeueAll == Pending

RequeueNone == {}

Requeue == Pending \ doomed

\* Fresh queues with the jobs nobody has answered, and another child.  The
\* drainer may be at the old result queue and take one more message from it.
RebuildAndSpawn ==
    /\ child = "popped"
    /\ jobQueue' = Requeue
    /\ results' \in {<<>>} \cup {<<results[i]>> : i \in DOMAIN results \cap {1}}
    /\ child' = "warming" /\ doomed' = {} /\ poisoned' = FALSE
    /\ UNCHANGED <<job, posted, inflight, running, serial, faults>>

\* What happens if the machine has no memory to spare, nothing breaks and no
\* timeout expires.
PoolProgress ==
    \/ \E j \in Jobs : \/ TakeSlot(j) \/ SubmitForced(j) \/ AnswerJob(j)
                       \/ Pull(j)
                       \/ \E outcome \in {"ok", "error"} : Finish(j, outcome)
    \/ WarmUp
    \/ Drain
    \/ FailInflight
    \/ RebuildAndSpawn

AllAnswered == \A j \in Jobs : job[j] = "done"

PoolNext ==
    \/ PoolProgress
    \/ \E j \in Jobs : SubmitWithRam(j) \/ WaitTimesOut(j) \/ TimesOut(j)
    \/ Killed

PoolSpec == PoolInit /\ [][PoolNext]_poolVars

-----------------------------------------------------------------------------
\* A job is never in two places of the child at once, and one that was failed
\* with the child that held it does not run again behind the client's back.
RunsOnce ==
    /\ running \cap jobQueue = {}
    /\ \A j \in Jobs : posted[j] = "died" /\ child # "popped" => j \notin running \cup jobQueue
=============================================================================
