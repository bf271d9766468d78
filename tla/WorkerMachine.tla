---------------------------- MODULE WorkerMachine ----------------------------
(***************************************************************************)
(* A worker machine seen from outside: the middleware that refuses uploads *)
(* while the queue is full, the exit of a machine that finds itself bored, *)
(* the watchdog, and the pingback threads of the API that keep a machine   *)
(* with work from being stopped.  What happens to a task between its       *)
(* acceptance and its end is WorkerPool.                                   *)
(***************************************************************************)
EXTENDS Integers, FiniteSets

CONSTANTS
    Uploads,
    MaxPending,   \* MAX_PENDING_TASKS
    Pingbacks,    \* _PINGBACKS_PER_WORKER
    MaxFreezes    \* bound: event loops that stop

ASSUME MachineAssumption ==
    /\ IsFiniteSet(Uploads)
    /\ MaxPending \in Nat \ {0} /\ Pingbacks \in Nat \ {0} /\ MaxFreezes \in Nat

VARIABLES
    machine,    \* up, signalled (SIGTERM to itself), closing, stopped, frozen
    upload,     \* out (the client will try again), body, accepted, done, lost
    quiet,      \* no request for BORED_SHUTDOWN_SECONDS
    late,       \* uploads that came after the signal
    launched,   \* pingback threads that have not counted themselves yet, by task
    pingbacks,     \* those that have
    freezes

machineVars == <<machine, upload, quiet, late, launched, pingbacks, freezes>>

MachineTypeOK ==
    /\ machine \in {"up", "signalled", "closing", "stopped", "frozen"}
    /\ upload \in [Uploads -> {"out", "body", "accepted", "done", "lost"}]
    /\ quiet \in BOOLEAN
    /\ late \subseteq Uploads
    /\ launched \in [Uploads -> 0..Pingbacks]
    /\ pingbacks \in [Uploads -> 0..Pingbacks]
    /\ freezes \in 0..MaxFreezes

MachineInit ==
    /\ machine = "stopped"
    /\ upload = [u \in Uploads |-> "out"]
    /\ quiet = FALSE /\ late = {} /\ freezes = 0
    /\ launched = [u \in Uploads |-> 0] /\ pingbacks = [u \in Uploads |-> 0]

Tasks == {u \in Uploads : upload[u] = "accepted"}   \* pending_background_tasks

InFlight == {u \in Uploads : upload[u] = "body"}    \* _inflight_requests

Serving == machine \in {"up", "signalled"}

apiVars == <<launched, pingbacks>>

-----------------------------------------------------------------------------
(* Uploads                                                                 *)

\* A request wakes a stopped machine; the limit is checked before the body.
UploadArrives(u) ==
    /\ upload[u] = "out"
    /\ machine \in {"up", "signalled", "stopped"}
    /\ Cardinality(Tasks) < MaxPending
    /\ machine' = IF machine = "stopped" THEN "up" ELSE machine
    /\ upload' = [upload EXCEPT ![u] = "body"]
    /\ quiet' = FALSE
    /\ late' = IF machine = "signalled" THEN late \cup {u} ELSE late
    /\ UNCHANGED <<apiVars, freezes>>

\* upload_async
BodyReceived(u) ==
    /\ Serving \/ machine = "closing"
    /\ upload[u] = "body"
    /\ upload' = [upload EXCEPT ![u] = "accepted"]
    /\ UNCHANGED <<machine, quiet, late, apiVars, freezes>>

TaskEnds(u) ==
    /\ Serving \/ machine = "closing"
    /\ upload[u] = "accepted"
    /\ upload' = [upload EXCEPT ![u] = "done"]
    /\ UNCHANGED <<machine, quiet, late, apiVars, freezes>>

-----------------------------------------------------------------------------
(* Bored shutdown and the watchdog                                         *)

GoesQuiet ==
    /\ machine = "up" /\ ~ quiet
    /\ quiet' = TRUE
    /\ UNCHANGED <<machine, upload, late, apiVars, freezes>>

\* Faulty variant: a request that is being received does not count.
BoredInFlight == Tasks = {} /\ quiet

Bored == Tasks = {} /\ InFlight = {} /\ quiet

BoredExits ==
    /\ machine = "up"
    /\ Bored
    /\ machine' = "signalled"
    /\ UNCHANGED <<upload, quiet, late, apiVars, freezes>>

Closes ==
    /\ machine = "signalled"
    /\ machine' = "closing"
    /\ UNCHANGED <<upload, quiet, late, apiVars, freezes>>

\* What a machine that goes down leaves behind: a client that was sending
\* tries again, one that was answered waits in vain.
Down == [u \in Uploads |-> CASE upload[u] = "body" -> "out"
                             [] upload[u] = "accepted" -> "lost"
                             [] OTHER -> upload[u]]

\* The server has finished what it had, or was not given the time to.
Stops ==
    /\ machine = "closing"
    /\ machine' = "stopped"
    /\ upload' = Down
    /\ late' = {}
    /\ UNCHANGED <<quiet, apiVars, freezes>>

Freezes ==
    /\ freezes < MaxFreezes
    /\ machine = "up"
    /\ machine' = "frozen"
    /\ freezes' = freezes + 1
    /\ UNCHANGED <<upload, quiet, late, apiVars>>

\* os._exit(1); the machine is restarted.
WatchdogBites ==
    /\ machine = "frozen"
    /\ machine' = "up"
    /\ upload' = Down
    /\ quiet' = FALSE
    /\ UNCHANGED <<late, apiVars, freezes>>

-----------------------------------------------------------------------------
(* The API's pingback threads                                              *)

Count(threads) == Cardinality({t \in Uploads \X (1..Pingbacks) : t[2] <= threads[t[1]]})

\* The ping names any one of the pending tasks.  Timing assumption: the
\* threads of one ping have counted themselves before the next, 10 s later.
Ping(u) ==
    /\ Serving
    /\ upload[u] = "accepted"
    /\ Count(launched) = 0
    /\ Count(pingbacks) < Pingbacks
    /\ launched' = [launched EXCEPT ![u] = Pingbacks - Count(pingbacks)]
    /\ UNCHANGED <<machine, upload, quiet, late, pingbacks, freezes>>

\* Faulty variant: the thread does not count itself.
ThreadStartsUncounted(u) ==
    /\ launched[u] > 0
    /\ launched' = [launched EXCEPT ![u] = @ - 1]
    /\ UNCHANGED <<machine, upload, quiet, late, pingbacks, freezes>>

ThreadStarts(u) ==
    /\ launched[u] > 0
    /\ launched' = [launched EXCEPT ![u] = @ - 1]
    /\ pingbacks' = [pingbacks EXCEPT ![u] = @ + 1]
    /\ UNCHANGED <<machine, upload, quiet, late, freezes>>

\* /await says that the task is no longer pending ...
ThreadEnds(u) ==
    /\ pingbacks[u] > 0
    /\ upload[u] # "accepted"
    /\ pingbacks' = [pingbacks EXCEPT ![u] = @ - 1]
    /\ UNCHANGED <<machine, upload, quiet, late, launched, freezes>>

\* ... or fails _PINGBACK_MAX_STRIKES times.
ThreadGivesUp(u) ==
    /\ pingbacks[u] > 0
    /\ pingbacks' = [pingbacks EXCEPT ![u] = @ - 1]
    /\ UNCHANGED <<machine, upload, quiet, late, launched, freezes>>

-----------------------------------------------------------------------------
MachineProgress ==
    \/ \E u \in Uploads : \/ BodyReceived(u) \/ TaskEnds(u)
                          \/ ThreadStarts(u) \/ ThreadEnds(u)
    \/ Closes \/ Stops \/ WatchdogBites

MachineNext ==
    \/ MachineProgress
    \/ \E u \in Uploads : UploadArrives(u) \/ Ping(u) \/ ThreadGivesUp(u)
    \/ GoesQuiet \/ BoredExits \/ Freezes

MachineSpec == MachineInit /\ [][MachineNext]_machineVars

\* A machine that exits because it is bored takes down no upload it had begun
\* to receive before: only one that came in after the signal, or a frozen
\* machine, leaves a client waiting for an accepted photo.
BoredExitSparesWork == machine = "closing" => Tasks \cup InFlight \subseteq late

\* As long as tasks are pending, the API holds, again and again, a connection
\* to their machine, whatever task the earlier pingbacks were watching and
\* however often they gave up.
WorkKeepsMachineAwake == []<>(Tasks = {} \/ Count(pingbacks) > 0)
=============================================================================
