------------------------------- MODULE MCProgress -------------------------------
(***************************************************************************)
(* The components that owe something eventually, side by side: the session *)
(* protocol, the worker's pool, its machine, and the bench's jobs.  They   *)
(* share no modelled state: a behaviour is one of a single component       *)
(* (`which`), and the others stay in an initial state.                     *)
(***************************************************************************)
EXTENDS SessionClaims, WorkerPool, WorkerMachine, BenchJobs

VARIABLE which

Components == {"sessions", "pool", "machine", "bench"}

AnyInit ==
    /\ which \in Components
    /\ Init /\ PoolInit /\ MachineInit
    /\ BenchInit /\ (which = "bench" \/ sort = "terrain")

Keeps(c, v) == IF which = c THEN TRUE ELSE UNCHANGED v

AnyNext ==
    /\ UNCHANGED which
    /\ Keeps("sessions", vars) /\ Keeps("pool", poolVars)
    /\ Keeps("machine", machineVars) /\ Keeps("bench", benchVars)
    /\ \/ which = "sessions" /\ Next
       \/ which = "pool" /\ PoolNext
       \/ which = "machine" /\ MachineNext
       \/ which = "bench" /\ BenchNext

anyVars == <<which, vars, poolVars, machineVars, benchVars>>

runningVars == <<poolVars, machineVars, benchVars>>

\* Threads, event loops, the supervisor and the brokers go on as long as they
\* can.
Progress ==
    \/ which = "pool" /\ PoolProgress /\ UNCHANGED <<machineVars, benchVars>>
    \/ which = "machine" /\ MachineProgress /\ UNCHANGED <<poolVars, benchVars>>
    \/ which = "bench" /\ BenchProgress /\ UNCHANGED <<poolVars, machineVars>>

\* The fairness of SessionClaims, and every machine's worker pings the API
\* again and again.
AnyFairness ==
    /\ WF_runningVars(Progress)
    /\ WF_machineVars(which = "machine" /\ \E u \in Uploads : Ping(u))
    /\ WF_vars(which = "sessions" /\ (ReconcileStarts \/ ReconcileReads \/ ReconcileConcludes))
    /\ WF_vars(which = "sessions" /\ NativeCleared)
    /\ WF_vars(which = "sessions" /\ LeaveCompletes)

AnySpec == AnyInit /\ [][AnyNext]_anyVars /\ AnyFairness

\* Every component's variables have their types, in every reachable state.
ProgressTypeOK == TypeOK /\ PoolTypeOK /\ MachineTypeOK /\ BenchTypeOK

\* Every photo that reached the worker's pool is answered: `process` returns or
\* raises, with the child dying under the jobs, with messages and the queue
\* lost with it, and neither timeouts nor spare memory are needed for that.
PoolAnswersEveryTask == <>(which = "pool" => AllAnswered)
=============================================================================
