------------------------------- MODULE BenchJobs -------------------------------
(***************************************************************************)
(* A job of the enrichment workbench: a terrain render, a reconstruction,  *)
(* a match of a pair, or the import of an archived reconstruction          *)
(* (routers/terrain.py, recon.py and matching.py; the workers in terrain/, *)
(* recon/ and matcher/).  The API inserts a row and then sends a message;  *)
(* a worker that takes the message waits for memory, computes, and reports *)
(* over HTTP, partial results first and one final result; the API writes   *)
(* the files that came with a report and then updates the row.  The broker *)
(* delivers at least once, a report whose sender gave up waiting is still  *)
(* handled, and one that the API could not handle is not noticed by its    *)
(* sender.  One row.  A request that is refused leaves nothing behind.     *)
(***************************************************************************)
EXTENDS Integers, FiniteSets

CONSTANTS
    Attempts,       \* workers
    MaxReports,     \* bound: reports in flight
    MaxEnqueued,    \* bound: enqueues of the row (a reconstruction's name is its key)
    MaxRedelivered  \* bound: deliveries of a message that is being worked on

ASSUME BenchAssumption ==
    /\ MaxReports \in Nat \ {0} /\ MaxEnqueued \in Nat \ {0}
    /\ MaxRedelivered \in Nat
    /\ IsFiniteSet(Attempts)

VARIABLES
    sort,           \* what kind of job
    status,         \* of the row
    asked,          \* times it was enqueued, or imported
    unsent,         \* the row is committed and the message is not sent
    again,          \* redeliveries there were
    queue,          \* messages that wait: the retries each has left
    attempt,        \* what each worker does
    report,         \* reports in flight
    file,           \* the artifact on disk
    shown,          \* the row names the artifact
    lost,           \* history: a message or a final report was lost for good
    overwritten     \* history: the final artifact was opened again, or replaced by a partial

benchVars == <<sort, status, asked, unsent, again, queue, attempt, report, file, shown, lost,
               overwritten>>

Sorts == {"terrain", "recon", "match", "import"}

Finals == {"done", "error"}

\* The actors' max_retries; the reconstruction worker swallows what it cannot post.
Retries == IF sort = "recon" THEN 0 ELSE 1

IdleAttempt == [at |-> "idle", left |-> 0, partials |-> 0]

Reports == [kind : {"progress", "partial"} \cup Finals, at : {"sent", "open", "filed"}]

BenchTypeOK ==
    /\ sort \in Sorts
    /\ status \in {"none", "queued", "rendering"} \cup Finals
    /\ asked \in 0..MaxEnqueued /\ again \in 0..MaxRedelivered
    /\ unsent \in BOOLEAN /\ shown \in BOOLEAN /\ lost \in BOOLEAN /\ overwritten \in BOOLEAN
    /\ queue \in [0..1 -> 0..(MaxEnqueued + MaxRedelivered)]
    /\ attempt \in [Attempts -> [at : {"idle", "gated", "working"} \cup Finals, left : 0..1,
                                 partials : 0..1]]
    /\ report \in [Reports -> 0..MaxReports]
    /\ file \in {"none", "partial", "torn", "final"}

BenchInit ==
    /\ sort \in Sorts
    /\ status = "none" /\ asked = 0 /\ unsent = FALSE /\ again = 0
    /\ queue = [r \in 0..1 |-> 0]
    /\ attempt = [a \in Attempts |-> IdleAttempt]
    /\ report = [r \in Reports |-> 0]
    /\ file = "none" /\ shown = FALSE
    /\ lost = FALSE /\ overwritten = FALSE

RoomToReport == \A r \in Reports : report[r] < MaxReports

PutReport(k) == report' = [report EXCEPT ![[kind |-> k, at |-> "sent"]] = @ + 1]

-----------------------------------------------------------------------------
(* The API: enqueue                                                        *)

RowQueued ==
    /\ ~ unsent /\ unsent' = TRUE
    /\ asked' = asked + 1
    /\ status' = "queued"
    /\ UNCHANGED <<sort, again, queue, attempt, report, file, shown, lost, overwritten>>

\* A render and a match are a new row each time.
EnqueueRender == sort = "terrain" /\ asked = 0 /\ RowQueued
EnqueuePair == sort = "match" /\ asked = 0 /\ RowQueued

\* A reconstruction of the same name is the same row.
EnqueueRun == sort = "recon" /\ asked < MaxEnqueued /\ RowQueued

Enqueue == EnqueueRender \/ EnqueuePair \/ EnqueueRun

Dispatch ==
    /\ unsent /\ unsent' = FALSE
    /\ queue' = [queue EXCEPT ![Retries] = @ + 1]
    /\ UNCHANGED <<sort, status, asked, again, attempt, report, file, shown, lost, overwritten>>

\* The broker refuses the message, or the process dies after the commit.
DispatchFails ==
    /\ unsent /\ unsent' = FALSE
    /\ lost' = TRUE
    /\ UNCHANGED <<sort, status, asked, again, queue, attempt, report, file, shown, overwritten>>

\* An import is no job: the request brings what a final report would, and the
\* row and its artifacts are committed at its end.
Import ==
    /\ sort = "import" /\ asked < MaxEnqueued /\ asked' = asked + 1
    /\ RoomToReport /\ PutReport("done")
    /\ UNCHANGED <<sort, status, unsent, again, queue, attempt, file, shown, lost, overwritten>>

-----------------------------------------------------------------------------
(* A worker                                                                *)

Take(a, left) ==
    /\ attempt[a].at = "idle" /\ queue[left] > 0
    /\ queue' = [queue EXCEPT ![left] = @ - 1]
    /\ attempt' = [attempt EXCEPT ![a] = [at |-> "gated", left |-> left, partials |-> 0]]
    /\ UNCHANGED <<sort, status, asked, unsent, again, report, file, shown, lost, overwritten>>

Proceeds(a, from, to) ==
    /\ attempt[a].at = from
    /\ attempt' = [attempt EXCEPT ![a].at = to]
    /\ UNCHANGED <<sort, status, asked, unsent, again, queue, report, file, shown, lost,
                   overwritten>>

\* ram_gate: there is memory, now or later; or there is none for too long.
GatePasses(a) == Proceeds(a, "gated", "working")
GateGivesUp(a) == Proceeds(a, "gated", "error")

\* Whatever it raises becomes the result.
Computes(a, k) == Proceeds(a, "working", k)

\* post_progress and post_partial; a failure is swallowed.  A reconstruction
\* says that it has begun before it waits, a match says nothing.
Reporting(a, k) ==
    /\ attempt[a].at = "working" \/ (attempt[a].at = "gated" /\ sort = "recon")
    /\ attempt[a].partials = 0 /\ RoomToReport
    /\ sort # "match" /\ (k = "progress" \/ sort = "terrain")
    /\ attempt' = [attempt EXCEPT ![a].partials = 1]
    /\ PutReport(k)
    /\ UNCHANGED <<sort, status, asked, unsent, again, queue, file, shown, lost, overwritten>>

\* The final report gets through, and the message is acknowledged.
Finishes(a) ==
    /\ attempt[a].at \in Finals /\ RoomToReport
    /\ attempt' = [attempt EXCEPT ![a] = IdleAttempt]
    /\ PutReport(attempt[a].at)
    /\ UNCHANGED <<sort, status, asked, unsent, again, queue, file, shown, lost, overwritten>>

RetryLeft(a) == attempt[a].left > 0

\* Faulty variant: a final report that failed is not tried again.
NoRetry(a) == FALSE

Retried(a) == RetryLeft(a)

\* The message comes back with one retry less, or is dropped.
Fails(a) ==
    /\ attempt' = [attempt EXCEPT ![a] = IdleAttempt]
    /\ queue' = IF Retried(a) THEN [queue EXCEPT ![attempt[a].left - 1] = @ + 1] ELSE queue

\* The final post fails, before the API has the report or after.  The terrain
\* and the match worker let that fail the job; the reconstruction worker swallows it.
FinalPostFails(a) ==
    /\ attempt[a].at \in Finals /\ RoomToReport
    /\ Fails(a)
    /\ \/ PutReport(attempt[a].at) /\ UNCHANGED lost
       \/ lost' = (lost \/ ~ RetryLeft(a)) /\ UNCHANGED report
    /\ UNCHANGED <<sort, status, asked, unsent, again, file, shown, overwritten>>

\* The actor's time limit interrupts it, which is no Exception: nothing is reported.
TimeLimitHits(a) ==
    /\ attempt[a].at \in {"gated", "working"}
    /\ Fails(a)
    /\ lost' = (lost \/ ~ RetryLeft(a))
    /\ UNCHANGED <<sort, status, asked, unsent, again, report, file, shown, overwritten>>

\* The broker takes the worker for dead: another one gets the message.
Redelivered(a, b) ==
    /\ again < MaxRedelivered /\ again' = again + 1
    /\ a # b /\ attempt[a].at # "idle" /\ attempt[b].at = "idle"
    /\ attempt' = [attempt EXCEPT ![b] = [at |-> "gated", left |-> attempt[a].left,
                                          partials |-> 0]]
    /\ UNCHANGED <<sort, status, asked, unsent, queue, report, file, shown, lost, overwritten>>

\* It is dead, of the memory it took; the broker keeps the message.
WorkerDies(a) ==
    /\ again < MaxRedelivered /\ again' = again + 1
    /\ attempt[a].at # "idle"
    /\ attempt' = [attempt EXCEPT ![a] = IdleAttempt]
    /\ queue' = [queue EXCEPT ![attempt[a].left] = @ + 1]
    /\ UNCHANGED <<sort, status, asked, unsent, report, file, shown, lost, overwritten>>

-----------------------------------------------------------------------------
(* The API: result                                                         *)

Handled(r) == report[r] > 0

CarriesArtifact(r) == r.kind \in {"partial", "done"}

\* Faulty variant: what comes with the final report is not kept.
CarriesPartial(r) == r.kind = "partial"

WithFiles(r) == CarriesArtifact(r)

\* Renders and runs are replaced as a whole; a match's overlay and what an
\* import copies are written in place.
InPlace == sort \in {"match", "import"}

Becomes(r, at) ==
    /\ Handled(r) /\ report[[r EXCEPT !.at = at]] < MaxReports
    /\ report' = [report EXCEPT ![r] = @ - 1, ![[r EXCEPT !.at = at]] = @ + 1]

Overwrites == overwritten' = (file' # "final" /\ (overwritten \/ file = "final"))

OpensFile(r) ==
    /\ r.at = "sent" /\ WithFiles(r) /\ InPlace
    /\ Becomes(r, "open")
    /\ file' = "torn" /\ Overwrites
    /\ UNCHANGED <<sort, status, asked, unsent, again, queue, attempt, shown, lost>>

\* A failed reconstruction sends what it finds in its directory, from this
\* time or an earlier one, whole or not.
Leaves(r) == IF sort = "recon" /\ r.kind = "error" THEN {file, "torn", "final"} ELSE {file}

\* The files are on disk before the row is looked at.
WriteFiles(r) ==
    /\ r.at = IF WithFiles(r) /\ InPlace THEN "open" ELSE "sent"
    /\ Becomes(r, "filed")
    /\ file' \in IF WithFiles(r) THEN {IF r.kind = "done" THEN "final" ELSE "partial"}
                 ELSE Leaves(r)
    /\ Overwrites
    /\ UNCHANGED <<sort, status, asked, unsent, again, queue, attempt, shown, lost>>

Unfinished == status \notin Finals

\* Faulty variant: any progress report updates the row.
AnyStatus == TRUE

ProgressApplies == Unfinished

UpdateProgress(r) ==
    /\ Handled(r) /\ r.at = "filed" /\ r.kind \notin Finals
    /\ report' = [report EXCEPT ![r] = @ - 1]
    /\ \/ /\ ProgressApplies
          /\ status' = "rendering"
          /\ shown' = (shown \/ r.kind = "partial")
       \/ ~ ProgressApplies /\ UNCHANGED <<status, shown>>
    /\ UNCHANGED <<sort, asked, unsent, again, queue, attempt, file, lost, overwritten>>

\* The row of a render or a match forgets the artifacts that an error comes
\* without; that of a reconstruction keeps them, or has those that it came with.
Shows(r) ==
    CASE r.kind = "done" -> {TRUE}
      [] r.kind # "done" /\ sort \in {"terrain", "match"} -> {FALSE}
      [] OTHER -> {shown, shown \/ file # "none"}

UpdateFinal(r) ==
    /\ Handled(r) /\ r.at = "filed" /\ r.kind \in Finals
    /\ report' = [report EXCEPT ![r] = @ - 1]
    /\ status' = r.kind
    /\ shown' \in Shows(r)
    /\ UNCHANGED <<sort, asked, unsent, again, queue, attempt, file, lost, overwritten>>

\* The API dies with a report, or the connection or the database does.  No
\* worker looks at the answer it gets.
ReportLost(r) ==
    /\ Handled(r)
    /\ report' = [report EXCEPT ![r] = @ - 1]
    /\ lost' = (lost \/ r.kind \in Finals)
    /\ UNCHANGED <<sort, status, asked, unsent, again, queue, attempt, file, shown, overwritten>>

BenchProgress ==
    \/ Dispatch
    \/ \E a \in Attempts : \/ \E left \in 0..1 : Take(a, left)
                           \/ GateGivesUp(a) \/ \E k \in Finals : Computes(a, k)
                           \/ Finishes(a) \/ FinalPostFails(a)
    \/ \E r \in Reports : OpensFile(r) \/ WriteFiles(r) \/ UpdateProgress(r) \/ UpdateFinal(r)

BenchNext ==
    \/ BenchProgress \/ Enqueue \/ DispatchFails \/ Import
    \/ \E a, b \in Attempts : Redelivered(a, b)
    \/ \E a \in Attempts : \/ GatePasses(a) \/ TimeLimitHits(a) \/ WorkerDies(a)
                           \/ \E k \in {"progress", "partial"} : Reporting(a, k)
    \/ \E r \in Reports : ReportLost(r)

BenchSpec == BenchInit /\ [][BenchNext]_benchVars /\ WF_benchVars(BenchProgress)

-----------------------------------------------------------------------------
(* Properties                                                              *)

\* A finished job is finished, whatever reports arrive late, twice or out of
\* order and from however many workers: only a new enqueue opens it again.
FinishedStays ==
    [][(status \in Finals) => (status' \in Finals \/ asked' > asked)]_benchVars

\* A row that says done names an artifact on disk, and a final one, unless a
\* late partial has overwritten it or it is being written again.
DoneHasArtifact ==
    status = "done" => shown /\ (file = "final" \/ overwritten)

\* A job whose message and final report are not lost for good ends.
EveryJobEnds == []<>(status \notin {"queued", "rendering"} \/ lost)
=============================================================================
