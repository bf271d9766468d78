----------------------------- MODULE UploadWorker -----------------------------
(***************************************************************************)
(* The processing worker as the upload protocol sees it: /upload_async     *)
(* accepts a body and answers at once; a background task then processes it *)
(* and reports the result to the API, trying a bounded number of times.    *)
(* Slots, admission and the subprocess pool are the worker's own affair:   *)
(* here a task simply takes as long as it takes, and may die at any point. *)
(***************************************************************************)
EXTENDS PhotoApi

CONSTANTS
    MaxTasks,        \* MAX_PENDING_TASKS
    NotifyAttempts   \* max_retries of the report to the API

ASSUME WorkerAssumption == MaxTasks \in Nat \ {0} /\ NotifyAttempts \in Nat \ {0}

VARIABLE tasks       \* accepted uploads whose task has not ended

\* "work": queued or being processed; "notify": has a result to send;
\* "posting": the API is handling the report.
Task == [ grant   : Grant,
          phase   : {"work", "notify", "posting"},
          outcome : {"none", "completed", "error"},
          tries   : 0 .. NotifyAttempts ]

WorkerTypeOK == tasks \subseteq Task

WorkerInit == tasks = {}

QueueFull == Cardinality(tasks) >= MaxTasks

\* upload_async: register the task, answer "accepted".
AcceptTask(g) ==
    /\ ~ QueueFull
    /\ tasks' = tasks \cup {[grant |-> g, phase |-> "work", outcome |-> "none", tries |-> 0]}

Replace(t, u) == tasks' = (tasks \ {t}) \cup {u}

EndTask(t) == tasks' = tasks \ {t}

\* process() returned: every exception but a deletion became an "error" result.
FinishProcessing(t, outcome) ==
    /\ t \in tasks /\ t.phase = "work"
    /\ outcome \in {"completed", "error"}
    /\ Replace(t, [t EXCEPT !.phase = "notify", !.outcome = outcome])

\* The upload of a derivative was answered 410: nothing is reported.
AbandonDeleted(t) ==
    /\ t \in tasks /\ t.phase = "work"
    /\ rows[t.grant.id].status # "absent"
    /\ rows[t.grant.id].deleted
    /\ EndTask(t)

\* Faulty variant: a report the API refuses is sent again and again.
ReportRejectedRetries(t) ==
    /\ t \in tasks /\ t.phase = "notify"
    /\ ~ Accepts(t.grant)
    /\ Replace(t, [t EXCEPT !.tries = 0])

\* The API answers at once with 404, 410, 403 or the idempotent 200: whichever
\* it is, the task is over.
ReportRejected(t) ==
    /\ t \in tasks /\ t.phase = "notify"
    /\ ~ Accepts(t.grant)
    /\ EndTask(t)

\* The API's checks pass and the task waits for the answer.
ReportAccepted(t) ==
    /\ t \in tasks /\ t.phase = "notify"
    /\ ProcessedRead(t.grant, t.outcome)
    /\ Replace(t, [t EXCEPT !.phase = "posting"])

\* No answer, or a 5xx: try again, or give up after the last attempt.
ReportFailed(t) ==
    /\ t \in tasks /\ t.phase \in {"notify", "posting"}
    /\ IF t.tries + 1 < NotifyAttempts
       THEN Replace(t, [t EXCEPT !.phase = "notify", !.tries = @ + 1])
       ELSE EndTask(t)

\* The tasks waiting for the answer to post p.
Waiting(p) == {t \in tasks : t.phase = "posting" /\ t.grant = p.grant /\ t.outcome = p.outcome}

\* The machine or the process goes away and its tasks with it.
CrashTask(t) == t \in tasks /\ EndTask(t)
=============================================================================
