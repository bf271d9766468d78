---------------------------- MODULE UploadProtocol ----------------------------
(***************************************************************************)
(* Clients, API and worker together.  A request and its answer are joined  *)
(* to the handler's own step where nothing can tell the difference: the    *)
(* server acts when the request is handled, and what happens between its   *)
(* commit and the arrival of the answer can as well happen after it.  The  *)
(* loss of an answer, and the death of either side, are steps of their own.*)
(*                                                                         *)
(* Everything that goes wrong, and everything a user does that undoes an   *)
(* upload, is a disturbance: a run has at most MaxDisturbances of them.    *)
(***************************************************************************)
EXTENDS UploadClient, UploadWorker

CONSTANTS
    Retriers,         \* the clients whose user presses the retry button
    MaxDisturbances

ASSUME ProtocolAssumption == MaxDisturbances \in Nat

VARIABLE disturbances

vars == <<rows, keys, second, authTx, postTx, orphans, best, removed,
          local, edits, drain, sync, page, tasks, disturbances>>

TypeOK ==
    /\ ApiTypeOK
    /\ ClientTypeOK
    /\ WorkerTypeOK
    /\ disturbances \in 0 .. MaxDisturbances

Init ==
    /\ ApiInit
    /\ ClientInit
    /\ WorkerInit
    /\ disturbances = 0

Calm == UNCHANGED disturbances

Disturb ==
    /\ disturbances < MaxDisturbances
    /\ disturbances' = disturbances + 1

-----------------------------------------------------------------------------
(* Steps of the client's tables alone                                      *)

ClientOnly == UNCHANGED <<apiVars, tasks>>

UserCaptures(c, f) == Capture(c, f) /\ ClientOnly /\ Calm

UserEdits(c, f) == CreateEdit(c, f) /\ ClientOnly /\ Calm

\* Outstanding work of client c for file f: a request, an upload, a report.
Outstanding(c, f) ==
    \/ drain[c].file = f
    \/ \E tx \in authTx : tx.client = c /\ tx.file = f
    \/ \E t \in tasks : t.grant.key = c /\ t.grant.file = f
    \/ \E p \in postTx : p.grant.key = c /\ p.grant.file = f

\* Time passes.  While work is outstanding, only an unusually slow step lets
\* a photo turn stale.
TimePasses(c, f) ==
    /\ Age(c, f) /\ ClientOnly
    /\ IF local[c][f].status = "processing" /\ Outstanding(c, f) THEN Disturb ELSE Calm

\* A run started by the retry button ("manual") ignores backoffs.
DrainStarts(c) ==
    /\ \E manual \in BOOLEAN : (manual => c \in Retriers) /\ StartDrain(c, manual)
    /\ ClientOnly /\ Calm

DrainSkips(c) == \E f \in Files : SkipBackoff(c, f) /\ ClientOnly /\ Calm

DrainRejects(c) == \E f \in Files : RejectInvalid(c, f) /\ ClientOnly /\ Disturb

DrainTakes(c) == \E f \in Files : TakePhoto(c, f) /\ ClientOnly /\ Calm

DrainEnds(c) == NoMorePhotos(c) /\ ClientOnly /\ Calm

DrainStops(c) == StopDrain(c) /\ ClientOnly /\ Disturb

DrainCancelled(c) == CancelDrain(c) /\ ClientOnly /\ Disturb

ClientDies(c) ==
    /\ drain[c].pc # "idle" \/ sync[c].pc # "idle" \/ page[c] # NoPage
    /\ KillClient(c) /\ ClientOnly /\ Disturb

UploadBeats(c) == Heartbeat(c) /\ ClientOnly /\ Calm

-----------------------------------------------------------------------------
(* authorize-upload                                                        *)

ApiIdle == UNCHANGED apiVars

RequestOf(c, found) ==
    [client |-> c, file |-> drain[c].file, version |-> InHand(c).version,
     found |-> found, at |-> second]

\* The API answers "duplicate".
AuthorizeDuplicate(c) ==
    /\ drain[c].pc = "authorize"
    /\ \E found \in Lookup(drain[c].file) :
          IsDuplicate(found, InHand(c).version)
    /\ DuplicatePhoto(c)
    /\ UNCHANGED tasks /\ ApiIdle /\ Calm

\* 409 client_key_not_registered: the client registers its key and asks again.
AuthorizeHeals(c) ==
    /\ drain[c].pc = "authorize"
    /\ c \notin keys
    /\ \E found \in Lookup(drain[c].file) :
          ~ IsDuplicate(found, InHand(c).version)
    /\ RegisterKey(c)
    /\ UNCHANGED <<clientVars, tasks>> /\ Calm

AuthorizeStarts(c) ==
    /\ drain[c].pc = "authorize"
    /\ \E found \in Lookup(drain[c].file) :
          LET tx == RequestOf(c, found) IN
          /\ AuthorizeRead(tx)
          /\ SetDrain(c, [drain[c] EXCEPT !.pc = "authorizing", !.asked = tx])
    /\ UNCHANGED <<local, edits, sync, page, tasks>> /\ Calm

\* Client c waits for the answer to tx.
Awaits(c, tx) == drain[c].pc = "authorizing" /\ drain[c].asked = tx

\* Commit, and the client gets its grant.
AuthorizeGranted(c) ==
    /\ \E tx \in authTx :
          /\ Awaits(c, tx)
          /\ \E i \in TargetIds(tx) :
                AuthorizeCommit(tx, i) /\ Authorized(c, GrantOf(tx, i))
    /\ UNCHANGED tasks /\ Calm

\* Commit, but the answer is lost, or nobody waits for it any more.
AuthorizeUnheard(tx) ==
    /\ \E i \in TargetIds(tx) : AuthorizeCommit(tx, i)
    /\ IF \E c \in Clients : Awaits(c, tx)
       THEN FailPhoto(tx.client) /\ Disturb
       ELSE UNCHANGED clientVars /\ Calm
    /\ UNCHANGED tasks

\* The transaction is rolled back (500).
AuthorizeFails(tx) ==
    /\ AuthorizeRollback(tx) /\ Disturb
    /\ IF \E c \in Clients : Awaits(c, tx)
       THEN FailPhoto(tx.client)
       ELSE UNCHANGED clientVars
    /\ UNCHANGED tasks

\* The request, or the key's registration, never reaches the API.
AuthorizeUnsent(c) ==
    /\ drain[c].pc = "authorize"
    /\ FailPhoto(c)
    /\ UNCHANGED tasks /\ ApiIdle /\ Disturb

-----------------------------------------------------------------------------
(* Upload to the worker                                                    *)

\* 503 from /ready or /upload_async: the queue is full, or taken by others.
UploadBusy(c) ==
    /\ WorkerBusy(c)
    /\ IF QueueFull THEN Calm ELSE Disturb
    /\ UNCHANGED tasks /\ ApiIdle

\* The body arrives and the task exists before the answer does.
UploadArrives(c) ==
    /\ drain[c].pc = "upload"
    /\ AcceptTask(drain[c].grant)
    /\ SetDrain(c, [drain[c] EXCEPT !.pc = "sent"])
    /\ UNCHANGED <<local, edits, sync, page>> /\ ApiIdle /\ Calm

UploadAnswered(c) == UploadAccepted(c) /\ UNCHANGED tasks /\ ApiIdle /\ Calm

\* No signature, no bytes, no connection (nothing arrived), or no answer.
UploadFails(c) ==
    /\ drain[c].pc \in {"upload", "sent"}
    /\ FailPhoto(c)
    /\ UNCHANGED tasks /\ ApiIdle /\ Disturb

-----------------------------------------------------------------------------
(* The worker and its report                                               *)

WorkerOnly == UNCHANGED clientVars

TaskCompletes(t) == FinishProcessing(t, "completed") /\ WorkerOnly /\ ApiIdle /\ Calm

TaskErrs(t) == FinishProcessing(t, "error") /\ WorkerOnly /\ ApiIdle /\ Disturb

TaskFindsDeleted(t) == AbandonDeleted(t) /\ WorkerOnly /\ ApiIdle /\ Calm

TaskDies(t) == CrashTask(t) /\ WorkerOnly /\ ApiIdle /\ Disturb

TaskReports(t) == ReportAccepted(t) /\ WorkerOnly /\ Calm

TaskRejected(t) == ReportRejected(t) /\ WorkerOnly /\ ApiIdle /\ Calm

\* The report does not reach the API, or the worker stops waiting for it.
ReportLost(t) == ReportFailed(t) /\ WorkerOnly /\ ApiIdle /\ Disturb

\* A 5xx or no answer for a post that is over.
ReportRetried(t) ==
    /\ t.phase = "posting"
    /\ ~ \E p \in postTx : t \in Waiting(p)
    /\ ReportFailed(t) /\ WorkerOnly /\ ApiIdle /\ Calm

PostSaved(p) ==
    /\ ProcessedCommit(p)
    /\ tasks' = tasks \ Waiting(p)
    /\ WorkerOnly /\ Calm

PostSavedUnheard(p) ==
    /\ ProcessedCommit(p)
    /\ UNCHANGED tasks /\ WorkerOnly /\ Disturb

PostAborted(p) ==
    /\ ProcessedAbort(p)
    /\ UNCHANGED tasks /\ WorkerOnly
    /\ IF rows[p.grant.id].status = "absent" THEN Calm ELSE Disturb

-----------------------------------------------------------------------------
(* The other requests                                                      *)

SyncReads(c) == ReadProcessing(c) /\ ClientOnly /\ Calm

\* POST /photos/status
SyncAnswered(c) ==
    /\ sync[c].pc = "asking"
    /\ SetSync(c, [sync[c] EXCEPT !.pc = "answered",
          !.answer = [f \in Files |-> IF sync[c].asked[f] = None THEN "none"
                                      ELSE StatusOf(sync[c].asked[f])]])
    /\ UNCHANGED <<local, edits, drain, page>> /\ ClientOnly /\ Calm

SyncApplies(c) == ApplyStatuses(c) /\ ClientOnly /\ Calm

SyncLost(c) == SyncFails(c) /\ ClientOnly /\ Disturb

\* The page lists the live rows, with their statuses.
PageFetches(c) ==
    /\ c \in PageClients
    /\ page' = [page EXCEPT ![c] =
          [i \in Ids |-> IF StatusOf(i) = "deleted" THEN "none" ELSE StatusOf(i)]]
    /\ UNCHANGED <<local, edits, drain, sync>> /\ ClientOnly /\ Calm

PageApplies(c) == ApplyPage(c) /\ ClientOnly /\ Calm

UserDeletes(i) == DeletePhoto(i) /\ UNCHANGED <<clientVars, tasks>> /\ Disturb

CleanupStarts == CleanupRead /\ UNCHANGED <<clientVars, tasks>> /\ Disturb

CleanupEnds == CleanupCommit /\ UNCHANGED <<clientVars, tasks>> /\ Calm

ClockTicks == Tick /\ UNCHANGED <<clientVars, tasks>> /\ Calm

-----------------------------------------------------------------------------

DrainStep(c) ==
    \/ DrainStarts(c) \/ DrainSkips(c) \/ DrainRejects(c) \/ DrainTakes(c)
    \/ DrainEnds(c) \/ DrainStops(c) \/ DrainCancelled(c)
    \/ AuthorizeDuplicate(c) \/ AuthorizeHeals(c) \/ AuthorizeStarts(c)
    \/ AuthorizeGranted(c) \/ AuthorizeUnsent(c)
    \/ UploadBusy(c) \/ UploadArrives(c) \/ UploadAnswered(c) \/ UploadFails(c)
    \/ UploadBeats(c)

SyncStep(c) ==
    \/ SyncReads(c) \/ SyncAnswered(c) \/ SyncApplies(c) \/ SyncLost(c)
    \/ PageFetches(c) \/ PageApplies(c)

UserStep(c) ==
    \/ ClientDies(c)
    \/ \E f \in Files : UserCaptures(c, f) \/ UserEdits(c, f) \/ TimePasses(c, f)

TaskStep(t) ==
    \/ TaskCompletes(t) \/ TaskErrs(t) \/ TaskFindsDeleted(t) \/ TaskDies(t)
    \/ TaskReports(t) \/ TaskRejected(t) \/ ReportLost(t) \/ ReportRetried(t)

PostStep(p) == PostSaved(p) \/ PostSavedUnheard(p) \/ PostAborted(p)

ServerStep ==
    \/ \E tx \in authTx : AuthorizeUnheard(tx) \/ AuthorizeFails(tx)
    \/ \E p \in postTx : PostStep(p)
    \/ \E i \in Ids : UserDeletes(i)
    \/ CleanupStarts \/ CleanupEnds \/ ClockTicks

Next ==
    \/ \E c \in Clients : DrainStep(c) \/ SyncStep(c) \/ UserStep(c)
    \/ \E t \in tasks : TaskStep(t)
    \/ ServerStep

Spec == Init /\ [][Next]_vars

-----------------------------------------------------------------------------
(* Fairness: what the scheduling of the code keeps going.  WorkManager runs *)
(* the periodic drain again and again; a run, a sync, a worker's task and a *)
(* transaction go on until they end; time passes.  Nothing a user does and  *)
(* no disturbance is ever owed.                                             *)

DrainProgress(c) ==
    \/ DrainStarts(c) \/ DrainSkips(c) \/ DrainTakes(c) \/ DrainEnds(c)
    \/ AuthorizeDuplicate(c) \/ AuthorizeHeals(c) \/ AuthorizeStarts(c)
    \/ AuthorizeGranted(c)
    \/ UploadBusy(c) \/ UploadArrives(c) \/ UploadAnswered(c)

SyncProgress(c) == SyncReads(c) \/ SyncAnswered(c) \/ SyncApplies(c)

TaskProgress(t) ==
    \/ TaskCompletes(t) \/ TaskReports(t) \/ TaskRejected(t) \/ ReportRetried(t)

Fairness ==
    /\ \A c \in Clients :
          /\ WF_vars(DrainProgress(c) /\ Calm)
          /\ WF_vars(SyncProgress(c))
          /\ \A f \in Files : WF_vars(TimePasses(c, f) /\ Calm)
    /\ WF_vars(\E t \in tasks : TaskProgress(t))
    /\ WF_vars(\E p \in postTx : (PostSaved(p) \/ PostAborted(p)) /\ Calm)
    /\ WF_vars(\E tx \in authTx : AuthorizeUnheard(tx) /\ Calm)
    /\ WF_vars(CleanupEnds)

FairSpec == Spec /\ Fairness

-----------------------------------------------------------------------------
(* What the protocol promises                                              *)

\* A client that shows a photo as uploaded shows one the server has once
\* recorded as processed: neither a duplicate answer, nor a sync or a page
\* whose answer is out of date, nor a grant under a reused id may complete a
\* photo whose bytes never made it (PhotoUploadLogic: duplicate answer,
\* updatePhotosFromServerStatuses).
CompletedWasServed ==
    \A c \in Clients, f \in Files : local[c][f].status = "completed" => best[f] > 0

\* A client gives a photo up as deleted only if the photo was deleted on the
\* server, however late the answer arrives and whatever row the id has since.
DeletedWasRemoved ==
    \A c \in Clients, f \in Files : local[c][f].deleted => f \in removed

\* The server id a client keeps for a photo, and every grant still in use,
\* names a row minted for the same content: ids are reused by authorize-upload
\* and outlive their row, and a status or a result must never land on another
\* photo.  A photo in "processing" has such an id, restored statuses included:
\* without one the status sync never asks about it.
ServerIdOfSameFile ==
    /\ \A c \in Clients, f \in Files :
          /\ local[c][f].sid # None => rows[local[c][f].sid].file = f
          /\ local[c][f].status = "processing" => local[c][f].sid # None
    /\ \A t \in tasks : rows[t.grant.id].file = t.grant.file

\* The protocol implements what it promises, step by step.
Promise == INSTANCE UploadPromise WITH
    served  <- {f \in Files : best[f] > 0},
    removed <- removed,
    claimed <- [c \in Clients |-> {f \in Files : local[c][f].status = "completed"}],
    dropped <- [c \in Clients |-> {f \in Files : local[c][f].deleted}]

ImplementsPromise == Promise!Spec

\* Every photo is settled in the end, uploaded or deleted, once disturbances
\* stop: no status, backoff, lost answer, dead task or full queue strands it
\* (drain, staleness thresholds, status sync).
EveryPhotoSettles ==
    \A c \in Clients, f \in Files :
        local[c][f].status # "absent"
            ~> (local[c][f].status = "completed" \/ local[c][f].deleted)

\* A full worker queue drains: every accepted task ends, whatever the API
\* answers to its report, so uploads are not refused for ever.
QueueDrains == QueueFull ~> ~ QueueFull
=============================================================================
