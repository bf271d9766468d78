----------------------------- MODULE UploadClient -----------------------------
(***************************************************************************)
(* The upload side of an installed client: its photos and edits tables     *)
(* (Room), the drain that uploads one photo at a time (one run at a time:  *)
(* workerMutex), the status sync that follows a drain as a job of its own, *)
(* and the "my photos" page, which also writes statuses it fetched.  The   *)
(* last two take no lock against the drain: each reads the table, waits    *)
(* for the network and then writes by primary key.                         *)
(*                                                                         *)
(* The definitions here are the client's half of every step; UploadProtocol*)
(* joins them to the server's and the worker's.                            *)
(***************************************************************************)
EXTENDS PhotoApi

CONSTANT PageClients   \* the clients whose user has the "my photos" page

ASSUME ClientAssumption == PageClients \subseteq Clients

VARIABLES
    local,   \* photos table of each client, by file
    edits,   \* unprocessed rows of its edits table, counted by file
    drain,   \* its upload run
    sync,    \* its status sync job
    page     \* statuses its page has fetched and not yet written, by id

clientVars == <<local, edits, drain, sync, page>>

LocalStatus == {"absent", "pending", "uploading", "processing", "completed", "failed"}

\* `aged`: lastUploadAttempt is old enough for what the status waits for (the
\* backoff of a failed row, 10 minutes of uploading, 1 hour of processing).
LocalRow == [ status  : LocalStatus,
              version : Versions,
              sid     : Ids \cup {None},   \* serverPhotoId
              deleted : BOOLEAN,
              aged    : BOOLEAN ]

Answer == {"none", "authorized", "completed", "error", "deleted"}

\* `prior` is the status the drain's snapshot of the photo had, `asked` the
\* authorization it waits for, `grant` the one it got.
DrainState == [ pc     : {"idle", "next", "authorize", "authorizing", "upload", "sent"},
                file   : Files \cup {None},
                prior  : LocalStatus,
                seen   : SUBSET Files,
                manual : BOOLEAN,
                asked  : AuthRequest \cup {None},
                grant  : Grant \cup {None} ]

\* `due`: a sync is scheduled; `asked`: the server id each file was in
\* "processing" under when the sync read the table.
SyncState == [ due    : BOOLEAN,
               pc     : {"idle", "asking", "answered"},
               asked  : [Files -> Ids \cup {None}],
               answer : [Files -> Answer] ]

ClientTypeOK ==
    /\ local \in [Clients -> [Files -> LocalRow]]
    /\ edits \in [Clients -> [Files -> Nat]]
    /\ drain \in [Clients -> DrainState]
    /\ sync  \in [Clients -> SyncState]
    /\ page  \in [Clients -> [Ids -> Answer]]

NotCaptured == [status |-> "absent", version |-> 1, sid |-> None,
                deleted |-> FALSE, aged |-> TRUE]

NoDrain == [pc |-> "idle", file |-> None, prior |-> "absent", seen |-> {},
            manual |-> FALSE, asked |-> None, grant |-> None]

NoSync == [due |-> FALSE, pc |-> "idle", asked |-> [f \in Files |-> None],
           answer |-> [f \in Files |-> "none"]]

NoPage == [i \in Ids |-> "none"]

ClientInit ==
    /\ local = [c \in Clients |-> [f \in Files |-> NotCaptured]]
    /\ edits = [c \in Clients |-> [f \in Files |-> 0]]
    /\ drain = [c \in Clients |-> NoDrain]
    /\ sync  = [c \in Clients |-> NoSync]
    /\ page  = [c \in Clients |-> NoPage]

-----------------------------------------------------------------------------
(* Writes: one row by primary key, the run, the sync job                   *)

SetPhoto(c, f, photo) == local' = [local EXCEPT ![c][f] = photo]
SetDrain(c, run)      == drain' = [drain EXCEPT ![c] = run]
SetSync(c, job)       == sync'  = [sync  EXCEPT ![c] = job]

-----------------------------------------------------------------------------
(* The user and the passage of time                                        *)

\* registerCapturedPhoto, or the scan finding a new file.
Capture(c, f) ==
    /\ local[c][f].status = "absent"
    /\ SetPhoto(c, f, [local[c][f] EXCEPT !.status = "pending"])
    /\ UNCHANGED <<edits, drain, sync, page>>

\* createEdit: only the edits table is touched.
CreateEdit(c, f) ==
    /\ local[c][f].status # "absent"
    /\ local[c][f].version + edits[c][f] < MaxVersion
    /\ edits' = [edits EXCEPT ![c][f] = @ + 1]
    /\ UNCHANGED <<local, drain, sync, page>>

Age(c, f) ==
    /\ local[c][f].status \in {"failed", "uploading", "processing"}
    /\ ~ local[c][f].aged
    /\ SetPhoto(c, f, [local[c][f] EXCEPT !.aged = TRUE])
    /\ UNCHANGED <<edits, drain, sync, page>>

-----------------------------------------------------------------------------
(* Drain: doWorkInternal                                                   *)

\* processPendingEdits precedes the loop: each edit bumps the version and
\* puts its photo back to "pending", whatever state the photo is in.
Edited(c) == [f \in Files |->
    IF edits[c][f] = 0 THEN local[c][f]
    ELSE [local[c][f] EXCEPT !.status = "pending", !.version = @ + edits[c][f]]]

StartDrain(c, manual) ==
    /\ drain[c].pc = "idle"
    /\ local' = [local EXCEPT ![c] = Edited(c)]
    /\ edits' = [edits EXCEPT ![c] = [f \in Files |-> 0]]
    /\ SetDrain(c, [NoDrain EXCEPT !.pc = "next", !.manual = manual])
    /\ UNCHANGED <<sync, page>>

\* Faulty variant: "processing" is left to the status sync, however stale.
CandidateNoStale(c, f) ==
    /\ ~ local[c][f].deleted
    /\ f \notin drain[c].seen
    /\ \/ local[c][f].status \in {"pending", "failed"}
       \/ local[c][f].status = "uploading" /\ local[c][f].aged

\* The query's predicate and its order: pending, failed, stale uploading,
\* stale processing.
Candidate(c, f) ==
    /\ ~ local[c][f].deleted
    /\ f \notin drain[c].seen
    /\ \/ local[c][f].status \in {"pending", "failed"}
       \/ local[c][f].status \in {"uploading", "processing"} /\ local[c][f].aged

Rank == [pending |-> 1, failed |-> 2, uploading |-> 3, processing |-> 4]

\* getNextPhotoForUpload returns f (the order within a rank is by time).
IsNext(c, f) ==
    /\ drain[c].pc = "next"
    /\ Candidate(c, f)
    /\ \A g \in Files : Candidate(c, g) =>
          Rank[local[c][f].status] <= Rank[local[c][g].status]

\* updateUploadFailure: a new attempt waits for its backoff.
Failed(photo) == [photo EXCEPT !.status = "failed", !.aged = FALSE]

\* isEligibleNow: the backoff of a failed photo, bypassed by the retry button.
Eligible(c, f) ==
    local[c][f].status = "failed" => local[c][f].aged \/ drain[c].manual

SkipBackoff(c, f) ==
    /\ IsNext(c, f)
    /\ ~ Eligible(c, f)
    /\ SetDrain(c, [drain[c] EXCEPT !.seen = @ \cup {f}])
    /\ UNCHANGED <<local, edits, sync, page>>

\* validatePhotoForUpload fails: the file is gone or its hash is malformed.
RejectInvalid(c, f) ==
    /\ IsNext(c, f) /\ Eligible(c, f)
    /\ SetDrain(c, [drain[c] EXCEPT !.seen = @ \cup {f}])
    /\ SetPhoto(c, f, Failed(local[c][f]))
    /\ UNCHANGED <<edits, sync, page>>

\* The photo goes to "uploading"; the snapshot keeps its former status.
TakePhoto(c, f) ==
    /\ IsNext(c, f) /\ Eligible(c, f)
    /\ SetDrain(c, [drain[c] EXCEPT !.pc = "authorize", !.file = f,
                                    !.prior = local[c][f].status,
                                    !.seen = @ \cup {f}])
    /\ SetPhoto(c, f, [local[c][f] EXCEPT !.status = "uploading"])
    /\ UNCHANGED <<edits, sync, page>>

Processing(c, f) ==
    /\ local[c][f].status = "processing"
    /\ local[c][f].sid # None
    /\ ~ local[c][f].deleted

\* A run that ends normally schedules the sync when a photo is in
\* "processing".  REPLACE cancels a sync under way, which never notices.
ScheduleSync(c, files) ==
    SetSync(c, [sync[c] EXCEPT !.due = @ \/ files # {}])

EndDrain(c) ==
    /\ SetDrain(c, NoDrain)
    /\ ScheduleSync(c, {f \in Files : Processing(c, f)})
    /\ UNCHANGED <<local, edits, page>>

\* The query returns null.
NoMorePhotos(c) ==
    /\ drain[c].pc = "next"
    /\ \A f \in Files : ~ Candidate(c, f)
    /\ EndDrain(c)

\* Auto-upload switched off, a metered network, or no token.
StopDrain(c) == drain[c].pc = "next" /\ EndDrain(c)

\* The photo in hand is done with: the loop goes on.
Continue(c) ==
    SetDrain(c, [NoDrain EXCEPT !.pc = "next", !.seen = drain[c].seen,
                                !.manual = drain[c].manual])

\* The row of the photo in hand.
InHand(c) == local[c][drain[c].file]

SetInHand(c, photo) == SetPhoto(c, drain[c].file, photo)

FailPhoto(c) ==
    /\ Continue(c)
    /\ SetInHand(c, Failed(InHand(c)))
    /\ UNCHANGED <<edits, sync, page>>

\* A "duplicate" answer completes the photo and leaves its server id alone.
DuplicatePhoto(c) ==
    /\ Continue(c)
    /\ SetInHand(c, [InHand(c) EXCEPT !.status = "completed"])
    /\ UNCHANGED <<edits, sync, page>>

\* The answer carries a grant: the id is stored before the upload begins.
Authorized(c, g) ==
    /\ drain[c].pc = "authorizing"
    /\ SetDrain(c, [drain[c] EXCEPT !.pc = "upload", !.asked = None, !.grant = g])
    /\ SetInHand(c, [InHand(c) EXCEPT !.sid = g.id])
    /\ UNCHANGED <<edits, sync, page>>

\* updateUploadHeartbeat, every 30 s of an upload.
Heartbeat(c) ==
    /\ drain[c].pc \in {"upload", "sent"}
    /\ InHand(c).aged
    /\ SetInHand(c, [InHand(c) EXCEPT !.aged = FALSE])
    /\ UNCHANGED <<edits, drain, sync, page>>

\* updateUploadStatusAndServerId after the worker's "accepted".
UploadAccepted(c) ==
    /\ drain[c].pc = "sent"
    /\ Continue(c)
    /\ SetInHand(c, [InHand(c) EXCEPT !.status = "processing",
                                      !.sid = drain[c].grant.id, !.aged = FALSE])
    /\ UNCHANGED <<edits, sync, page>>

\* updateUploadStatus with the status of the run's snapshot of the photo.
Restore(c) == SetInHand(c, [InHand(c) EXCEPT !.status = drain[c].prior])

\* The worker is busy: the photo gets its status back, the run ends.  The
\* table holds the restored status when the run looks for processing photos.
WorkerBusy(c) ==
    /\ drain[c].pc = "upload"
    /\ SetDrain(c, NoDrain)
    /\ Restore(c)
    /\ ScheduleSync(c, {f \in Files : f # drain[c].file /\ Processing(c, f)}
              \cup IF drain[c].prior = "processing" /\ ~ InHand(c).deleted
                   THEN {drain[c].file} ELSE {})
    /\ UNCHANGED <<edits, page>>

\* CancellationException restores the status too, but leaves the run at once.
\* It surfaces at the suspension points of a run, so also once a request that
\* was under way is over, whatever its outcome.
CancelDrain(c) ==
    /\ drain[c].pc # "idle"
    /\ SetDrain(c, NoDrain)
    /\ IF drain[c].pc = "next" THEN UNCHANGED local ELSE Restore(c)
    /\ UNCHANGED <<edits, sync, page>>

\* The process dies: the tables stay as they are, and a scheduled sync stays
\* scheduled (WorkManager persists it).
KillClient(c) ==
    /\ SetDrain(c, NoDrain)
    /\ SetSync(c, [NoSync EXCEPT !.due = sync[c].due \/ sync[c].pc # "idle"])
    /\ page'  = [page EXCEPT ![c] = NoPage]
    /\ UNCHANGED <<local, edits>>

-----------------------------------------------------------------------------
(* Status sync and the page                                                *)

AskedNow(c) == [f \in Files |-> IF Processing(c, f) THEN local[c][f].sid ELSE None]

\* getProcessingPhotos; nothing to ask ends the job.
ReadProcessing(c) ==
    /\ sync[c].due /\ sync[c].pc = "idle"
    /\ SetSync(c, IF \E f \in Files : Processing(c, f)
                  THEN [NoSync EXCEPT !.pc = "asking", !.asked = AskedNow(c)]
                  ELSE NoSync)
    /\ UNCHANGED <<local, edits, drain, page>>

\* Faulty variants: the server's word for the status is stored as it is; a
\* row that the server still waits for counts as uploaded.
UpdatedVerbatim(r, answer) ==
    CASE answer = "deleted" -> [r EXCEPT !.deleted = TRUE]
      [] answer = "none"    -> r
      [] OTHER              -> [r EXCEPT !.status = answer]

UpdatedTooEarly(r, answer) ==
    CASE answer = "deleted" -> [r EXCEPT !.deleted = TRUE]
      [] answer \in {"completed", "authorized"} -> [r EXCEPT !.status = "completed"]
      [] answer = "error"   -> Failed(r)
      [] OTHER              -> r

\* updatePhotosFromServerStatuses, for one file: a write by primary key that
\* does not look at the row again.
Updated(r, answer) ==
    CASE answer = "deleted"   -> [r EXCEPT !.deleted = TRUE]
      [] answer = "completed" -> [r EXCEPT !.status = "completed"]
      [] answer = "error"     -> Failed(r)
      [] OTHER                -> r

\* The job is over; a later one may be due.
SyncDone(c) == SetSync(c, [NoSync EXCEPT !.due = sync[c].due])

ApplyStatuses(c) ==
    /\ sync[c].pc = "answered"
    /\ local' = [local EXCEPT ![c] =
          [f \in Files |-> IF sync[c].asked[f] = None THEN @[f]
                           ELSE Updated(@[f], sync[c].answer[f])]]
    /\ SyncDone(c)
    /\ UNCHANGED <<edits, drain, page>>

SyncFails(c) ==
    /\ sync[c].pc = "asking"
    /\ SyncDone(c)
    /\ UNCHANGED <<local, edits, drain, page>>

\* updatePhotoStatusesFromFrontend: statuses fetched earlier are applied to
\* the photos that are in "processing" now.
ApplyPage(c) ==
    /\ page[c] # NoPage
    /\ local' = [local EXCEPT ![c] =
          [f \in Files |-> IF Processing(c, f) THEN Updated(@[f], page[c][@[f].sid])
                           ELSE @[f]]]
    /\ page' = [page EXCEPT ![c] = NoPage]
    /\ UNCHANGED <<edits, drain, sync>>
=============================================================================
