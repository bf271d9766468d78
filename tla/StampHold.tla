------------------------------- MODULE StampHold -------------------------------
(***************************************************************************)
(* A photo is stamped at the shutter and refined a few seconds later, when *)
(* the fixes that bracket the shutter have arrived (StampRefiner).  Until  *)
(* then a hold keeps the drain away from its row; the refiner writes only  *)
(* a row that is still pending.  The drain reads the row, marks it and     *)
(* uploads what it read.  One photo that is eligible; its edits are in     *)
(* UploadClient.  The refiner's own steps take no time: the margin of the  *)
(* hold is there for them.                                                 *)
(***************************************************************************)
EXTENDS Integers

CONSTANTS
    BracketTimeout,   \* BRACKET_TIMEOUT_MS, in ticks of two seconds
    MaxTime           \* bound: ticks

ASSUME StampAssumption == BracketTimeout \in Nat \ {0} /\ MaxTime \in Nat

VARIABLES
    clock,
    taken,      \* the row: status, whether refined, uploadHoldUntil, deleted
    refiner,    \* brackets yet to wait for, until when, whether one was found
    brackets,   \* 0: compass only, 1: location or car bearing, 2: both
    uploader,   \* the drain and the stamp in its snapshot
    sent,       \* the stamp in the last upload the server got
    overlap     \* history: refined between the drain's read and its mark

stampVars == <<clock, taken, refiner, brackets, uploader, sent, overlap>>

Stamps == {"coarse", "refined"}

StampTypeOK ==
    /\ clock \in 0..MaxTime
    /\ taken \in [status : {"pending", "uploading", "processing", "completed", "failed"},
                  stamp : Stamps, hold : 0..(BracketTimeout + 1), deleted : BOOLEAN]
    /\ refiner \in [at : {"waiting", "write", "release", "over"}, left : 0..2,
                    deadline : 0..(MaxTime + BracketTimeout), found : BOOLEAN]
    /\ brackets \in 0..2
    /\ uploader \in [at : {"idle", "read", "marked"}, stamp : Stamps,
                     prior : {"pending", "uploading", "failed"}]
    /\ sent \in Stamps \cup {"none"}
    /\ overlap \in BOOLEAN

\* Faulty variant: the hold has no margin.
UploadHoldBare == BracketTimeout

\* UPLOAD_HOLD_MS: the timeout and two seconds more.
UploadHold == BracketTimeout + 1

\* onPhotoCaptured, at time 0: the row is written with its hold, then the
\* refinement is launched.
StampInit ==
    /\ clock = 0
    /\ taken = [status |-> "pending", stamp |-> "coarse", hold |-> UploadHold,
                deleted |-> FALSE]
    /\ brackets \in 0..2
    /\ refiner = [at |-> "waiting", left |-> brackets, deadline |-> BracketTimeout,
                  found |-> FALSE]
    /\ uploader = [at |-> "idle", stamp |-> "coarse", prior |-> "pending"]
    /\ sent = "none" /\ overlap = FALSE

-----------------------------------------------------------------------------
\* An await that has reached its deadline does not wait for another tick.
ClockTicks ==
    /\ clock < MaxTime
    /\ refiner.at = "over" \/ (refiner.at = "waiting" /\ refiner.left > 0
                               /\ clock < refiner.deadline)
    /\ clock' = clock + 1
    /\ UNCHANGED <<taken, refiner, brackets, uploader, sent, overlap>>

\* awaitRow: the later fix arrives, or the deadline passes. The awaits follow
\* one another, each with the whole timeout.
Await(found) ==
    /\ refiner.at = "waiting" /\ refiner.left > 0
    /\ found \/ clock >= refiner.deadline
    /\ refiner' = [refiner EXCEPT !.left = @ - 1, !.deadline = clock + BracketTimeout,
                                  !.found = @ \/ found]
    /\ UNCHANGED <<clock, taken, brackets, uploader, sent, overlap>>

\* The compass window is not waited for in ticks; it may hold a sample.
Refined(sample) ==
    /\ refiner.at = "waiting" /\ refiner.left = 0
    /\ refiner' = [refiner EXCEPT !.at = IF refiner.found \/ sample THEN "write" ELSE "release"]
    /\ UNCHANGED <<clock, taken, brackets, uploader, sent, overlap>>

StillPending == taken.status = "pending" /\ ~ taken.deleted

\* applyRefinedStamp: one UPDATE, which may match no row.
ApplyRefinedStamp ==
    /\ refiner.at = "write"
    /\ taken' = IF StillPending THEN [taken EXCEPT !.stamp = "refined"] ELSE taken
    /\ overlap' = (overlap \/ (StillPending /\ uploader.at = "read"))
    /\ refiner' = [refiner EXCEPT !.at = "release"]
    /\ UNCHANGED <<clock, brackets, uploader, sent>>

\* finally: clearUploadHold, whatever happened.
ClearUploadHold ==
    /\ refiner.at = "release"
    /\ taken' = [taken EXCEPT !.hold = 0]
    /\ refiner' = [refiner EXCEPT !.at = "over"]
    /\ UNCHANGED <<clock, brackets, uploader, sent, overlap>>

-----------------------------------------------------------------------------
\* A row left in "uploading" is taken after ten minutes, when every refinement
\* is over; the backoff of a failed one may be bypassed.
Due == taken.status \in {"pending", "failed"}
       \/ (taken.status = "uploading" /\ refiner.at = "over")

\* getNextPhotoForUpload; a run sees the photo once.
ReadNext ==
    /\ uploader.at = "idle"
    /\ ~ taken.deleted /\ taken.hold <= clock /\ Due
    /\ uploader' = [at |-> "read", stamp |-> taken.stamp, prior |-> taken.status]
    /\ UNCHANGED <<clock, taken, refiner, brackets, sent, overlap>>

\* No token, backoff, an invalid file: the run leaves the photo alone.
PassOver ==
    /\ uploader.at = "read"
    /\ uploader' = [uploader EXCEPT !.at = "idle"]
    /\ UNCHANGED <<clock, taken, refiner, brackets, sent, overlap>>

MarkUploading ==
    /\ uploader.at = "read"
    /\ uploader' = [uploader EXCEPT !.at = "marked"]
    /\ taken' = [taken EXCEPT !.status = "uploading"]
    /\ UNCHANGED <<clock, refiner, brackets, sent, overlap>>

Outcome(next) ==
    /\ uploader.at = "marked"
    /\ uploader' = [uploader EXCEPT !.at = "idle"]
    /\ taken' = [taken EXCEPT !.status = next]
    /\ UNCHANGED <<clock, refiner, brackets, overlap>>

Accepted == Outcome("processing") /\ sent' = uploader.stamp

\* The server has the photo of an upload whose answer was lost: a duplicate.
Duplicate == sent # "none" /\ Outcome("completed") /\ UNCHANGED sent

\* A failure may be the answer's alone.
Fails == Outcome("failed") /\ sent' \in {sent, uploader.stamp}

\* WorkerBusyException, CancellationException: the prior status is restored.
Restores == Outcome(uploader.prior) /\ UNCHANGED sent

StatusSynced ==
    /\ taken.status = "processing"
    /\ \E s \in {"completed", "failed"} : taken' = [taken EXCEPT !.status = s]
    /\ UNCHANGED <<clock, refiner, brackets, uploader, sent, overlap>>

Discard ==
    /\ taken' = [taken EXCEPT !.deleted = TRUE]
    /\ UNCHANGED <<clock, refiner, brackets, uploader, sent, overlap>>

\* The process dies: the hold stays in the row, the refinement is lost.
AppDies ==
    /\ uploader' = [uploader EXCEPT !.at = "idle"]
    /\ refiner' = [refiner EXCEPT !.at = "over"]
    /\ sent' \in IF uploader.at = "marked" THEN {sent, uploader.stamp} ELSE {sent}
    /\ UNCHANGED <<clock, taken, brackets, overlap>>

StampNext ==
    \/ ClockTicks \/ ApplyRefinedStamp \/ ClearUploadHold
    \/ \E found \in BOOLEAN : Await(found) \/ Refined(found)
    \/ ReadNext \/ PassOver \/ MarkUploading
    \/ Accepted \/ Duplicate \/ Fails \/ Restores
    \/ StatusSynced \/ Discard \/ AppDies

StampSpec == StampInit /\ [][StampNext]_stampVars

-----------------------------------------------------------------------------
\* applyRefinedStamp: "the uploaded metadata and the local row must keep
\* telling the same story" - through failures, retries, lost answers and
\* deaths.  The hold covers one await: only a photo that waits for both
\* brackets, one after the other, can be refined while the drain is between
\* reading and marking it, and then the two stories differ.
SameStory ==
    \/ overlap /\ brackets = 2
    \/ taken.status \notin {"processing", "completed"}
    \/ sent = taken.stamp
=============================================================================
