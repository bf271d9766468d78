--------------------------- MODULE UploadInvariant ---------------------------
(***************************************************************************)
(* The inductive invariant of UploadProtocol: what every step of the       *)
(* protocol preserves, and what its safety properties follow from.  TLC    *)
(* checks it on small instances, UploadProtocolProofs proves it.           *)
(*                                                                         *)
(* The thread of the argument: a row's id is bound to one content for      *)
(* ever, everything in flight carries an id of the content it is about,    *)
(* and what was once served or removed stays in the history; so an answer, *)
(* however old, speaks of the right photo and of something that happened.  *)
(***************************************************************************)
EXTENDS UploadProtocol

\* A photo's status when a run picks it up.
Retryable == {"pending", "failed", "uploading", "processing"}

\* Every row has a content; a completed one was served, a deleted one removed.
RowsInv ==
    \A i \in Ids :
        /\ rows[i].status # "absent" => rows[i].file # None
        /\ rows[i].status = "completed" => best[rows[i].file] > 0
        /\ rows[i].deleted => rows[i].status # "absent" /\ rows[i].file \in removed

\* A request and a report name a row of the content they carry.
RequestsInv ==
    /\ \A tx \in authTx : tx.found # None => rows[tx.found].file = tx.file
    /\ \A p \in postTx : rows[p.grant.id].file = p.grant.file

\* So does a task, and one past its work has an outcome.
TasksInv ==
    \A t \in tasks :
        /\ rows[t.grant.id].file = t.grant.file
        /\ t.phase # "work" => t.outcome # "none"

\* A run that has a photo in hand knows which, what it was before, and what
\* it was granted for it.
DrainInv ==
    \A c \in Clients :
        /\ drain[c].pc \notin {"idle", "next"} =>
              /\ drain[c].file \in Files
              /\ drain[c].prior \in Retryable
              /\ drain[c].prior = "processing" => local[c][drain[c].file].sid # None
        /\ drain[c].pc = "authorizing" =>
              /\ drain[c].asked \in AuthRequest
              /\ drain[c].asked.file = drain[c].file
              /\ drain[c].asked.client = c
        /\ drain[c].pc \in {"upload", "sent"} =>
              /\ drain[c].grant \in Grant
              /\ drain[c].grant.file = drain[c].file
              /\ rows[drain[c].grant.id].file = drain[c].file

\* A status on its way to the client is about the photo it will be written
\* to, and tells of something that happened.
JobsInv ==
    \A c \in Clients, f \in Files :
        /\ sync[c].asked[f] # None => rows[sync[c].asked[f]].file = f
        /\ sync[c].answer[f] = "completed" => best[f] > 0
        /\ sync[c].answer[f] = "deleted" => f \in removed

PagesInv ==
    \A c \in Clients, i \in Ids :
        /\ page[c][i] # "deleted"
        /\ page[c][i] = "completed" => rows[i].file # None /\ best[rows[i].file] > 0

AnswerInv == JobsInv /\ PagesInv

\* Edits not yet applied leave room for the versions they will become.
EditsInv ==
    \A c \in Clients, f \in Files : local[c][f].version + edits[c][f] <= MaxVersion

\* The photos themselves: the safety properties.
PhotosInv ==
    \A c \in Clients, f \in Files :
        /\ local[c][f].status = "completed" => best[f] > 0
        /\ local[c][f].deleted => f \in removed
        /\ local[c][f].sid # None => rows[local[c][f].sid].file = f
        /\ local[c][f].status = "processing" => local[c][f].sid # None

ApiInv    == ApiTypeOK /\ RowsInv /\ RequestsInv
ClientInv == ClientTypeOK /\ DrainInv /\ AnswerInv /\ EditsInv /\ PhotosInv
WorkerInv == WorkerTypeOK /\ TasksInv

IInv ==
    /\ ApiInv
    /\ ClientInv
    /\ WorkerInv
    /\ disturbances \in 0 .. MaxDisturbances

\* What no step takes back.
Grows ==
    /\ \A i \in Ids : rows[i].file # None => rows'[i].file = rows[i].file
    /\ \A f \in Files : best[f] > 0 => best'[f] > 0
    /\ removed \subseteq removed'
=============================================================================
