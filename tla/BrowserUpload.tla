----------------------------- MODULE BrowserUpload -----------------------------
(***************************************************************************)
(* The web client keeps its photos in IndexedDB (browser/photoStorage.ts). *)
(* Tabs and the service worker each run the upload loop of uploadManager.ts*)
(* on the same rows: a context looks for a photo in one transaction and    *)
(* claims it in another.  Status syncs read rows, ask the server and write *)
(* the rows by key.  The user changes a photo's anonymization override,    *)
(* which queues it again.  One photo; a claim's context has no lock beyond *)
(* the status in the row.                                                  *)
(***************************************************************************)
EXTENDS Integers, FiniteSets

CONSTANTS
    Contexts,       \* tabs and the service worker
    Syncs,          \* status syncs, which any context starts at any time
    MaxVersion      \* bound: versions of the override

ASSUME BrowserAssumption == MaxVersion \in Nat \ {0}

VARIABLES
    kept,      \* the photo in IndexedDB
    loop,       \* what each context does with it, and the version it read
    query,       \* each sync: what it asked about and was told
    dialog,     \* the override menu is open on a photo whose file is there
    remote,     \* the version the server got last, and its status there
    raced       \* history: the row was written under a reader that still acts

browserVars == <<kept, loop, query, dialog, remote, raced>>

RemoteStatus == {"absent", "authorized", "completed", "error", "deleted"}

BrowserTypeOK ==
    /\ kept \in [status : {"pending", "uploading", "processing", "completed", "failed"},
                  version : 1..MaxVersion, deleted : BOOLEAN, blob : BOOLEAN]
    /\ loop \in [Contexts -> [at : {"idle", "look", "found", "sending", "accepted",
                                    "evict", "busy", "failed"},
                              version : 1..MaxVersion]]
    /\ query \in [Syncs -> {"idle", "asked"} \cup RemoteStatus]
    /\ dialog \in BOOLEAN
    /\ remote \in [status : RemoteStatus, version : 0..MaxVersion]
    /\ raced \in BOOLEAN

BrowserInit ==
    /\ kept = [status |-> "pending", version |-> 1, deleted |-> FALSE, blob |-> TRUE]
    /\ loop = [c \in Contexts |-> [at |-> "idle", version |-> 1]]
    /\ query = [y \in Syncs |-> "idle"]
    /\ dialog = FALSE
    /\ remote = [status |-> "absent", version |-> 0]
    /\ raced = FALSE

-----------------------------------------------------------------------------
\* A context between reading the row and its write of the outcome.
Acting(c) == loop[c].at \in {"found", "sending", "accepted", "busy", "failed"}

Goes(c, at) == loop' = [loop EXCEPT ![c].at = at]

\* The snapshot is dropped with the outcome written.
Forgets(c, at) == loop' = [loop EXCEPT ![c] = [at |-> at, version |-> 1]]

\* uploadPendingPhotos: isRunning keeps a context from running two loops.
StartLoop(c) ==
    /\ loop[c].at = "idle" /\ Forgets(c, "look")
    /\ UNCHANGED <<kept, query, dialog, remote, raced>>

\* Offline, switched off, or nothing to upload.
StopLoop(c) ==
    /\ loop[c].at = "look" /\ Forgets(c, "idle")
    /\ UNCHANGED <<kept, query, dialog, remote, raced>>

\* getNextPhotoForUpload; the backoff of a failed photo may have elapsed.
FindNext(c) ==
    /\ loop[c].at = "look"
    /\ kept.status \in {"pending", "failed"} /\ ~ kept.deleted
    /\ loop' = [loop EXCEPT ![c] = [at |-> "found", version |-> kept.version]]
    /\ UNCHANGED <<kept, query, dialog, remote, raced>>

\* Faulty variant: markPhotoAsUploading, which claims whatever it finds.
AnyClaim == TRUE

Claimable == kept.status \in {"pending", "failed"}

\* tryClaimPhoto reads the status again in the transaction that writes it.
TryClaim(c) ==
    /\ loop[c].at = "found"
    /\ IF Claimable
       THEN Goes(c, "sending") /\ kept' = [kept EXCEPT !.status = "uploading"]
       ELSE Forgets(c, "look") /\ UNCHANGED kept
    /\ UNCHANGED <<query, dialog, remote, raced>>

\* The uploader sends what the context read before its claim.
Sent(c) == [status |-> "authorized", version |-> loop[c].version]

Answered(c) ==
    /\ loop[c].at = "sending"
    /\ Goes(c, "accepted") /\ remote' = Sent(c)
    /\ UNCHANGED <<kept, query, dialog, raced>>

\* A refusal, or the loss of the answer alone.
Refused(c) ==
    /\ loop[c].at = "sending"
    /\ Goes(c, "failed") /\ remote' \in {remote, Sent(c)}
    /\ UNCHANGED <<kept, query, dialog, raced>>

WorkerBusy(c) ==
    /\ loop[c].at = "sending" /\ Goes(c, "busy")
    /\ UNCHANGED <<kept, query, dialog, remote, raced>>

\* markPhotoAsUploaded writes the row it finds, whatever its status.
MarkUploaded(c) ==
    /\ loop[c].at = "accepted"
    /\ kept' = [kept EXCEPT !.status = "processing"]
    /\ \E at \in {"look", "evict"} : Forgets(c, at)
    /\ UNCHANGED <<query, dialog, remote, raced>>

\* deletePhotoBlob, when more than half of the storage is used.
DeleteBlob(c) ==
    /\ loop[c].at = "evict" /\ Forgets(c, "look")
    /\ kept' = [kept EXCEPT
          !.blob = @ /\ kept.status \notin {"processing", "completed"}]
    /\ UNCHANGED <<query, dialog, remote, raced>>

\* releasePhotoClaim, and the pass ends.
ReleaseClaim(c) ==
    /\ loop[c].at = "busy" /\ Forgets(c, "idle")
    /\ kept' = [kept EXCEPT !.status = IF @ = "uploading" THEN "pending" ELSE @]
    /\ UNCHANGED <<query, dialog, remote, raced>>

MarkFailed(c) ==
    /\ loop[c].at = "failed" /\ Forgets(c, "look")
    /\ kept' = [kept EXCEPT !.status = "failed"]
    /\ UNCHANGED <<query, dialog, remote, raced>>

\* The tab is closed or the browser stops the service worker: what it was
\* sending may still arrive, and nobody takes the row out of "uploading".
ContextDies(c) ==
    /\ loop[c].at # "idle" /\ Forgets(c, "idle")
    /\ remote' \in IF loop[c].at = "sending" THEN {remote, Sent(c)} ELSE {remote}
    /\ UNCHANGED <<kept, query, dialog, raced>>

-----------------------------------------------------------------------------
Polling(y) == query[y] # "idle"

\* syncProcessingPhotosStatus: the rows in "processing" are read ...
AskStatus(y) ==
    /\ ~ Polling(y) /\ kept.status = "processing"
    /\ query' = [query EXCEPT ![y] = "asked"]
    /\ UNCHANGED <<kept, loop, dialog, remote, raced>>

HearStatus(y) ==
    /\ query[y] = "asked"
    /\ query' = [query EXCEPT ![y] = remote.status]
    /\ UNCHANGED <<kept, loop, dialog, remote, raced>>

AskFails(y) ==
    /\ query[y] = "asked"
    /\ query' = [query EXCEPT ![y] = "idle"]
    /\ UNCHANGED <<kept, loop, dialog, remote, raced>>

Written(told) ==
    CASE told = "deleted"   -> [kept EXCEPT !.deleted = TRUE]
      [] told = "completed" -> [kept EXCEPT !.status = "completed"]
      [] told = "error"     -> [kept EXCEPT !.status = "failed"]
      [] OTHER              -> kept

\* ... and written by key, whatever has become of them.
WriteStatus(y) ==
    /\ query[y] \in RemoteStatus
    /\ kept' = Written(query[y])
    /\ query' = [query EXCEPT ![y] = "idle"]
    /\ raced' = (raced \/ (kept'.status # kept.status /\ kept.status # "processing"))
    /\ UNCHANGED <<loop, dialog, remote>>

-----------------------------------------------------------------------------
\* lookupBrowserPhoto: the menu opens on a photo whose file is there.
OpenMenu ==
    /\ ~ dialog /\ ~ kept.deleted /\ kept.blob /\ kept.version < MaxVersion
    /\ dialog' = TRUE
    /\ UNCHANGED <<kept, loop, query, remote, raced>>

\* Faulty variant: the override is stored and the photo not queued.
StoredOnly == kept.status

Requeued == "pending"

\* setAnonymizationOverride.
SetOverride ==
    /\ dialog
    /\ dialog' = FALSE
    /\ kept' = [kept EXCEPT !.version = @ + 1, !.status = Requeued]
    /\ raced' = (raced \/ (\E c \in Contexts : Acting(c)) \/ (\E y \in Syncs : Polling(y)))
    /\ UNCHANGED <<loop, query, remote>>

\* The worker and the owner, on the server.
RemoteStep ==
    /\ \/ remote.status = "authorized"
          /\ \E s \in {"completed", "error"} : remote' = [remote EXCEPT !.status = s]
       \/ remote.status \in {"authorized", "completed", "error"}
          /\ remote' = [remote EXCEPT !.status = "deleted"]
    /\ UNCHANGED <<kept, loop, query, dialog, raced>>

\* Bound: nothing is claimed of a behaviour after such a race, and it is not
\* followed any further.
BrowserNext ==
    /\ ~ raced
    /\ \/ \E c \in Contexts :
             \/ StartLoop(c) \/ StopLoop(c) \/ FindNext(c) \/ TryClaim(c)
             \/ Answered(c) \/ Refused(c) \/ WorkerBusy(c)
             \/ MarkUploaded(c) \/ DeleteBlob(c) \/ ReleaseClaim(c) \/ MarkFailed(c)
             \/ ContextDies(c)
       \/ \E y \in Syncs : AskStatus(y) \/ HearStatus(y) \/ AskFails(y) \/ WriteStatus(y)
       \/ OpenMenu \/ SetOverride \/ RemoteStep

BrowserSpec == BrowserInit /\ [][BrowserNext]_browserVars

-----------------------------------------------------------------------------
\* tryClaimPhoto: two contexts never send the photo at once - however their
\* reads, claims, failures, releases and deaths interleave, unless the row was
\* written under one that was still acting on it.
OneSender == raced \/ Cardinality({c \in Contexts : loop[c].at = "sending"}) <= 1

\* setAnonymizationOverride queues the photo "so the upload loop re-sends the
\* file": a photo that is uploaded has been sent with its last override, after
\* lost answers, retries and dead contexts too - with the same exception.
LastOverrideSent ==
    raced \/ kept.status \notin {"processing", "completed"}
          \/ remote.version = kept.version
=============================================================================
