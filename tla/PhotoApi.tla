------------------------------- MODULE PhotoApi -------------------------------
(***************************************************************************)
(* The API server's photo table, as the upload protocol uses it: one       *)
(* owner's rows of `photos`, the registered client keys, and the requests  *)
(* whose transaction has read but not yet written.                         *)
(*                                                                         *)
(* The server runs its handlers as coroutines over READ COMMITTED          *)
(* transactions, so a handler that reads a row, awaits, and then writes it *)
(* by primary key is two steps here: another request may commit between    *)
(* them.  POST /photos/authorize-upload and POST /photos/processed are of  *)
(* that kind.  DELETE /photos/{id} is one step: its write does not depend  *)
(* on what it read, so every overlap of it equals one of the serial orders.*)
(*                                                                         *)
(* The module has no next-state relation of its own: UploadProtocol        *)
(* composes its handlers with the client and the worker.                   *)
(***************************************************************************)
EXTENDS Integers, FiniteSets

CONSTANTS
    Clients,     \* installations; each signs with one key, named like it
    Files,       \* photo contents (file_md5)
    Ids,         \* the uuids the server may mint
    MaxVersion,  \* bound on PhotoEntity.version
    MaxSecond,   \* bound on the clock
    None         \* null

ASSUME ApiAssumption ==
    /\ None \notin Clients \cup Files \cup Ids
    /\ MaxVersion \in Nat \ {0}
    /\ MaxSecond \in Nat

VARIABLES
    rows,        \* the photos table, by id
    keys,        \* clients whose public key is registered and active
    second,      \* int(now.timestamp())
    authTx,      \* authorize-upload requests that have read, not yet committed
    postTx,      \* processed requests that have verified, not yet committed
    orphans,     \* ids a cleanup request has read and is about to delete
    best,        \* history: highest version the server ever recorded completed
    removed      \* history: files of which a row was ever soft-deleted

apiVars == <<rows, keys, second, authTx, postTx, orphans, best, removed>>

Versions == 1 .. MaxVersion
Seconds  == 0 .. MaxSecond

\* What a client signature covers, beside the photo id it is sent with.
Signature == [key : Clients, at : Seconds]

\* "absent": no such row.  `file` of an absent row is what its uuid was
\* minted for once, None if never: a uuid never returns for other content.
Row == [ file    : Files \cup {None},
         status  : {"absent", "authorized", "completed", "error"},
         version : 0 .. MaxVersion,
         key     : Clients \cup {None},   \* client_public_key_id
         at      : Seconds,               \* upload_authorized_at, in seconds
         deleted : BOOLEAN,
         result  : 0 .. MaxVersion,       \* version whose output is stored
         signed  : Signature \cup {None} ]  \* client_signature

\* The answer to authorize-upload: the JWT's photo_id and the timestamp that
\* the client signs; `version` tells one upload's payload from another's.
Grant == [id : Ids, file : Files, version : Versions, key : Clients, at : Seconds]

AuthRequest ==
    [client : Clients, file : Files, version : Versions,
     found : Ids \cup {None}, at : Seconds]

Post == [grant : Grant, outcome : {"completed", "error"}]

Blank == [file |-> None, status |-> "absent", version |-> 0, key |-> None,
          at |-> 0, deleted |-> FALSE, result |-> 0, signed |-> None]

ApiTypeOK ==
    /\ rows   \in [Ids -> Row]
    /\ keys   \subseteq Clients
    /\ second \in Seconds
    /\ authTx \subseteq AuthRequest
    /\ postTx \subseteq Post
    /\ orphans \subseteq Ids
    /\ best   \in [Files -> 0 .. MaxVersion]
    /\ removed \subseteq Files

ApiInit ==
    /\ rows   = [i \in Ids |-> Blank]
    /\ keys   \in SUBSET Clients
    /\ second = 0
    /\ authTx = {}
    /\ postTx = {}
    /\ orphans = {}
    /\ best   = [f \in Files |-> 0]
    /\ removed = {}

-----------------------------------------------------------------------------
(* authorize_upload                                                        *)

\* Faulty variant: the file_md5 condition is forgotten.
MatchingAny(f) == {i \in Ids : rows[i].status # "absent"}

Matching(f) == {i \in Ids : rows[i].status # "absent" /\ rows[i].file = f}

\* select(Photo).where(owner, file_md5).first(): any row of the file, soft
\* deleted ones included, None when there is none.
Lookup(f) == IF Matching(f) = {} THEN {None} ELSE Matching(f)

\* Faulty variant: any row of the version answers, completed or not.
IsDuplicateAnyStatus(found, v) ==
    /\ found # None
    /\ v <= rows[found].version

\* A completed row answers for every version up to its own.
IsDuplicate(found, v) ==
    /\ found # None
    /\ rows[found].status = "completed"
    /\ v <= rows[found].version

\* The request up to its last read: upload_authorized_at is taken, an
\* existing row (authorized, error, or completed at a lower version) is to be
\* replaced under its own id, and the key is known.
AuthorizeRead(tx) ==
    /\ tx.found \in Lookup(tx.file)
    /\ ~ IsDuplicate(tx.found, tx.version)
    /\ tx.client \in keys
    /\ tx.at = second
    /\ authTx' = authTx \cup {tx}
    /\ UNCHANGED <<rows, keys, second, postTx, best, removed, orphans>>

\* The id the new row gets: the replaced row's, or a fresh uuid.
TargetIds(tx) ==
    IF tx.found # None THEN {tx.found}
    ELSE {i \in Ids : rows[i].file = None}

GrantOf(tx, i) ==
    [id |-> i, file |-> tx.file, version |-> tx.version, key |-> tx.client, at |-> tx.at]

\* DELETE of whatever row now has the id, INSERT of the new one, commit.  One
\* step: from the DELETE on the row is locked, and a statement that waited for
\* the lock finds no row and fails (AuthorizeRollback, ProcessedAbort).
AuthorizeCommit(tx, i) ==
    /\ tx \in authTx
    /\ i \in TargetIds(tx)
    /\ rows' = [rows EXCEPT ![i] =
          [file |-> tx.file, status |-> "authorized", version |-> tx.version,
           key |-> tx.client, at |-> tx.at, deleted |-> FALSE,
           result |-> 0, signed |-> None]]
    /\ authTx' = authTx \ {tx}
    /\ UNCHANGED <<keys, second, postTx, best, removed, orphans>>

\* Rollback on any exception: nothing the request did remains.
AuthorizeRollback(tx) ==
    /\ tx \in authTx
    /\ authTx' = authTx \ {tx}
    /\ UNCHANGED <<rows, keys, second, postTx, best, removed, orphans>>

\* register_client_public_key: idempotent, and heals a 409.
RegisterKey(c) ==
    /\ keys' = keys \cup {c}
    /\ UNCHANGED <<rows, second, authTx, postTx, best, removed, orphans>>

-----------------------------------------------------------------------------
(* save_processed_photo                                                    *)

\* The signature covers the photo id and the authorization's second, and is
\* checked with the key the row names.
SignatureVerifies(g) == rows[g.id].key = g.key /\ rows[g.id].at = g.at

\* The handler goes past its checks only for a live row still authorized
\* (else 404, 410, the idempotent 200) under a signature that verifies (403).
Accepts(g) ==
    /\ rows[g.id].status = "authorized"
    /\ ~ rows[g.id].deleted
    /\ SignatureVerifies(g)

\* The checks passed; the row is written in a later step.
ProcessedRead(g, outcome) ==
    /\ Accepts(g)
    /\ postTx' = postTx \cup {[grant |-> g, outcome |-> outcome]}
    /\ UNCHANGED <<rows, keys, second, authTx, best, removed, orphans>>

\* UPDATE photos SET status, sizes, client_signature ... WHERE id, commit.
\* An error report carries no sizes.  It does not clear them either: the ORM
\* writes the columns that differ from what was read, and then there were none.
ProcessedCommit(p) ==
    LET i == p.grant.id IN
    /\ p \in postTx
    /\ rows[i].status # "absent"
    /\ rows' = [rows EXCEPT ![i] =
          [rows[i] EXCEPT
             !.status = p.outcome,
             !.result = IF p.outcome = "completed" THEN p.grant.version ELSE @,
             !.signed = [key |-> p.grant.key, at |-> p.grant.at]]]
    /\ postTx' = postTx \ {p}
    /\ best' = IF p.outcome = "completed" /\ p.grant.version > best[rows[i].file]
               THEN [best EXCEPT ![rows[i].file] = p.grant.version]
               ELSE best
    /\ UNCHANGED <<keys, second, authTx, removed, orphans>>

\* 500: the row vanished under the UPDATE, or the database failed.
ProcessedAbort(p) ==
    /\ p \in postTx
    /\ postTx' = postTx \ {p}
    /\ UNCHANGED <<rows, keys, second, authTx, best, removed, orphans>>

-----------------------------------------------------------------------------
(* The other handlers and the clock                                        *)

\* delete_photo: files first, then deleted = True; row and status stay.
DeletePhoto(i) ==
    /\ rows[i].status # "absent"
    /\ ~ rows[i].deleted
    /\ rows' = [rows EXCEPT ![i] = [rows[i] EXCEPT !.deleted = TRUE]]
    /\ removed' = removed \cup {rows[i].file}
    /\ UNCHANGED <<keys, second, authTx, postTx, best, orphans>>

\* cleanup_orphaned_photos reads the owner's old rows still authorized (the
\* hour it waits is at least one tick) ...
CleanupRead ==
    /\ orphans' = {i \in Ids : rows[i].status = "authorized" /\ rows[i].at < second}
    /\ orphans' # {}
    /\ UNCHANGED <<rows, keys, second, authTx, postTx, best, removed>>

\* ... and deletes them by id, whatever became of them meanwhile.
CleanupCommit ==
    /\ orphans # {}
    /\ rows' = [i \in Ids |-> IF i \in orphans
                              THEN [Blank EXCEPT !.file = rows[i].file]
                              ELSE rows[i]]
    /\ orphans' = {}
    /\ UNCHANGED <<keys, second, authTx, postTx, best, removed>>

\* Faulty variant: a row that is not there counts as deleted.
StatusOfMissingIsDeleted(i) ==
    IF rows[i].status = "absent" \/ rows[i].deleted THEN "deleted"
    ELSE rows[i].status

\* get_photos_status, for one id: what the client reads of it.
StatusOf(i) ==
    IF rows[i].status = "absent" THEN "none"
    ELSE IF rows[i].deleted THEN "deleted"
    ELSE rows[i].status

Tick ==
    /\ second < MaxSecond
    /\ second' = second + 1
    /\ UNCHANGED <<rows, keys, authTx, postTx, best, removed, orphans>>
=============================================================================
