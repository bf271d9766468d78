------------------------------- MODULE PhotoFiles -------------------------------
(***************************************************************************)
(* The files of one photo: a worker's job renders it, posts one file after *)
(* another to the API (photo_processor.py), and reports the URLs; the API  *)
(* checks each post against the photo's row, closes its database session   *)
(* and then streams the body to the same path, whoever posts               *)
(* (upload_processed_file).  An answer may be lost, or come too late.      *)
(* "dzi" stands for the pyramid's descriptor and "tile" for its tiles,     *)
(* which must lie in the pool of the descriptor; a size variant is posted  *)
(* and recorded as the descriptor is.                                      *)
(***************************************************************************)
EXTENDS Integers

CONSTANTS
    Renderings,     \* jobs of the worker for this photo
    Pools,          \* storage pools
    NoPool,         \* none of them
    MaxAuth         \* bound: authorizations of the photo

ASSUME FilesAssumption == MaxAuth \in Nat \ {0} /\ NoPool \notin Pools

Parts == {"dzi", "tile"}

VARIABLES
    entry,          \* the row
    url,            \* photos.sizes: the pool in which the pyramid is
    pool,           \* get_write_pool
    switched,       \* the configured pool was changed, which happens once
    disk,           \* what is at the path of each part in each pool
    rendering,      \* the jobs; base: the pool of the descriptor
    post,           \* each job's post under way
    adrift,         \* a post that its job no longer waits for
    stray           \* history: a post opened a path that was in use

fileVars == <<entry, url, pool, switched, disk, rendering, post, adrift, stray>>

NoPost == [at |-> "none", pool |-> NoPool, part |-> "dzi", auth |-> 0]
IdleRendering == [at |-> "idle", auth |-> 0, base |-> NoPool]
NoFile == [auth |-> 0, whole |-> FALSE]

Posts == [at : {"none", "checked", "open"}, pool : Pools \cup {NoPool},
          part : Parts, auth : 0..MaxAuth]

FilesTypeOK ==
    /\ entry \in [status : {"authorized", "completed", "error"}, auth : 1..MaxAuth,
                  deleted : BOOLEAN]
    /\ url \in Pools \cup {NoPool} /\ pool \in Pools /\ switched \in BOOLEAN
    /\ disk \in [Parts \X Pools -> [auth : 0..MaxAuth, whole : BOOLEAN]]
    /\ rendering \in [Renderings -> [at : {"idle", "dzi", "tile", "done", "over"},
                                     auth : 0..MaxAuth, base : Pools \cup {NoPool}]]
    /\ post \in [Renderings -> Posts] /\ adrift \in Posts /\ stray \in BOOLEAN
    /\ \A j \in Renderings : post[j] # NoPost => post[j].part = rendering[j].at

FilesInit ==
    /\ entry = [status |-> "authorized", auth |-> 1, deleted |-> FALSE]
    /\ url = NoPool /\ pool \in Pools /\ switched = FALSE
    /\ disk = [f \in Parts \X Pools |-> NoFile]
    /\ rendering = [j \in Renderings |-> IdleRendering]
    /\ post = [j \in Renderings |-> NoPost] /\ adrift = NoPost
    /\ stray = FALSE

-----------------------------------------------------------------------------
(* The row, the pools                                                      *)

\* A retry, or a re-upload with other anonymization: the same id, a new row.
Authorize ==
    /\ entry.auth < MaxAuth
    /\ entry' = [status |-> "authorized", auth |-> entry.auth + 1, deleted |-> FALSE]
    /\ url' = NoPool
    /\ UNCHANGED <<pool, switched, disk, rendering, post, adrift, stray>>

\* delete_photo_files removes what photos.sizes names; then the row is marked.
DeleteFiles ==
    /\ ~ entry.deleted /\ entry' = [entry EXCEPT !.deleted = TRUE]
    /\ disk' = [f \in DOMAIN disk |-> IF url = f[2] THEN NoFile ELSE disk[f]]
    /\ UNCHANGED <<url, pool, switched, rendering, post, adrift, stray>>

PoolSwitched ==
    /\ ~ switched /\ switched' = TRUE
    /\ pool' \in Pools \ {pool}
    /\ UNCHANGED <<entry, url, disk, rendering, post, adrift, stray>>

-----------------------------------------------------------------------------
(* The worker                                                              *)

Starts(j) ==
    /\ rendering[j].at = "idle" /\ entry.status = "authorized"
    /\ rendering' = [rendering EXCEPT ![j].at = "dzi", ![j].auth = entry.auth]
    /\ UNCHANGED <<entry, url, pool, switched, disk, post, adrift, stray>>

Over(j) == [IdleRendering EXCEPT !.at = "over", !.auth = rendering[j].auth]

\* After a failed post the job tries again, or it was the last of max_retries.
Tried(j) == rendering' \in {rendering, [rendering EXCEPT ![j] = Over(j)]}

\* A timeout or a broken connection, which the API learns of later or never.
GivesUp(j) ==
    /\ post[j] # NoPost /\ adrift = NoPost
    /\ adrift' = post[j] /\ post' = [post EXCEPT ![j] = NoPost]
    /\ Tried(j)
    /\ UNCHANGED <<entry, url, pool, switched, disk, stray>>

SamePool(j, part, p) == part = "tile" => p = rendering[j].base

\* Faulty variant: where a tile has landed is not compared.
AnyPool(j, part, p) == TRUE

Acceptable(j, part, p) == SamePool(j, part, p)

\* generate_dzi_pyramid fails when a tile lies elsewhere: PoolMigrationError.
Uploaded(j, part, p) ==
    rendering' = [rendering EXCEPT ![j] =
        IF ~ Acceptable(j, part, p) THEN Over(j)
        ELSE IF part = "dzi" THEN [@ EXCEPT !.at = "tile", !.base = p]
                             ELSE [@ EXCEPT !.at = "done"]]

\* Faulty variant: an error is reported while a post is still awaited.
AtOnce(j) == TRUE

\* No post of the job is awaited.
Waits(j) == post[j] = NoPost

\* process: whatever fails, the photo cannot be processed and is reported so.
ReportError(j) ==
    /\ rendering[j].at \in Parts \cup {"over"} /\ Waits(j)
    /\ rendering[j].auth = entry.auth /\ entry.status = "authorized" /\ ~ entry.deleted
    /\ rendering' = [rendering EXCEPT ![j] = Over(j)]
    /\ entry' = [entry EXCEPT !.status = "error"]
    /\ UNCHANGED <<url, pool, switched, disk, post, adrift, stray>>

ReportDone(j) ==
    /\ rendering[j].at = "done"
    /\ rendering[j].auth = entry.auth /\ entry.status = "authorized" /\ ~ entry.deleted
    /\ entry' = [entry EXCEPT !.status = "completed"]
    /\ url' = rendering[j].base
    /\ rendering' = [rendering EXCEPT ![j] = Over(j)]
    /\ UNCHANGED <<pool, switched, disk, post, adrift, stray>>

-----------------------------------------------------------------------------
(* upload_processed_file, for a post awaited or adrift                     *)

Authorized(r) == ~ entry.deleted /\ entry.status = "authorized" /\ r.auth = entry.auth

\* _upload_file_to_api posts the next file, or the same one after a failure; the
\* API reads the row.  (A post that arrives late was not refused if it had
\* arrived at once: an authorization ends for good.)
PostChecked(j) ==
    /\ rendering[j].at \in Parts /\ post[j] = NoPost
    /\ Authorized(rendering[j])
    /\ post' = [post EXCEPT ![j] = [@ EXCEPT !.at = "checked", !.part = rendering[j].at,
                                             !.auth = rendering[j].auth]]
    /\ UNCHANGED <<entry, url, pool, switched, disk, rendering, adrift, stray>>

\* 410, 400 or 403: the job fails.
PostRefused(j) ==
    /\ rendering[j].at \in Parts /\ post[j] = NoPost
    /\ ~ Authorized(rendering[j])
    /\ rendering' = [rendering EXCEPT ![j] = Over(j)]
    /\ UNCHANGED <<entry, url, pool, switched, disk, post, adrift, stray>>

\* The connection of a post adrift breaks before the body is read.
AdriftEnds ==
    /\ adrift.at = "checked" /\ adrift' = NoPost
    /\ UNCHANGED <<entry, url, pool, switched, disk, rendering, post, stray>>

\* The path holds, or is getting, a file that somebody relies on.
InUse(part, p) ==
    \/ entry.status = "completed"
    \/ \E j \in Renderings : rendering[j].base = p /\ (part = "dzi" \/ rendering[j].at = "done")
    \/ \E r \in {adrift} \cup {post[j] : j \in Renderings} :
          r.at = "open" /\ r.part = part /\ r.pool = p

\* open(path, 'wb') in the pool of the moment, with no further check.
PathOpens(r) ==
    /\ r.at = "checked"
    /\ disk' = [disk EXCEPT ![<<r.part, pool>>] = [auth |-> r.auth, whole |-> FALSE]]
    /\ stray' = (stray \/ InUse(r.part, pool))
    /\ UNCHANGED <<entry, url, pool, switched, rendering>>

PostOpens(j) == PathOpens(post[j]) /\ UNCHANGED adrift
            /\ post' = [post EXCEPT ![j] = [@ EXCEPT !.at = "open", !.pool = pool]]

AdriftOpens == PathOpens(adrift) /\ UNCHANGED post
               /\ adrift' = [adrift EXCEPT !.at = "open", !.pool = pool]

\* The last byte goes where the first went, unless that was unlinked.
Whole(r) == disk' = [disk EXCEPT ![<<r.part, r.pool>>].whole =
                        disk[<<r.part, r.pool>>] # NoFile]

\* The stream broke: the path is unlinked - or the API died, and it stays torn.
Torn(r) == disk' \in {disk, [disk EXCEPT ![<<r.part, r.pool>>] = NoFile]}

BodyStreams(j) ==
    /\ post[j].at = "open"
    /\ Whole(post[j]) /\ Uploaded(j, post[j].part, post[j].pool)
    /\ post' = [post EXCEPT ![j] = NoPost]
    /\ UNCHANGED <<entry, url, pool, switched, adrift, stray>>

BodyBreaks(j) ==
    /\ post[j].at = "open"
    /\ Torn(post[j]) /\ Tried(j)
    /\ post' = [post EXCEPT ![j] = NoPost]
    /\ UNCHANGED <<entry, url, pool, switched, adrift, stray>>

AdriftCloses ==
    /\ adrift.at = "open" /\ adrift' = NoPost
    /\ Whole(adrift) \/ Torn(adrift)
    /\ UNCHANGED <<entry, url, pool, switched, rendering, post, stray>>

\* Once a path was opened while in use, nothing is claimed, nothing is followed.
FilesNext ==
  ~ stray /\
    \/ Authorize \/ DeleteFiles \/ PoolSwitched
    \/ AdriftEnds \/ AdriftOpens \/ AdriftCloses
    \/ \E j \in Renderings : \/ Starts(j) \/ PostChecked(j) \/ GivesUp(j) \/ ReportError(j)
                             \/ ReportDone(j) \/ PostRefused(j) \/ PostOpens(j) \/ BodyStreams(j)
                             \/ BodyBreaks(j)

FilesSpec == FilesInit /\ [][FilesNext]_fileVars

-----------------------------------------------------------------------------
\* A completed photo's files are all there, whole, where its URLs say, and of
\* the authorization it completed - through retries, pool switches, re-uploads
\* and deletions.  Only a post that opens a path in use can spoil one: it is
\* checked before, not when, it opens the path, and its cleanup unlinks what
\* is there by then, whoever put it there.
CompletedHasFiles ==
    entry.status = "completed" /\ ~ entry.deleted /\ ~ stray =>
        \A p \in Parts : disk[<<p, url>>] = [auth |-> entry.auth, whole |-> TRUE]
=============================================================================
