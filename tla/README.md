# Hillview: a verification project

Hillview is a photo mapping service: phones and browsers take geotagged photos,
an API server keeps their records, worker machines process the images, and a web
or native map shows them; an enrichment workbench renders terrain, matches
pictures and carries annotations over. This directory holds TLA+ models of the
parts whose correctness depends on the order in which things happen or on what
is found half done, configurations that check them with TLC, and theorems that
TLAPS proves for every value of the constants. Paths below are relative to the
repository; *client* means an installation of the Android app (`shared-kt/`),
*API* is `backend/api`, *worker* is `backend/worker`, *bench* is the workbench
`enrich/`.

## 1. Inventory

### The upload and its surroundings

**Photo table and upload endpoints of the API** (`backend/api/app/user_routes.py`,
`photo_routes.py`, `backend/common/models.py`).
*State*: rows of `photos` (owner, `file_md5`, `version`, `processing_status`,
`client_public_key_id`, `upload_authorized_at`, `deleted`, sizes,
`client_signature`), registered client keys.
*Operations*: `authorize_upload`, `save_processed_photo` (the worker's report),
`upload_file` (derivatives), `get_photos_status`, `list_photos`,
`delete_photo`, `cleanup_orphaned_photos`, `register_client_public_key`,
metadata edits.
*Hard*: coroutines over READ COMMITTED transactions; a row is read, the handler
awaits, the row is written by primary key; `(owner_id, file_md5)` is not unique;
ids are reused when a row is replaced.
*Correct when*: a status never tells of another photo, a duplicate answer is
given only for a processed photo, a stored result was authorized.

**Upload drain, edits and status sync of the client**
(`shared-kt/.../PhotoUploadLogic.kt`, `SimplePhotoDao.kt`, `EditDao.kt`,
`PhotoUploadWorker.kt`, `PhotoUploadManager.kt`, `PhotoStatusSyncWorker.kt`).
*State*: the Room tables `photos` (`uploadStatus`, `version`, `serverPhotoId`,
`retryCount`, `lastUploadAttempt`, `uploadedAt`, `deleted`, `uploadHoldUntil`) and
`edits`, the run's in-memory snapshot of a photo, WorkManager's unique works.
*Operations*: capture and scan, create an edit, apply edits, pick the next
photo, authorize, upload, accept, fail, restore, sync statuses, apply the
page's statuses.
*Hard*: the drain holds a mutex, the status sync and the page do not; answers are
applied by primary key long after the row was read; the process may die
anywhere; backoff and staleness decide what is picked up again.
*Correct when*: every photo ends uploaded or deleted, and is shown as uploaded
only if the server has processed it.

**My photos page** (`frontend/src/lib/photoStatusSync.ts`) pushes the statuses of
a listing it fetched into the client's table. *Hard*: the listing may be
arbitrarily old.

**Stamp refiner** (`StampRefiner.kt`) stamps a photo anew when the fixes that
bracket the shutter are there, while a hold keeps the drain away. *Hard*: two waits
with a timeout each, one hold. *Correct when*: row, record and upload tell one
story.

**Upload from the browser** (`frontend/src/lib/browser/`): tabs and a service
worker run one upload loop over IndexedDB. *Hard*: find and claim are two
transactions; syncs and overrides write the same row. *Correct when*: one sender
at a time, and the last override is the one sent.

**Worker: accepted uploads and their report** (`backend/worker/app.py`): answers
before the work is done, then processes and reports with retries. *Hard*: the
report may be lost or repeated, the machine may stop.

**Worker subprocess pool** (`worker_processing.py`): an event loop, a result
drainer and a supervisor share the tables of a child process that may be killed
with jobs in flight. *Correct when*: every job is answered and none runs twice.

**Worker backpressure, admission and scaling** (`app.py`, `throttle.py`,
`api/app/worker_routes.py`): a limit checked before the body is read, a machine
that exits when it is bored, pingback threads that keep it awake.

**Image processing in the worker** (`photo_processor.py`, `anonymize.py`,
`detections.py`, `blur.py`): metadata, tiled detection, deduplication, what is
hidden in which rendition, and the posts of the renditions' files to paths that
all jobs of a photo share. *Correct when*: what a record lists exists and hides
what the record says, and nothing found is lost.

### Accounts, sessions, and what users leave on photos

**Session tokens** (API: `auth.py`, `jwt_service.py`, `refresh_access_token`;
clients: `AuthenticationManager.kt` and the WebView's `androidTokenManager.ts`; in
browsers `webTokenManager.ts` and `authStorage.ts`). *State*: blacklist rows of
sessions and spent refresh tokens; a stored pair per installation. *Hard*: a
rotation whose answer is lost, a refresh that ends after a new login, check and
spend as separate transactions. *Correct when*: a session is lost only to what
cannot be told from theft.

**OAuth login and accounts** (`user_routes.py`, `admin_routes.py`): a polled login,
first logins that look for a free user name, changes and deletions of accounts
with their files. **Moderation, ratings, annotations, flags, shares**: rows that
are read and written in separate steps; annotations as chains of versions.
**API rate limiter** (`rate_limiter.py`, the middleware in `api.py`): sliding windows
and lockouts in memory, counted under a user or an address.
**Push notifications** (`push_notifications.py`, `push_routes.py`, `fcm_push.py`):
registrations and a broadcast under an advisory lock.

### What is shown

**Photo listing and map streaming** (`hillview_routes.py`, `activity_routes.py`,
`photo_routes.py`, `bestof_routes.py`): answers put together from several statements
or pages, over a table that changes. **Mapillary cache** (`mapillary_routes.py`,
`cache_service.py`): streams that share a cache and a token bucket.

### The bench and the scripts

**Bench: terrain, reconstruction and matching** (`enrich/api`, `enrich/terrain`,
`enrich/recon`, `enrich/matcher`): jobs between an API, a broker and workers; shared
peak tiles; annotations that are carried over to other panoramas. **Curation**
(`enrich/api/app/facts.py`, `graph.py`, `runs.py` and the routers of annotations,
geocoding, matching verdicts, places and calibration): what is said of an annotation,
as facts in a graph store. *State*: the graph of each fact, the meta graph, the
curation graph, the rows of `runs` and `annotation_mirror`. *Hard*: a request writes to
one graph after the other and takes nothing back. *Correct when*: the last undisturbed
decision is what is read, and nothing decided lacks its fact. **Graduation**
(`enrich/api/app/graduation.py`, `sync.py`, `backend/api/app/graduation_routes.py`):
annotations on their way between the two stores. **Panorama pipeline**
(`scripts/pano`) and **Android project patches**
(`frontend/scripts/patch-android-gen-files.py`): scripts that are stopped anywhere
and run again over what they find.

**Map culling on the client, sensors, the web frontend**: see section 9.

### How the parts of the upload interact

```
 user ---- capture, edit, delete ------------------------------.
   |                                                           |
 client: drain --(1) authorize-upload--> API: photos rows <----'
   |  ^    |                               ^      |
   |  |    '--(2) upload_async--> worker --(3)    |
   |  |                           task     processed
   |  '--- status sync (4) POST /photos/status ---|
   '------ my photos page (5) GET /photos --------'
```

(1) grants a photo id and stamps the row with the client's key and the time; the
client signs both. (2) is answered before the work is done. (3) is verified
against the row, then written by primary key. (4) and (5) bring the outcome
back, as answers about the past, with no lock against the drain. The refiner
and the browser meet the same rows from the side; the pool and the machine are
inside of the worker's "task"; every request carries a token of the session.

The hard behaviours of each part are listed, each at its line, under `hazards`
in `PROJECT.json`, with the properties that would catch them.

## 2. What is done, and what is left

Done: the upload protocol with its refinement; the session protocol; the
worker's pool, machine, files and renditions; the API's smaller protocols
(logins, accounts, marks, annotations, push, limits, cache, listings); the bench's
jobs, tiles, transfers, curation and graduation; the two scripts. Every safety
property that a run checks, type invariants included, is also proved (section 6).

Left: the lemmas by which one component's theorem could be used by another (a session
that lives, for the drain's requests); the parts named in section 9.

## 3. Modules

| module | what it models |
|---|---|
| `PhotoApi` | the API's photo table, keys, transactions in progress; one operator per handler or half of it |
| `UploadWorker` | accepted tasks and their report; extends `PhotoApi` |
| `UploadClient` | the client's tables, drain, sync and page; extends `PhotoApi` |
| `UploadProtocol` | clients, API and worker composed: all actions, `Spec`, fairness, properties |
| `UploadPromise` | the abstract specification: served, removed, claimed, dropped |
| `UploadClaims` | statements of `docs/photo-upload-workflow.md` that the code does not keep |
| `UploadInvariant` | the inductive invariant `IInv` and `Grows` |
| `AuthServer`, `AuthClient`, `SessionClaims` | token families on the API; one Android installation; what they promise together, and fairness |
| `WorkerPool`, `WorkerMachine` | the child process and its jobs; the machine seen from outside |
| `PhotoFiles`, `Renditions` | the posts of a photo's files; what is found, hidden and recorded |
| `StampHold`, `BrowserUpload`, `WebTokens` | refiner against drain; tabs on one row; tabs on one session |
| `OAuthLogin`, `Accounts`, `Marks`, `Annotations` | polled logins; admins and deletions; flags, hides and ratings; version chains |
| `Broadcast`, `RateLimits`, `Listings` | push; limits and lockouts; feeds, map and timeline |
| `TokenBucket`, `MapillaryStream` | the upstream's bucket; streams over a shared cache |
| `BenchJobs`, `PeakTiles`, `Transfers` | jobs, tiles, acceptances |
| `Curation`, `Graduation` | facts and the decisions about them; the way between the two stores |
| `GenPatches`, `PanoPipeline` | the two scripts |
| `MCUploadProtocol`, `MCSessions` | symmetry sets and small instances for TLC |
| `MCServices`, `MCProgress` | components that share no state, side by side (section 5) |
| `UploadProtocolProofs` | the proofs of the upload protocol and of its refinement |
| `BackendProofs`, `BenchProofs`, `BrowserProofs`, `ToolProofs`, `WorkerProofs` | the proofs of the others (section 6) |
| `ProgressProofs`, `ServicesProofs` | types of the components side by side; `ProgressProofs` also of the session |

### `PhotoApi`

`rows[i]` is the row with id `i`: `file` is `file_md5`, `key` is
`client_public_key_id`, `at` the second of `upload_authorized_at`, `result` the
version whose sizes are stored, `signed` the stored signature (named by the key
and second it covers). A row that does not exist has status `absent`; its
`file` remembers what its uuid was minted for, which encodes that a uuid never
comes back for another content. The model has one owner, all of whose clients
share the rows.

A handler that reads and later writes is two steps with its state kept between
them: `authTx` (requests past `AuthorizeRead`) and `postTx` (reports past
`ProcessedRead`), `orphans` for the cleanup. Between the two any other handler
may commit. The write half follows what the database does: DELETE of whatever
row now has the id, INSERT, COMMIT are one step since the row is locked from
the DELETE on; a statement that waited for that lock finds no row and ends in a
rollback (`AuthorizeRollback`, `ProcessedAbort`). `Lookup` returns *some* row of
the file: `.first()` without an order, deleted rows included.

`best` (highest version ever recorded as completed) and `removed` are history
variables: no guard reads them.

### `UploadWorker`

A task is an accepted body: `work` (queued or processing), `notify` (it has a
result to send), `posting` (the API is handling the report). `tries` counts the
attempts of `_upload_inner`'s loop. A 4xx or a 200 ends the task, a 5xx or no
answer is tried again up to `NotifyAttempts`. `AbandonDeleted` is the 410 that
`/photos/upload-file` gives for a deleted photo, which becomes
`PhotoDeletedException` and is not reported. Slots, admission and the pool are
left out: a task takes as long as it takes and may die at any point. There is
one worker; more of them only raise the number of concurrent tasks.

### `UploadClient`

`local[c][f]` is the row of photo `f` in client `c`'s table. `aged` stands for the
comparison of `lastUploadAttempt` / `uploadedAt` with what the status waits for
(the backoff of a failed photo, ten minutes of "uploading", one hour of
"processing"): it becomes true as time passes (`Age`) and false where the code
writes the timestamp. `updateUploadStatus` to "uploading" writes no attempt time,
so a new photo interrupted in that state is stale at once, as in the code.
`retryCount` enters only through `aged`.

`drain[c]` is a run of `doWorkInternal`: `seen` is `skipIds`, `prior` the status in
the snapshot the run holds, `grant` the authorization. The actions follow the
loop: `StartDrain` (with `processPendingEdits`, which precedes it),
`SkipBackoff`, `RejectInvalid`, `TakePhoto`, then the requests, and the four
ways out: `NoMorePhotos`, `StopDrain` (switched off, metered, no token),
`WorkerBusy` and `CancelDrain` (both restore the snapshot's status), besides
`KillClient`. `sync[c]` is the status sync job, `page[c]` what the my photos page
has fetched and not yet written. Only runs without a given photo id are
modelled.

### `UploadProtocol`

Joins the halves. Request, handling and answer are one step where no other
party can tell; the loss of an answer and the death of either side are steps of
their own: a request abandoned by its client goes on at the server
(`AuthorizeUnheard`), a body accepted whose answer is lost is a task and a failed
photo at once. Every failure, deletion, cleanup and unusually slow step is
counted in `disturbances`, bounded by `MaxDisturbances`; nothing else is. Two
identical requests or reports in progress are one element of a set; they would
write the same values.

### Sessions

`AuthServer`: the two tokens of a pair are one value `[sid, gen]`; `spent` and
`revoked` are the rows of `token_blacklist`. A refresh is two steps, checks and
rotation, so that two requests with one token may both be between them.
`AuthClient` has the token store, the contexts that refresh under the
process-wide mutex, and the WebView with its copy of "logged in", its messages
and its reconciler; `storeAuthToken`, `sessionExpired` and `clearAuthToken` take
no lock. Losses, expiries, suspensions, logouts elsewhere and restarts are
counted in `events`. `WebTokens` is the browser: a Web Lock around the refresh,
logins and logouts without it, at most one abandoned request at a time, and one
of the three retries.

### Worker

`WorkerPool` has one child, the production shape: `Threads` slots, the admission
gate, the child's pullers, the result drainer, timeouts, and the supervisor that
fails what a dead child had announced and queues again what it had only pulled.
`WorkerMachine` is the same machine from outside: middleware, `/await` pingbacks,
bored exit, watchdog. `PhotoFiles` follows one photo's posts: checked against the
row, then opened, streamed and closed at a path that is the same for everyone;
"dzi" and "tile" stand for the pyramid. `Renditions` is what is in the files: a
picture is a row of cells, objects and tiles are intervals of it;
`deduplicate_boxes`, stated without its loop, keeps a box unless one before it
that was kept contains it (`KeptAsInTheLoop` in `WorkerProofs` shows that this is
what the loop keeps).

### The API's smaller protocols

Each module has one request as a record with a phase (`at`) and what it has read;
an await in the code is where the phase changes, and any other request may act in
between. `OAuthLogin` binds browser flows to polling sessions by a nonce;
`Accounts` loads, counts administrators, reads which photos have recorded sizes, deletes
the files of those one by one and commits, while photos are authorized, posted and
recorded; `photo[p].spared` are the deletions with a reason to leave files of p;
`Marks` reads and writes a row under a unique constraint; `Annotations` appends to
chains; `Broadcast` selects under an advisory lock that the commit releases;
`RateLimits` checks, tries and records; `Listings` walks a feed over a changing
table; `MapillaryStream` and `TokenBucket` are streams and their pace.

The ticks of `RateLimits` are half seconds, so that a lockout may end between two whole
seconds: what is left of it is told in whole seconds, cut and not rounded up
(`Remaining`). Lockouts are scaled down, five minutes to a second. The module follows one
identifier (`limiter`) out of those that requests are counted
under: the global middleware (`dispatch`) counts by address, since it knows no user;
the limit of a route (`OwnLimit`) by user where there is one and the limit is per user.
A request whose `X-Forwarded-For` has several entries is refused before anything is
recorded (`CountedAs`). In `MapillaryStream` a stream sends what the cache has (or, when
that is more than the limit, some of it), after the filters of hidden content, and then
asks the upstream for the rest.

### Bench, scripts, and the client's other writers

`BenchJobs` is a terrain render, a reconstruction, the match of a pair or the import of
an archived reconstruction (`sort`), with an at-least-once broker and reports that
arrive late or twice: a row that is committed before its message is sent (`unsent`),
workers that wait for memory, compute and report partial results and a final one, and
an API that writes the files of a report and then the row. A match is computed again
after a failed post and has no partial results; an import writes what a final report
would. `PeakTiles` is the
registry of fetches with its done-callback. `Transfers` are acceptances that write
a clone, facts and a decision into different stores.

`Curation` is about one annotation in one respect (`aspect`: its name, rectangle, place,
page, a picture that shows it, a place seen in a photo, a calibration). `loaded`,
`linked` and `decision` are the three graphs, `subject` is the row, and `verb[a]` a
request: its checks and the read of what is approved (`SetLabel`, `SetGeometry`,
`PinAnchor`, `AttachWikipedia`, `ParseRun`, `GeocodeRun`, `PlacePoi`,
`AcceptCalibration`, `Verdict`), then a call each for the fact, the link, the decision
and every demotion, then the end of the run; `Stops` is a call that fails, or the death
of the process, after any of them. `Curate` is a decision on a page, which shows facts
by their link or by their subject; `ReadApproved`, `ReadRows` and `Search` are the
readers. `undisturbed` and `standing` are history: whether somebody else decided since a
request's read, and what the last undisturbed edit set.

`Graduation` joins export,
application, dump and sync. `GenPatches` describes a file by the anchors it has and
how often each of the script's marks is in it; `PanoPipeline` describes a directory
by whether the next phase can use it, and a picture by its encoding and its tag; `--redo`
removes a directory, then its staging directory, then those of the next phase, and may be
stopped between two of them or inside one, which leaves a part (`Remnants`).
`StampHold` counts time in ticks of two seconds.

A few models follow a behaviour only up to a named event, after which nothing is
claimed: `stray` in `PhotoFiles` (a post whose sender has given up opens a path
that a later job is using), `raced` in `BrowserUpload` (the row was written under a
context that acts on it), `twins` in `Transfers` (two acceptances looked for the
point of interest at once), `excused` in `Accounts` (two removals of administrators
overlapped, or one left), `past.gap` in `PanoPipeline` (the output of a phase was
removed and that of a later one stayed). Others, `spared` in `Accounts` and
`past.accepted`, `past.warned` and `past.torn` in `PanoPipeline`, excuse one outcome and
nothing else. These are the exceptions that the
properties state; the departures they stand for are in section 8.

The correspondence of every definition with the source is in `map` of
`PROJECT.json`.

### Faulty variants

Some operators, marked "Faulty variant" (`MatchingAny`, `FromCursor`, `BeforeByName`
and others), are plausible bugs of the definition that follows them. No action uses them.
Substituting one for its original makes TLC report the property it is listed with
under `mutants`, which shows that the property depends on that code.

## 4. Properties

Of the upload protocol:

- `CompletedWasServed`: a photo shown as uploaded was once processed by the server.
- `DeletedWasRemoved`: a photo given up as deleted was deleted on the server.
- `ServerIdOfSameFile`: a kept server id, and the id a task reports under, always
  names a row minted for the same content; a photo in "processing" has one.
- `ImplementsPromise`: every step is a step of `UploadPromise` or changes nothing
  it can see. In particular giving up is final and a claim appears only for a
  photo already served.
- `EveryPhotoSettles`: a captured photo ends uploaded or deleted.
- `QueueDrains`: a full worker queue does not stay full.
- `IInv`: the inductive invariant (section 6).

Of sessions, worker and jobs (run `progress`):

- `ReuseIsExplained`: a family is revoked for reuse, or a spent pair kept in the
  store, only after a rotation whose answer was lost.
- `StaleLoginIsCorrected`: a WebView that shows a login that native no longer has
  is corrected.
- `RunsOnce`: no job is in two places of the child, and none that was failed with
  the child runs again. `PoolAnswersEveryTask`: every photo that reaches the pool
  is answered.
- `BoredExitSparesWork`: an exit out of boredom takes down nothing that had begun to
  arrive. `WorkKeepsMachineAwake`: while tasks are pending, a pingback is held again
  and again.
- `FinishedStays`, `EveryJobEnds`: a finished job of the bench is not reopened by
  reports, and one whose messages are not lost for good ends.

Of the others (run `services`):

- `NotifiedOnce`, `CleanupSparesLive` (push): nobody is told twice within twelve
  hours; a stale answer does not remove the next registration.
- `HandedOutOnce` (logins): the tokens of a login leave the server once.
- `AnsweredIsApplied` (marks): success means that the mark was as asked at some
  moment of the request. `OneTip` (annotations): one current version.
  `AccountsSafe`: an active administrator remains (`AdminRemains`), and files outlive
  the row of their photo only for a cause the model names (`OrphanNeedsCause`): the photo
  was in processing when the deletion read it, or was authorized again after that, a tree
  of tiles was left without anybody being told, or an administrator's deletion went on
  after a failure. So a user's own deletion leaves nothing whose removal it saw fail.
- `RateHeld` (bucket), `RetryAfterHolds` (limits): no burst above the size, no rate
  above the refill; who waits as long as told finds the window free, and a lockout
  ended or less than a second from its end.
- `SentOnceWithinLimit` (Mapillary), `ReadersServed` (listings: `FeedsComplete`,
  `TimelineSlice`, `ListedOpens`): nothing twice, nothing left out unannounced.
- `CompletedHasFiles`, `FoundIsHidden` (renditions): a completed photo's files are
  there; what the detector finds is recorded, tiling and deduplication losing nothing,
  and what is recorded is hidden in each of them.
- `SameStory`, `OneSender`, `LastOverrideSent`, `StoredSessionLives` (the client's and
  the browser's other writers).
- `OneCopy`, `SyncCatchesUp` (graduation), `OneFetchPerTile`, `OnePointOfInterest`
  (bench).
- `DecisionsHold` (curation): after an edit during which nobody else decided, exactly
  its fact is approved until somebody decides again; what is put forward for graduation
  is that fact, pending exactly as long as the body says something else; whatever is
  decided, or reported as done, is stored and linked.
- `RunLeavesPatched`, `DeliversCurrent` (scripts): a run that reports success has
  done all of it, and nothing twice, or delivers a pyramid of the pictures as they are.
  Excepted are what was removed before something that stayed, a half-made directory that
  was accepted, pictures left out with a warning, and what a `--redo` left that was
  stopped inside a directory.

Where the code promises less than one would like, the property names the
exception ("unless two edits of one version overlapped"); the comment above each
definition says which.

What the code does *not* do although it is written somewhere, each a run whose
counterexample shows it:

- `EditReachesServer` (`docs/photo-upload-workflow.md:645`). A sync reads a photo in
  "processing"; the user edits it and a drain applies the edit ("pending", new
  version); the sync's answer "completed" is written by primary key. The edit is
  never uploaded.
- `DeletedRowKept` (the same, line 55). `authorize_upload` does not look at
  `deleted`: an edit of a photo deleted elsewhere replaces the deleted row by a
  live one.
- `AuditTrailVerifies` (the same, lines 497-502). A report verified before a new
  authorization of the row and written after it stores a signature that does not
  verify against the stored key and time.
- `FreshLoginSurvives` (`docs/auth-state-machine.md:94-112`). A refresh that is
  refused after a new login has been stored clears the new tokens.
- `EveryoneDueIsPicked` (docstring, `push_notifications.py:261-262`). The `NOT IN`
  list holds a NULL once an anonymous client has been notified, and then selects
  no user.
- `ConfidentAreHidden` (`detections.py:19`). A box of little confidence swallows a
  confident one that it contains, which is then neither recorded nor hidden.

## 5. Runs

| run | instance | shows | distinct states |
|---|---|---|---|
| `one_device` | 1 client with the page, 1 file, 2 ids, 2 versions, 2 seconds, 2 tasks, 1 disturbance | `CompletedWasServed`, `DeletedWasRemoved` | 1.2 M |
| `two_devices` | 2 clients, 1 file, 2 ids, 2 tasks, no disturbance | `ImplementsPromise` | 0.45 M |
| `two_photos` | 1 client, 2 files, 3 ids, 1 task, 2 disturbances | `IInv`, `ServerIdOfSameFile` | 0.5 M |
| `settles` | 1 client with the page, 1 file, 2 ids, 2 versions, 1 disturbance | `EveryPhotoSettles`, `QueueDrains` | 0.2 M |
| `progress` | sessions: 1 login, 1 rotation, 2 contexts, 2 open requests, 2 events; pool: 2 jobs, 2 threads, 1 fault; machine: 2 uploads, limit 1; bench: 2 workers | the second list of section 4 | 0.5 M |
| `services` | the twenty components below | the third list of section 4 | 1.04 M |
| `v_edit`, `v_deleted`, `v_audit`, `v_login`, `v_push`, `v_blur` | the smallest instance that shows the violation | the six claims above | - |

`services` and `progress` put components side by side that share no state: the
variable `which` chooses one, the others stay in an initial state (pinned to one
where there are several), so that the numbers of states add instead of
multiplying. Distinct states of each: curation 253 k, files 93 k, web sessions
80 k, graduation 77 k, listings 73 k, browser 70 k, renditions 67 k, OAuth 63 k,
panorama 65 k, accounts 48 k, push 32 k, annotations 32 k, patches 23 k, streams 19 k,
transfers 18 k, peaks 17 k, stamp 11 k, marks 2 k, limits 1.6 k, bucket 0.3 k; in
`progress`: sessions 494 k, bench 40 k, pool 13 k, machine 2 k. `InTurn` lets requests
that are alike begin in one order only, and `FilesInit` starts with one of the
pools that are alike: what is left out are copies of behaviours.

Why the bounds are enough. *Upload*: two ids let a file's row be replaced under
its own id and minted anew after a cleanup, or twice by concurrent requests; with
three, both files of `two_photos` are live while one has two rows. Two versions are
one edit, before or after any step of the upload. Two seconds tell a
re-authorization from the authorization it replaces; with one, both share a
second, the case in which a signature of the old upload still verifies. Two
tasks are two uploads of one photo racing to report; one makes "queue full"
ordinary. `NotifyAttempts = 2` has a first attempt, a retry and the giving up
after the last (the code's 5 adds repetitions of the middle). One disturbance is
any single failure at any point, two (in `two_photos`) a failure during the
recovery from another. Concurrency does not need one: everything that merely
interleaves is free. `Retriers`, the clients whose user presses the retry button,
is empty in `two_devices`, where nothing fails and no backoff is there to be
ignored, and in `two_photos`, whose question does not depend on when a photo is
retried. `Files`, `Ids` and equal `Clients` are interchangeable and are permuted in
safety runs; the liveness run uses no symmetry.

*The others*: a race needs two, so there are two of whatever races (logins,
polls, edits, appliers, acceptances, tabs' contexts, renderings, workers), and
three where the third tells being overtaken from waiting (mark requests, lookups
and fetches, photos of a feed). One rotation with two open requests is a spent
token presented beside its replacement; two events are a loss during the recovery
from another. Page size 1 makes every photo a page's last. A picture of 4 cells
under tiles of 3 with step 2 has a seam and a remainder, and two boxes contain each
other, overlap or touch. Two meanings and two requests let the edits of an annotation
overlap, disagree and return to what was said before. `BracketTimeout = 2`, a hold of 3 and `MaxTime = 5` ticks
let both brackets time out after the hold. Runs of the scripts are unbounded;
`Unstable` are the anchors a template may lack, one of them at a time; two
interventions by hand, or interruptions of a `--redo`, come at any point (`MaxHands = 2`:
something accepted half done, and then a removal that is stopped inside it); `--redo`
starts at the last phase or at the one whose picture carries a tag. A window is a second
of two ticks, and so is the first lockout: a login that fails in the middle of a second
is told of less than is left. One photo and two requests let it be authorized, posted,
recorded and authorized again around the reads and the commits of two deletions. The
proofs of section 6 remove the bounds for all safety properties.

The deadlock check is off where a run may stop because a bound is reached or the
work is done (`services`, `v_push`, `v_blur`, and the runs whose cfg says so).

**Fairness** is weak only. In `FairSpec` of the upload: *Drain*: WorkManager starts
the periodic drain again and again and a run goes on until it ends, each of its
network calls having a timeout. *Sync*: a scheduled sync job runs. *Tasks and
transactions*: a task ends, a report is answered, a transaction commits. *Time*: a
backoff or a staleness threshold is reached. None of it includes a disturbance, and
nothing a user does is owed. In `MCProgress`: threads, event loops, the supervisor
and the brokers of pool, machine and bench go on as long as they can (`Progress`: the
operating system schedules threads, the broker delivers); every machine's worker
pings the API again and again (a loop with a pause of ten seconds); and, of the
session, the reconciler that runs on every return to the app concludes, and so does a
logout that has begun. Neither an answer of the API nor
the network, neither a timeout nor spare memory, is owed. No strong
fairness is needed: no step competes for ever with another that disables it.

## 6. Proofs

Constants are arbitrary: any sets of clients, requests, photos, tabs or workers, any
limits and periods. The assumptions are the `ASSUME`s of the modules, which say no
more than that bounds are naturals (positive where the code divides or counts
by them), that null values are none of the others, and, where something is
counted, that sets are finite. TLC evaluates each of them in a run.

| module | theorems |
|---|---|
| `UploadProtocolProofs` | `Invariance` (`IInv`), `TypeCorrect` (`TypeOK`), `CompletedSafe`, `DeletedSafe`, `ServerIdSafe`, `Refinement` (`ImplementsPromise`) |
| `ProgressProofs` | `OnlyLossCostsTheSession` (`ReuseIsExplained`), `ProgressIsTyped` (`ProgressTypeOK`) |
| `ServicesProofs` | `ServicesAreTyped` (`ServicesTypeOK`) |
| `BrowserProofs` | `NeverTwoSenders` (`OneSender`), `LastOverride` (`LastOverrideSent`), `OnlyLateRequestsRevoke` (`StoredSessionLives`), `OneStampStory` (`SameStory`) |
| `WorkerProofs` | `NothingRunsTwice` (`RunsOnce`), `BoredExitIsHarmless` (`BoredExitSparesWork`), `CompletedIsStored` (`CompletedHasFiles`), `RecordTellsTheTruth`, `TilesSeeEverything`, `NothingIsOverlooked`, `FoundStaysHidden` (`FoundIsHidden`) |
| `BackendProofs` | `RateIsHeld` (`RateHeld`), `BroadcastOnce` (`NotifiedOnce`), `LiveRegistrationStays` (`CleanupSparesLive`), `ConflictsNeedRaces`, `TokensHandedOutOnce` (`HandedOutOnce`), `AdministratorRemains` and `OrphansHaveCauses`, which make up `AccountsAreSafe` (`AccountsSafe`), `SuccessIsApplied` (`AnsweredIsApplied`), `WaitingIsEnough` (`RetryAfterHolds`), `OneCurrentVersion` (`OneTip`), `SentWithinLimit` (`SentOnceWithinLimit`), `ReadersAreServed` (`ReadersServed`) |
| `BenchProofs` | `DoneHasItsArtifact`, `FinishedStaysFinished` (`FinishedStays`), `OnePoi` (`OnePointOfInterest`), `OneFetch` (`OneFetchPerTile`), `CopiedOnce` (`OneCopy`), `UndisturbedSync` (`SyncCatchesUp`), `DecisionsAreKept` (`DecisionsHold`), `CurationIsTyped` |
| `ToolProofs` | `SuccessIsCurrent` (`DeliversCurrent`), `RunsLeaveItPatched` (`RunLeavesPatched`) |

In parentheses is the property that a run checks. None of these properties is
inductive; each proof names an inductive invariant, shows that the initial states
satisfy it, that every action keeps it (one lemma or step per action), and that the
property follows. Theorems that state no property of a run are the parts and the
companions of one.

**Upload** (`IInv`). A photo becomes "completed" because a sync's answer says so, so
the invariant must speak of answers in flight; the answer is right because the id
the sync asked about names a row of the photo, so it must speak of ids in flight;
and that id came from a grant, held by a run or carried by a task, so it must speak
of those too. Hence its parts: `RowsInv` (a completed row's file was served, a
deleted one's removed), `RequestsInv`, `TasksInv` and `DrainInv` (whatever is in
flight carries an id of its own content), `JobsInv` and `PagesInv` (a status under
way tells of something that happened), `EditsInv` (room for the versions to come),
`PhotosInv` (the goal). A restored status is the delicate case: a busy or cancelled
run writes back "processing", which is right only because `DrainInv` remembers that
such a photo had a server id when it was taken and nothing ever clears it. What
keeps statements about the past true is `Grows`: a row's id stays bound to its
content, a file once served or removed stays so. The lemmas about server and worker
show that each of their steps satisfies `Grows`, and that `Grows` carries `ClientInv`
over; the lemmas before them show that each client step preserves `ClientInv`.
`Refinement` maps a report that is saved to `Serve`, a deletion to `Remove`, every
step that changes what a client shows to `Show`, and everything else to a stutter,
using `IInv` for the side conditions.

**Sessions** (`SessionInv`). The argument is about where a pair is. A pair that was
minted and is not stored yet is in one place, and nobody has presented it; a pair
that is presented was in the store, and only the holder of the mutex presents. So
a spent token can be presented only by who never heard of its replacement, and what
nobody heard of is on record. In the browser (`WebTokensInv`) the lock's holder takes
the part of the mutex's, and an abandoned request that arrives late is the one thing
it cannot exclude.

**Browser and stamp** (`BrowserInv`, `StampInv`). As long as the row was not written
under somebody who acts on it, "uploading" stands for exactly one context between its
claim and its outcome, and what that context read is current. The stamp's invariant
relates what the drain has read, what was sent and what the row says, by the time
that the hold still covers.

**Worker.** `PoolInv`: nothing is queued or runs for a task that was not submitted,
nothing is queued and runs at once, and a job that was failed with its child is nowhere
in a living one, or, while the supervisor is between failing and rebuilding, among those
it leaves out. `MachineInv`: from the signal on, only uploads that came after it are
under way. `FilesInv`: a path in a pool has one writer at most, and what a job relies on
or a record names is there, whole and of its authorization. `RendersInv`: a path shows
what its last writer hid, the last recorded job or a later one; `DetectionInv` carries
what tiling and `deduplicate_boxes` leave to the report. `TilesSeeEverything` is
arithmetic, for every picture, tile and step. That a dropped box lies within a kept one
is an argument by a least counterexample (`LeastOf`) in the order of the areas, since a
container may have been dropped itself for a larger one.

**API.** `BucketInv`: an exact bucket never holds less than what is on record and
the time not yet turned into tokens. `LockInv`: who is between selection and commit
holds the lock, and nobody selected has been notified since. `TokensInv`: no token on
record or sent to is newer than the device's, and one called stale never works again.
`NewcomerInv`: who was free to be created still is, unless an account was created
meanwhile. `HandoverInv`: the tokens of a login are named in one session, and once
read by the polls of it only. `AdminInv`: a request past its guard leaves
an administrator besides its target, unless it was overtaken. `FileInv`: a deletion under
way has, for each photo of its target, a reason to leave files of it, or the photo is
recorded for good with nothing being posted, and the deletion still has it to do, or has
removed its files, or will stop; a photo without a row has a reason, or no file and none
on the way. `MarkInv`: what a request has read and wants implies that the mark
was as asked. `WaitInv`: the advice covers what is left of the window, and of the lockout
all but less than a second.
`TipInv`: every chain has one last row, and an edit in flight holds the row it
supersedes. `StreamInv`: what was sent is a set, within the limit.

`ListingsInv` is the longest of them. A query's answer (`IsAnswer`) holds each photo
that qualifies once, in order. Of a feed with a cursor: each photo that has stayed
was shown once and is not behind the cursor, or was not shown and is behind it or
has the time of a page's last photo (`CursorKept`). Of the sitemap: while nothing
changes, a photo's rank, the number of photos before it, tells from the offset whether
it was shown (`OffsetKept`, by `RankIsPlace`). Of the timeline: each half is in order
on its side of the anchor, and what it leaves out lies beyond its far end
(`OlderKept`, `NewerKept`), so that the halves and the anchor put together leave no
hole (`SliceKept`).

**Bench.** `JobInv`: a final report that is filed has written its artifact.
`TransferInv`: as long as no two acceptances looked for it at once, the donor names at
most one point of interest and every clone names that one. `TileInv`: a task that runs,
or whose callback has not run, is the one in the registry. `GraduationInv`: while a
native is linked, its copies are at most one, untouched, and nobody applies it beside
them. `SyncInv`: what the sync has read, stamped and still to write adds up to the dump.
`CurationInv`: what a request is about is in the graphs it has passed (`Progressed`);
an edit since whose read nobody else decided has still to demote exactly what else is
approved (`OwnsDecisions`); what is read and up to date is one of the approved facts.

**Scripts.** `PanoInv` describes, phase by phase, what can be in the place of each
directory, remnants of removals that were stopped included, and that what is there
belongs to what is before it, up to a gap. `GenInv`
says of each insertion that it is there at most once, and exactly once behind the point
a run has reached, if the template has a place for it.

**Types.** `ProgressTypeOK` and `ServicesTypeOK` are not inductive either: a counter is
within its bound because of what else is counted. In `progress` three laws of
conservation carry them: of the tokens of a family (`RoomKept`: minted, or being minted
by a request that has checked), of the messages of a job (`MessagesBounded`: waiting, or
being worked on, at most those that were sent and redelivered), of the machine's
pingback threads (`ThreadsBounded`). In `services` (`AllTyped`) each component has its
own: a mark's request has read a whole row; a row of annotations that is written names a
chain (`Chained`); the walk that finds the head of a chain in the graduation never leaves
the rows (`HeadIsRow`, by a least step that would); a stream counts no more than its
limit; the ages of a window sum to no more than `MaxRequests`; an acceptance past the
look-up knows its point of interest (`KnowsPoi`); a run that writes has something to say
(`SaysSomething`); pictures, jobs and records of the renditions are whole (`RendersTyped`);
the walk of a reader is one over photos (`ListingsInv`, which is used here again, as is
`WebTokensInv`); the override's menu is open only while there is another version.

Some models were wrong, or more than they said, where a proof first failed: the gap
of the panorama pipeline counts staging directories and is remembered, since a
directory that was accepted later stays stale; the insertions of the patch script are
sets of marks and not a sequence, since an interrupted run leaves any of them; the
timeline's anchor must be one of the photos for its slice to be one; the bench's queue
is bounded by enqueues and redeliveries, not by workers; the boxes of older records lie
in a picture only from three cells on, which `Width` now says.

## 7. Checked but not proved

Liveness under fairness is out of the prover's reach and stays with TLC:
`EveryPhotoSettles`, `QueueDrains`, `StaleLoginIsCorrected`, `PoolAnswersEveryTask`,
`WorkKeepsMachineAwake`, `EveryJobEnds`. Every other property of a passing run has a
theorem. The six violations are counterexamples.

## 8. Departures without a run

Statements of a comment or a document that the models, or the reading for them, show
not to hold, or hazards that a property excepts. None has a run of its own.

*Upload.* `docs/photo-upload-workflow.md:399-400` lets the first of two devices proceed;
while a row is "authorized" a second device's request takes it over
(`user_routes.py:1645`) and the first device's report is refused. The delay of
`isEligibleNow` (`PhotoUploadLogic.kt:990`) shifts by the retry count without a bound on
it: the product overflows and the shift wraps at 64, against "a maximum of seven days".
Concurrent requests make two rows of one file. *Browser*: "uploading" and "processing"
have no staleness, against lines 358-380 of the same document; an override that is set
while a context uploads is overwritten; a stale status sync can fail a row that another
context uploads.

*Stamp.* The waits of the refiner follow one another (4 s and 4 s) under a hold of 6 s,
against `SimplePhotoDao.kt:141-145`; `inFlight` is read and written in two steps
(`StampRefiner.kt:124`, 132).

*Sessions.* After a lost answer a spent refresh token is presented again, and the family
is revoked; the browser retries with the same token after a timeout and revokes its own
session when the first request arrives late. The service worker's fallback to the token
it read earlier, and `storeTokens` after a logout or a new login, restore or overwrite a
pair.

*Accounts and annotations.* "Delete photo files from filesystem - must succeed before DB
deletion" (`user_routes.py:1439`), and still an account is deleted with files left behind:
a tree of tiles is removed with `ignore_errors=True` and counts as removed whatever is
left of it (`photos.py:47-49`); a photo whose sizes are not recorded yet counts as
deleted with nothing done (`photos.py:96-98`), although files of it may have been posted;
and files that arrive after the rows were read stay. `OrphanNeedsCause` excepts the three
by name. `delete_user` of an administrator ignores the number of files
it could not delete (`admin_routes.py:292-294`); `DELETE /user/delete` has no guard for
the last administrator; two removals at once leave none. Concurrent edits fork a chain,
the deletion of an account cuts chains, and the undo of an undo of a deletion makes a
live annotation without a body.

*Push, limits, cache.* "Try again in {remaining} seconds" (`rate_limiter.py:191`): what is
left of a lockout is cut by `int` (lines 170, 179, 188), so that who comes back exactly
then is refused again, and may be told to wait 0 seconds; `RetryAfterHolds` says that less
than a second is missing. One foreign key violation, of a registration deleted meanwhile,
fails a whole broadcast, and a crash between commit and send loses it. Waiters of the
token bucket that poll more often than a period starve (`mapillary_routes.py:83-94`).
Failed logins are forgotten after fifteen minutes, before a lockout of thirty ends.
`_is_bbox_completely_cached` tests the reverse of its docstring (`cache_service.py`).

*Listings.* Cursors by time alone skip photos with the time of a page's last one; the
sitemap's offsets have no tie-break; `get_user_photos` counts deleted photos in its
total; `anchor_index` is wrong when the anchor is not visible; more picks than
`max_photos` exceed the limit.

*Worker.* Serial recovery counts jobs that are queued again all at once
(`worker_processing.py:90-92` against `_rebuild_queues`, line 449). Latitude 0 is refused
as missing; a bearing out of range loses the coordinates with it; some failures of
exiftool, and errors of JSON in the child, are retried although they cannot succeed.
Renditions of an earlier job that a later, fast one does not list are never deleted.

*Bench.* A late partial report overwrites a finished artifact (`terrain.py:137-138`); a
reconstruction that is enqueued again keeps the paths of its earlier artifacts and its
packed cloud; a crash between commit and send loses a job. The docstring of `set_label`
says that geocoding follows the approved label, and `_labels_from_graph` reads any that is
not rejected (`LookupFollows` excepts a proposal). Edits that overlap leave two approved
facts, or none (`DecisionsHold` excepts them). `_calibration_for` groups facts that are
loaded and not yet linked under a run without a name; the draft of a calibration is
dropped and loaded in two calls, so saves that overlap are not "last write wins". The
callback of a failed tile task removes the
task that replaced it. Concurrent acceptances mint two points of interest, a failed one
leaves a clone that its retry doubles, and accepting again after the clone was deleted
updates no row. In the graduation, superseding rows do not copy `source_annotation_id`,
so that a later application makes a second copy or brings a deleted one back; what was
previewed is not bound to what is applied; the CLI's sync takes no lock.

*Scripts.* The patch script searches for `com.google.gms.google-services` and inserts
`com.google.gms:google-services`, so every run adds the classpath again ("Idempotent
script", line 5; the one mark excepted in `RunLeavesPatched`); it reports success when
anchors were missing, writes files in place, and leaves both schemes and a stale
`google-services.json` when the variant is switched. The tweak documented in
`pipeline.py:36-41` (remove a phase's directory and run again) leaves later directories,
which the run keeps; so does a `--redo` that is interrupted between two removals. One that
is stopped inside a directory (`shutil.rmtree`, line 449) leaves a part of it under its
final name, which the next run skips because it exists (line 101) and reports success:
the rename that guards what is made (lines 5-9) does not guard what is removed.
`_fused` leaves out the pictures at the end that do not fill a stack, or all of
them, with a warning only (lines 210-217). `DeliversCurrent` excepts these by name.

## 9. Not modelled

The map names the lines that are modelled: three tenths of the implementation.
What is left is mostly scripts, vision, geometry and declarative code.

*Within the components modelled*: runs of the drain for one photo id, the arithmetic of
its backoff, the expiry of the upload JWT; tracking data, ratings and filters on the
server; `cleanup_orphaned_photos` is modelled although only tests call it, since it is
an endpoint that rewrites rows. The writes of one batch of answers to several photos
are one step: each touches its own row. Phase updates and the orderly shutdown of the
pool, `/ready` and the metrics. Browsers without Web Locks, the expiry of refresh tokens
there, the clean-up of captures in IndexedDB, the photo worker of the frontend. The
source rate gate. Password registration, profiles, moderators' listings, visits of share
links, single inserts. `AsyncRateLimiter`, which no route uses. Spatial queries and
the shape of answers; rectangles of transfers, what is in matching results, overlays and
drafts, the fit of a calibration. Transfers exist from the start, and are accepted as the UI does it;
so are the decisions of `Curate`, which are about facts that a page shows, where the
endpoint (`facts.py:22-28`) checks only the prefix of what it is given. What the patch script replaces
(`patch-android-gen-files.py:921-939`): versions of Kotlin, and the KAPT block, whose
`schemaLocation` overwrites the one that is checked in; `GenPatches` has its insertions. An id twice in one answer of the upstream of
`MapillaryStream`. Of two hazards only a half is covered: that first logins of one name
get two names rests on a theorem alone (`ConflictsNeedRaces`), and the cap on the workers
of a machine has no run. In
`Listings` the table changes once during a walk (in the run; the theorem has any number),
all photos are located and in the box, and there is at most one pick. Photos are rows of
cells, the detector is a function of the file, and a retried job repeats its parameters.
Fast jobs are left out.

*Components*: map culling and streaming on the client and the sensors are geometry and
filters over real numbers and keep no state between calls that an order could spoil;
web frontend and Tauri shell are interface and platform glue; exports and signatures of
packages, reconstruction and rendering themselves are computations over tables and
pixels.
