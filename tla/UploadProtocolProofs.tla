------------------------- MODULE UploadProtocolProofs -------------------------
(***************************************************************************)
(* IInv is an inductive invariant of UploadProtocol, for any number of     *)
(* clients, photos, ids, versions and disturbances; the safety properties  *)
(* follow.  A step of the protocol is one of the server's (or none), one of *)
(* the client's (or none) and one of the worker's (or none): the lemmas    *)
(* about the client, the server and the worker are put together at the     *)
(* end, action by action, and the protocol is shown to implement           *)
(* UploadPromise.                                                          *)
(***************************************************************************)
EXTENDS UploadInvariant, TLAPS

-----------------------------------------------------------------------------
(* Every operation of the client keeps its part of the invariant, under    *)
(* one assumption about the rest of the system: Grows.  Whatever the server *)
(* did in the same step, it took nothing back and rebound no id, so an old *)
(* answer still speaks of the right photo and of something that happened.  *)
(*                                                                         *)
(* First what a write to each table must show, then one lemma per operation.*)

\* No photo forgets its server id.
SidsKept ==
    \A c \in Clients, f \in Files :
        local[c][f].sid # None => local'[c][f].sid # None

-----------------------------------------------------------------------------
(* The client's tables                                                     *)

\* A write to one photo keeps the photos' invariant if the new row is sound:
\* the row may claim only what the history holds, and an id of its content.
LEMMA PhotoWrite ==
    ASSUME ClientInv, Grows, UNCHANGED edits,
           NEW c \in Clients, NEW f \in Files, NEW q \in LocalRow, SetPhoto(c, f, q),
           q.version = local[c][f].version,
           q.status = "completed" => best[f] > 0,
           q.deleted => f \in removed,
           q.sid # None => rows'[q.sid].file = f,
           q.status = "processing" => q.sid # None,
           local[c][f].sid # None => q.sid # None
    PROVE  /\ local' \in [Clients -> [Files -> LocalRow]]
           /\ edits' \in [Clients -> [Files -> Nat]]
           /\ EditsInv' /\ PhotosInv' /\ SidsKept
<1>1. local \in [Clients -> [Files -> LocalRow]]
  BY DEF ClientInv, ClientTypeOK
<1>2. local' \in [Clients -> [Files -> LocalRow]]
  BY <1>1 DEF SetPhoto
<1>3. \A d \in Clients, g \in Files :
         local'[d][g] = IF d = c /\ g = f THEN q ELSE local[d][g]
  BY <1>1 DEF SetPhoto
<1>4. EditsInv'
  BY <1>3 DEF ClientInv, EditsInv
<1>5. \A d \in Clients, g \in Files : local[d][g].sid \in Ids \cup {None}
  BY <1>1 DEF LocalRow
<1>6. PhotosInv'
  BY <1>3, <1>5, ApiAssumption DEF ClientInv, PhotosInv, Grows
<1>7. SidsKept
  BY <1>3 DEF SidsKept
<1>8. QED
  BY <1>2, <1>4, <1>6, <1>7 DEF ClientInv, ClientTypeOK

LEMMA PhotosKept ==
    ASSUME ClientInv, Grows, UNCHANGED <<local, edits>>
    PROVE  /\ local' \in [Clients -> [Files -> LocalRow]]
           /\ edits' \in [Clients -> [Files -> Nat]]
           /\ EditsInv' /\ PhotosInv' /\ SidsKept
<1>1. local \in [Clients -> [Files -> LocalRow]]
  BY DEF ClientInv, ClientTypeOK
<1>2. \A d \in Clients, g \in Files : local[d][g].sid \in Ids \cup {None}
  BY <1>1 DEF LocalRow
<1>3. PhotosInv'
  BY <1>2, ApiAssumption DEF ClientInv, PhotosInv, Grows
<1>4. QED
  BY <1>3 DEF ClientInv, ClientTypeOK, EditsInv, SidsKept

\* A run that goes on soundly keeps the runs' invariant.
LEMMA RunWrite ==
    ASSUME ClientInv, Grows, SidsKept,
           NEW c \in Clients, NEW r \in DrainState, SetDrain(c, r),
           r.pc \notin {"idle", "next"} =>
              /\ r.file \in Files
              /\ r.prior \in Retryable
              /\ r.prior = "processing" => local[c][r.file].sid # None,
           r.pc = "authorizing" => r.asked \in AuthRequest /\ r.asked.file = r.file
                                              /\ r.asked.client = c,
           r.pc \in {"upload", "sent"} =>
              /\ r.grant \in Grant
              /\ r.grant.file = r.file
              /\ rows'[r.grant.id].file = r.file
    PROVE  drain' \in [Clients -> DrainState] /\ DrainInv'
<1>1. drain \in [Clients -> DrainState]
  BY DEF ClientInv, ClientTypeOK
<1>2. drain' \in [Clients -> DrainState]
  BY <1>1 DEF SetDrain
<1>3. \A d \in Clients : drain'[d] = IF d = c THEN r ELSE drain[d]
  BY <1>1 DEF SetDrain
<1>4. \A d \in Clients : drain[d].pc \in {"upload", "sent"} =>
          /\ drain[d].grant.id \in Ids
          /\ drain[d].file \in Files
  BY DEF ClientInv, DrainInv, Grant
<1>5. DrainInv'
  BY <1>3, <1>4, ApiAssumption DEF ClientInv, DrainInv, Grows, SidsKept
<1>6. QED
  BY <1>2, <1>5

LEMMA RunsKept ==
    ASSUME ClientInv, Grows, SidsKept, UNCHANGED drain
    PROVE  drain' \in [Clients -> DrainState] /\ DrainInv'
<1>1. \A d \in Clients : drain[d].pc \in {"upload", "sent"} =>
          /\ drain[d].grant.id \in Ids
          /\ drain[d].file \in Files
  BY DEF ClientInv, DrainInv, Grant
<1>2. DrainInv'
  BY <1>1, ApiAssumption DEF ClientInv, DrainInv, Grows, SidsKept
<1>3. QED
  BY <1>2 DEF ClientInv, ClientTypeOK

\* A sync job whose questions and answers are sound keeps the answers'.
LEMMA JobWrite ==
    ASSUME ApiTypeOK, ClientInv, Grows,
           NEW c \in Clients, NEW j \in SyncState, SetSync(c, j),
           \A f \in Files :
              /\ j.asked[f] # None => rows[j.asked[f]].file = f
              /\ j.answer[f] = "completed" => best[f] > 0
              /\ j.answer[f] = "deleted" => f \in removed
    PROVE  sync' \in [Clients -> SyncState] /\ JobsInv'
<1>1. sync \in [Clients -> SyncState]
  BY DEF ClientInv, ClientTypeOK
<1>2. sync' \in [Clients -> SyncState]
  BY <1>1 DEF SetSync
<1>3. \A d \in Clients : sync'[d] = IF d = c THEN j ELSE sync[d]
  BY <1>1 DEF SetSync
<1>4. \A d \in Clients, f \in Files :
          sync[d].asked[f] \in Ids \cup {None} /\ j.asked[f] \in Ids \cup {None}
  BY <1>1 DEF SyncState
<1>5. JobsInv'
  BY <1>3, <1>4, ApiAssumption DEF ClientInv, AnswerInv, JobsInv, Grows
<1>6. QED
  BY <1>2, <1>5

LEMMA JobsKept ==
    ASSUME ApiTypeOK, ClientInv, Grows, UNCHANGED sync
    PROVE  sync' \in [Clients -> SyncState] /\ JobsInv'
<1>1. \A d \in Clients, f \in Files : sync[d].asked[f] \in Ids \cup {None}
  BY DEF ClientInv, ClientTypeOK, SyncState
<1>2. QED
  BY <1>1, ApiAssumption DEF ClientInv, ClientTypeOK, AnswerInv, JobsInv, Grows

\* So does a page whose statuses are.
LEMMA PageWrite ==
    ASSUME ApiTypeOK, ClientInv, Grows,
           NEW c \in Clients, NEW g \in [Ids -> Answer], page' = [page EXCEPT ![c] = g],
           \A i \in Ids :
              /\ g[i] # "deleted"
              /\ g[i] = "completed" => rows[i].file # None /\ best[rows[i].file] > 0
    PROVE  page' \in [Clients -> [Ids -> Answer]] /\ PagesInv'
<1>1. page \in [Clients -> [Ids -> Answer]]
  BY DEF ClientInv, ClientTypeOK
<1>2. \A d \in Clients : page'[d] = IF d = c THEN g ELSE page[d]
  BY <1>1
<1>3. \A i \in Ids : rows[i].file \in Files \cup {None}
  BY DEF ApiTypeOK, Row
<1>4. PagesInv'
  BY <1>2, <1>3 DEF ClientInv, AnswerInv, PagesInv, Grows
<1>5. QED
  BY <1>1, <1>4

LEMMA PagesKept ==
    ASSUME ApiTypeOK, ClientInv, Grows, UNCHANGED page
    PROVE  page' \in [Clients -> [Ids -> Answer]] /\ PagesInv'
<1>1. \A i \in Ids : rows[i].file \in Files \cup {None}
  BY DEF ApiTypeOK, Row
<1>2. QED
  BY <1>1 DEF ClientInv, ClientTypeOK, AnswerInv, PagesInv, Grows

LEMMA AnswersKept ==
    ASSUME ApiTypeOK, ClientInv, Grows, UNCHANGED <<sync, page>>
    PROVE  /\ sync' \in [Clients -> SyncState] /\ JobsInv'
           /\ page' \in [Clients -> [Ids -> Answer]] /\ PagesInv'
  BY JobsKept, PagesKept

-----------------------------------------------------------------------------
(* The operations of the client                                            *)

\* What the operations start from, expanded once.
LEMMA ClientParts ==
    ASSUME ClientInv, NEW c \in Clients, NEW f \in Files
    PROVE  /\ local[c][f] \in LocalRow
           /\ drain[c] \in DrainState
           /\ sync[c] \in SyncState
           /\ local[c][f].status = "completed" => best[f] > 0
           /\ local[c][f].deleted => f \in removed
           /\ local[c][f].status = "processing" => local[c][f].sid # None
<1>1. /\ local \in [Clients -> [Files -> LocalRow]]
      /\ drain \in [Clients -> DrainState]
      /\ sync \in [Clients -> SyncState]
  BY DEF ClientInv, ClientTypeOK
<1>2. QED
  BY <1>1 DEF ClientInv, PhotosInv

\* The id a photo has stays good.
LEMMA SidGood ==
    ASSUME ClientInv, Grows, NEW c \in Clients, NEW f \in Files
    PROVE  local[c][f].sid # None => rows'[local[c][f].sid].file = f
<1>1. local[c][f] \in LocalRow
  BY ClientParts
<1>2. local[c][f].sid \in Ids \cup {None}
  BY <1>1 DEF LocalRow
<1>3. QED
  BY <1>2, ApiAssumption DEF ClientInv, PhotosInv, Grows

\* Rows that differ in their status or age only.
SameButStatus(p, q) ==
    q.sid = p.sid /\ q.deleted = p.deleted /\ q.version = p.version

LEMMA StatusWrite ==
    ASSUME ClientInv, Grows, UNCHANGED edits,
           NEW c \in Clients, NEW f \in Files, NEW q \in LocalRow,
           SetPhoto(c, f, q),
           SameButStatus(local[c][f], q),
           q.status = "completed" => best[f] > 0,
           q.status = "processing" => local[c][f].sid # None
    PROVE  /\ local' \in [Clients -> [Files -> LocalRow]]
           /\ edits' \in [Clients -> [Files -> Nat]]
           /\ EditsInv' /\ PhotosInv' /\ SidsKept
<1>1. /\ q.deleted => f \in removed
      /\ q.sid # None => rows'[q.sid].file = f
      /\ q.status = "processing" => q.sid # None
      /\ local[c][f].sid # None => q.sid # None
  BY ClientParts, SidGood DEF SameButStatus
<1>2. QED
  BY <1>1, PhotoWrite DEF SameButStatus

\* The run is over, or goes on to the next photo: nothing is in hand.
LEMMA RunLetsGo ==
    ASSUME ClientInv, Grows, SidsKept, NEW c \in Clients,
           SetDrain(c, NoDrain) \/ Continue(c)
               \/ \E manual \in BOOLEAN : SetDrain(c, [NoDrain EXCEPT !.pc = "next", !.manual = manual])
    PROVE  drain' \in [Clients -> DrainState] /\ DrainInv'
<1>1. /\ NoDrain \in DrainState
      /\ NoDrain.pc = "idle"
  BY DEF NoDrain, DrainState, LocalStatus
<1>2. \A sn \in SUBSET Files, m \in BOOLEAN :
          /\ [NoDrain EXCEPT !.pc = "next", !.seen = sn, !.manual = m] \in DrainState
          /\ [NoDrain EXCEPT !.pc = "next", !.seen = sn, !.manual = m].pc = "next"
          /\ [NoDrain EXCEPT !.pc = "next", !.manual = m] \in DrainState
          /\ [NoDrain EXCEPT !.pc = "next", !.manual = m].pc = "next"
  BY <1>1 DEF NoDrain, DrainState
<1>3. drain[c].seen \in SUBSET Files /\ drain[c].manual \in BOOLEAN
  BY DEF ClientInv, ClientTypeOK, DrainState
<1>4. CASE SetDrain(c, NoDrain)
  BY <1>1, <1>4, RunWrite
<1>5. CASE Continue(c)
  <2> DEFINE r == [NoDrain EXCEPT !.pc = "next", !.seen = drain[c].seen,
                                  !.manual = drain[c].manual]
  <2>1. r \in DrainState /\ r.pc = "next" /\ SetDrain(c, r)
    BY <1>2, <1>3, <1>5 DEF Continue
  <2> HIDE DEF r
  <2>2. QED
    BY <2>1, RunWrite
<1>6. ASSUME NEW m \in BOOLEAN, SetDrain(c, [NoDrain EXCEPT !.pc = "next", !.manual = m])
      PROVE  drain' \in [Clients -> DrainState] /\ DrainInv'
  <2> DEFINE r == [NoDrain EXCEPT !.pc = "next", !.manual = m]
  <2>1. r \in DrainState /\ r.pc = "next" /\ SetDrain(c, r)
    BY <1>2, <1>6
  <2> HIDE DEF r
  <2>2. QED
    BY <2>1, RunWrite
<1>7. QED
  BY <1>4, <1>5, <1>6

\* What an operation of client c has to show to keep ClientInv.
LEMMA ClientSteps ==
    ASSUME ClientInv,
           local' \in [Clients -> [Files -> LocalRow]],
           edits' \in [Clients -> [Files -> Nat]],
           EditsInv', PhotosInv',
           drain' \in [Clients -> DrainState], DrainInv',
           sync' \in [Clients -> SyncState], JobsInv',
           page' \in [Clients -> [Ids -> Answer]], PagesInv'
    PROVE  ClientInv'
  BY DEF ClientInv, ClientTypeOK, AnswerInv

LEMMA CaptureKeeps ==
    ASSUME ApiTypeOK, ClientInv, Grows,
           NEW c \in Clients, NEW f \in Files, Capture(c, f)
    PROVE  ClientInv'
<1> DEFINE q == [local[c][f] EXCEPT !.status = "pending"]
<1>1. q \in LocalRow /\ q.status = "pending" /\ SameButStatus(local[c][f], q)
  BY ClientParts DEF LocalRow, LocalStatus, SameButStatus
<1>2. SetPhoto(c, f, q) /\ UNCHANGED <<edits, drain, sync, page>>
  BY DEF Capture
<1> HIDE DEF q
<1>3. QED
  BY <1>1, <1>2, StatusWrite, RunsKept, AnswersKept, ClientSteps

LEMMA AgeKeeps ==
    ASSUME ApiTypeOK, ClientInv, Grows,
           NEW c \in Clients, NEW f \in Files, Age(c, f)
    PROVE  ClientInv'
<1> DEFINE q == [local[c][f] EXCEPT !.aged = TRUE]
<1>1. q \in LocalRow /\ q.status = local[c][f].status /\ SameButStatus(local[c][f], q)
  BY ClientParts DEF LocalRow, SameButStatus
<1>2. SetPhoto(c, f, q) /\ UNCHANGED <<edits, drain, sync, page>>
  BY DEF Age
<1> HIDE DEF q
<1>3. QED
  BY <1>1, <1>2, ClientParts, StatusWrite, RunsKept, AnswersKept, ClientSteps

\* One more edit still leaves room for its version.
LEMMA CreateEditKeeps ==
    ASSUME ApiTypeOK, ClientInv, Grows,
           NEW c \in Clients, NEW f \in Files, CreateEdit(c, f)
    PROVE  ClientInv'
<1>1. edits \in [Clients -> [Files -> Nat]] /\ \A d \in Clients, g \in Files : local[d][g].version \in Nat
  BY DEF ClientInv, ClientTypeOK, LocalRow, Versions
<1>2. edits' \in [Clients -> [Files -> Nat]]
  BY <1>1 DEF CreateEdit
<1>3. \A d \in Clients, g \in Files :
         edits'[d][g] = IF d = c /\ g = f THEN edits[d][g] + 1 ELSE edits[d][g]
  BY <1>1 DEF CreateEdit
<1>4. UNCHANGED <<local, drain, sync, page>> /\ local[c][f].version + edits[c][f] < MaxVersion
  BY DEF CreateEdit
<1>5. EditsInv'
  BY <1>1, <1>3, <1>4, ApiAssumption DEF ClientInv, EditsInv
<1>6. \A d \in Clients, g \in Files : local[d][g] \in LocalRow
  BY ClientParts
<1>7. PhotosInv'
  BY <1>4, <1>6, ApiAssumption DEF ClientInv, PhotosInv, Grows, LocalRow
<1>8. SidsKept
  BY <1>4 DEF SidsKept
<1>9. QED
  BY <1>2, <1>4, <1>5, <1>7, <1>8, RunsKept, AnswersKept, ClientSteps DEF ClientInv, ClientTypeOK

\* Starting a run applies the edits: versions rise within the bound, and an
\* edited photo, completed or not, is pending again.
LEMMA StartDrainKeeps ==
    ASSUME ApiTypeOK, ClientInv, Grows,
           NEW c \in Clients, NEW m \in BOOLEAN, StartDrain(c, m)
    PROVE  ClientInv'
<1>1. /\ local \in [Clients -> [Files -> LocalRow]]
      /\ edits \in [Clients -> [Files -> Nat]]
  BY DEF ClientInv, ClientTypeOK
<1>2. \A f \in Files :
         /\ Edited(c)[f] \in LocalRow
         /\ Edited(c)[f].sid = local[c][f].sid
         /\ Edited(c)[f].deleted = local[c][f].deleted
         /\ Edited(c)[f].version = local[c][f].version + edits[c][f]
         /\ Edited(c)[f].status \in {local[c][f].status, "pending"}
  <2> SUFFICES ASSUME NEW f \in Files
               PROVE  /\ Edited(c)[f] \in LocalRow
                      /\ Edited(c)[f].sid = local[c][f].sid
                      /\ Edited(c)[f].deleted = local[c][f].deleted
                      /\ Edited(c)[f].version = local[c][f].version + edits[c][f]
                      /\ Edited(c)[f].status \in {local[c][f].status, "pending"}
    OBVIOUS
  <2> DEFINE p == local[c][f]
             q == [p EXCEPT !.status = "pending", !.version = @ + edits[c][f]]
  <2>1. p \in LocalRow /\ edits[c][f] \in Nat /\ p.version \in 1 .. MaxVersion
    BY <1>1 DEF LocalRow, Versions
  <2>2. p.version + edits[c][f] \in Versions
    BY <2>1, ApiAssumption DEF ClientInv, EditsInv, Versions
  <2>3. /\ q \in LocalRow /\ q.sid = p.sid /\ q.deleted = p.deleted
        /\ q.version = p.version + edits[c][f] /\ q.status = "pending"
    BY <2>1, <2>2 DEF LocalRow, LocalStatus
  <2>4. Edited(c)[f] = IF edits[c][f] = 0 THEN p ELSE q
    BY DEF Edited
  <2> HIDE DEF p, q
  <2>5. QED
    BY <2>1, <2>3, <2>4 DEF p
<1>3. local' = [local EXCEPT ![c] = Edited(c)]
  BY DEF StartDrain
<1>4. Edited(c) \in [Files -> LocalRow]
  BY <1>2 DEF Edited
<1>5. /\ local' \in [Clients -> [Files -> LocalRow]]
      /\ \A d \in Clients : local'[d] = IF d = c THEN Edited(c) ELSE local[d]
  BY <1>1, <1>3, <1>4
<1>6. /\ edits' \in [Clients -> [Files -> Nat]]
      /\ \A d \in Clients, g \in Files : edits'[d][g] = IF d = c THEN 0 ELSE edits[d][g]
  BY <1>1 DEF StartDrain
<1>7. \A d \in Clients, g \in Files : local[d][g].sid \in Ids \cup {None}
  BY <1>1 DEF LocalRow
<1>8. PhotosInv' /\ SidsKept
  BY <1>2, <1>5, <1>7, ApiAssumption DEF ClientInv, PhotosInv, Grows, SidsKept
<1>9. \A d \in Clients, g \in Files : local[d][g].version \in Nat /\ edits[d][g] \in Nat
  BY <1>1 DEF LocalRow, Versions
<1>10. EditsInv'
  BY <1>2, <1>5, <1>6, <1>9, ApiAssumption DEF ClientInv, EditsInv
<1>11. drain' \in [Clients -> DrainState] /\ DrainInv'
  BY <1>8, RunLetsGo DEF StartDrain
<1>12. UNCHANGED <<sync, page>>
  BY DEF StartDrain
<1>13. QED
  BY <1>5, <1>6, <1>8, <1>10, <1>11, <1>12, AnswersKept, ClientSteps

\* The run in hand of client c, as the invariant knows it.
LEMMA InHandKnown ==
    ASSUME ClientInv, NEW c \in Clients, drain[c].pc \notin {"idle", "next"}
    PROVE  /\ drain[c] \in DrainState
           /\ drain[c].file \in Files
           /\ InHand(c) = local[c][drain[c].file]
           /\ InHand(c) \in LocalRow
           /\ drain[c].prior \in Retryable
           /\ drain[c].prior = "processing" => InHand(c).sid # None
  BY ClientParts DEF ClientInv, DrainInv, InHand

LEMMA SkipBackoffKeeps ==
    ASSUME ApiTypeOK, ClientInv, Grows,
           NEW c \in Clients, NEW f \in Files, SkipBackoff(c, f)
    PROVE  ClientInv'
<1> DEFINE r == [drain[c] EXCEPT !.seen = @ \cup {f}]
<1>1. r \in DrainState /\ r.pc = "next"
  BY ClientParts DEF DrainState, SkipBackoff, IsNext
<1>2. SetDrain(c, r) /\ UNCHANGED <<local, edits, sync, page>>
  BY DEF SkipBackoff
<1> HIDE DEF r
<1>3. QED
  BY <1>1, <1>2, PhotosKept, RunWrite, AnswersKept, ClientSteps

LEMMA RejectInvalidKeeps ==
    ASSUME ApiTypeOK, ClientInv, Grows,
           NEW c \in Clients, NEW f \in Files, RejectInvalid(c, f)
    PROVE  ClientInv'
<1> DEFINE r == [drain[c] EXCEPT !.seen = @ \cup {f}]
           q == Failed(local[c][f])
<1>1. r \in DrainState /\ r.pc = "next"
  BY ClientParts DEF DrainState, RejectInvalid, IsNext
<1>2. q \in LocalRow /\ q.status = "failed" /\ SameButStatus(local[c][f], q)
  BY ClientParts DEF Failed, LocalRow, LocalStatus, SameButStatus
<1>3. SetDrain(c, r) /\ SetPhoto(c, f, q) /\ UNCHANGED <<edits, sync, page>>
  BY DEF RejectInvalid
<1> HIDE DEF r, q
<1>4. QED
  BY <1>1, <1>2, <1>3, StatusWrite, RunWrite, AnswersKept, ClientSteps

\* What a run takes in hand was a candidate: its status is worth restoring.
LEMMA TakePhotoKeeps ==
    ASSUME ApiTypeOK, ClientInv, Grows,
           NEW c \in Clients, NEW f \in Files, TakePhoto(c, f)
    PROVE  ClientInv'
<1> DEFINE st == local[c][f].status
           r  == [drain[c] EXCEPT !.pc = "authorize", !.file = f, !.prior = st,
                                  !.seen = @ \cup {f}]
           q  == [local[c][f] EXCEPT !.status = "uploading"]
<1>1. st \in Retryable /\ st \in LocalStatus
  BY DEF TakePhoto, IsNext, Candidate, Retryable, LocalStatus
<1>2. st = "processing" => local[c][f].sid # None
  BY ClientParts
<1>3. r \in DrainState /\ r.pc = "authorize" /\ r.file = f /\ r.prior = st
  BY <1>1, ClientParts DEF DrainState
<1>4. q \in LocalRow /\ q.status = "uploading" /\ SameButStatus(local[c][f], q)
  BY ClientParts DEF LocalRow, LocalStatus, SameButStatus
<1>5. SetDrain(c, r) /\ SetPhoto(c, f, q) /\ UNCHANGED <<edits, sync, page>>
  BY DEF TakePhoto
<1> HIDE DEF r, q, st
<1>6. /\ local' \in [Clients -> [Files -> LocalRow]]
      /\ edits' \in [Clients -> [Files -> Nat]]
      /\ EditsInv' /\ PhotosInv' /\ SidsKept
  BY <1>4, <1>5, StatusWrite
<1>7. drain' \in [Clients -> DrainState] /\ DrainInv'
  BY <1>1, <1>2, <1>3, <1>5, <1>6, RunWrite
<1>8. QED
  BY <1>5, <1>6, <1>7, AnswersKept, ClientSteps

\* Scheduling a sync asks nothing and answers nothing yet.
LEMMA ScheduleKeeps ==
    ASSUME ApiTypeOK, ClientInv, Grows,
           NEW c \in Clients, NEW files, ScheduleSync(c, files)
    PROVE  sync' \in [Clients -> SyncState] /\ JobsInv'
<1> DEFINE j == [sync[c] EXCEPT !.due = @ \/ files # {}]
<1>1. j \in SyncState /\ j.asked = sync[c].asked /\ j.answer = sync[c].answer
  BY ClientParts DEF SyncState, ClientInv, ClientTypeOK
<1>2. SetSync(c, j)
  BY DEF ScheduleSync
<1> HIDE DEF j
<1>3. \A f \in Files :
          /\ j.asked[f] # None => rows[j.asked[f]].file = f
          /\ j.answer[f] = "completed" => best[f] > 0
          /\ j.answer[f] = "deleted" => f \in removed
  BY <1>1 DEF ClientInv, AnswerInv, JobsInv
<1>4. QED
  BY <1>1, <1>2, <1>3, JobWrite

LEMMA EndDrainKeeps ==
    ASSUME ApiTypeOK, ClientInv, Grows, NEW c \in Clients, EndDrain(c)
    PROVE  ClientInv'
<1>1. SetDrain(c, NoDrain) /\ UNCHANGED <<local, edits, page>>
  BY DEF EndDrain
<1>2. sync' \in [Clients -> SyncState] /\ JobsInv'
  BY ScheduleKeeps DEF EndDrain
<1>3. QED
  BY <1>1, <1>2, PagesKept, PhotosKept, RunLetsGo, ClientSteps

LEMMA FailPhotoKeeps ==
    ASSUME ApiTypeOK, ClientInv, Grows, NEW c \in Clients,
           drain[c].pc \notin {"idle", "next"}, FailPhoto(c)
    PROVE  ClientInv'
<1> DEFINE q == Failed(InHand(c))
<1>1. q \in LocalRow /\ q.status = "failed" /\ SameButStatus(InHand(c), q)
  BY InHandKnown DEF Failed, LocalRow, LocalStatus, SameButStatus
<1>2. SetPhoto(c, drain[c].file, q) /\ Continue(c) /\ UNCHANGED <<edits, sync, page>>
  BY DEF FailPhoto, SetInHand
<1> HIDE DEF q
<1>3. /\ local' \in [Clients -> [Files -> LocalRow]]
      /\ edits' \in [Clients -> [Files -> Nat]]
      /\ EditsInv' /\ PhotosInv' /\ SidsKept
  BY <1>1, <1>2, InHandKnown, StatusWrite
<1>4. QED
  BY <1>2, <1>3, RunLetsGo, AnswersKept, ClientSteps

LEMMA DuplicateKeeps ==
    ASSUME ApiTypeOK, ClientInv, Grows, NEW c \in Clients,
           drain[c].pc \notin {"idle", "next"}, best[drain[c].file] > 0,
           DuplicatePhoto(c)
    PROVE  ClientInv'
<1> DEFINE q == [InHand(c) EXCEPT !.status = "completed"]
<1>1. q \in LocalRow /\ q.status = "completed" /\ SameButStatus(InHand(c), q)
  BY InHandKnown DEF LocalRow, LocalStatus, SameButStatus
<1>2. SetPhoto(c, drain[c].file, q) /\ Continue(c) /\ UNCHANGED <<edits, sync, page>>
  BY DEF DuplicatePhoto, SetInHand
<1> HIDE DEF q
<1>3. /\ local' \in [Clients -> [Files -> LocalRow]]
      /\ edits' \in [Clients -> [Files -> Nat]]
      /\ EditsInv' /\ PhotosInv' /\ SidsKept
  BY <1>1, <1>2, InHandKnown, StatusWrite
<1>4. QED
  BY <1>2, <1>3, RunLetsGo, AnswersKept, ClientSteps

\* A run that waits for the request tx, or that has sent its upload.
LEMMA AskKeeps ==
    ASSUME ApiTypeOK, ClientInv, Grows, NEW c \in Clients,
           drain[c].pc = "authorize",
           NEW tx \in AuthRequest, tx.file = drain[c].file, tx.client = c,
           SetDrain(c, [drain[c] EXCEPT !.pc = "authorizing", !.asked = tx]),
           UNCHANGED <<local, edits, sync, page>>
    PROVE  ClientInv'
<1> DEFINE r == [drain[c] EXCEPT !.pc = "authorizing", !.asked = tx]
<1>1. /\ r \in DrainState /\ r.pc = "authorizing" /\ r.asked = tx
      /\ r.file = drain[c].file /\ r.prior = drain[c].prior
  <2>1. drain[c] \in DrainState
    BY DEF ClientInv, ClientTypeOK
  <2>2. QED
    BY <2>1 DEF DrainState
<1>2. SetDrain(c, r)
  OBVIOUS
<1> HIDE DEF r
<1>3. QED
  BY <1>1, <1>2, InHandKnown, PhotosKept, RunWrite, AnswersKept, ClientSteps

LEMMA SentKeeps ==
    ASSUME ApiTypeOK, ClientInv, Grows, NEW c \in Clients,
           drain[c].pc = "upload",
           SetDrain(c, [drain[c] EXCEPT !.pc = "sent"]),
           UNCHANGED <<local, edits, sync, page>>
    PROVE  ClientInv'
<1> DEFINE r == [drain[c] EXCEPT !.pc = "sent"]
<1>1. /\ r \in DrainState /\ r.pc = "sent" /\ r.grant = drain[c].grant
      /\ r.file = drain[c].file /\ r.prior = drain[c].prior
  BY DEF DrainState, ClientInv, ClientTypeOK
<1>2. SetDrain(c, r)
  OBVIOUS
<1>3. /\ drain[c].grant \in Grant
      /\ drain[c].grant.file = drain[c].file
      /\ rows[drain[c].grant.id].file = drain[c].file
  BY DEF ClientInv, DrainInv
<1>4. rows'[drain[c].grant.id].file = drain[c].file
  BY <1>3, InHandKnown, ApiAssumption DEF Grows, Grant
<1> HIDE DEF r
<1>5. QED
  BY <1>1, <1>2, <1>3, <1>4, InHandKnown, PhotosKept, RunWrite, AnswersKept, ClientSteps

\* The grant is for the photo in hand: its id becomes the photo's.
LEMMA AuthorizedKeeps ==
    ASSUME ApiTypeOK, ClientInv, Grows, NEW c \in Clients, NEW g \in Grant,
           g.file = drain[c].file, rows'[g.id].file = g.file, Authorized(c, g)
    PROVE  ClientInv'
<1> DEFINE r == [drain[c] EXCEPT !.pc = "upload", !.asked = None, !.grant = g]
           q == [InHand(c) EXCEPT !.sid = g.id]
<1>1. drain[c].pc = "authorizing" /\ g.id \in Ids /\ g.id # None
  BY ApiAssumption DEF Authorized, Grant
<1>2. /\ r \in DrainState /\ r.pc = "upload" /\ r.grant = g
      /\ r.file = drain[c].file /\ r.prior = drain[c].prior
  BY DEF DrainState, ClientInv, ClientTypeOK
<1>3. /\ q \in LocalRow /\ q.status = InHand(c).status /\ q.sid = g.id
      /\ q.deleted = InHand(c).deleted /\ q.version = InHand(c).version
  BY <1>1, InHandKnown DEF LocalRow
<1>4. SetDrain(c, r) /\ SetPhoto(c, drain[c].file, q) /\ UNCHANGED <<edits, sync, page>>
  BY DEF Authorized, SetInHand
<1> HIDE DEF q, r
<1>5. /\ q.status = "completed" => best[drain[c].file] > 0
      /\ q.deleted => drain[c].file \in removed
  BY <1>1, <1>3, InHandKnown, ClientParts
<1>6. /\ local' \in [Clients -> [Files -> LocalRow]]
      /\ edits' \in [Clients -> [Files -> Nat]]
      /\ EditsInv' /\ PhotosInv' /\ SidsKept
  BY <1>1, <1>3, <1>4, <1>5, InHandKnown, PhotoWrite
<1>7. drain' \in [Clients -> DrainState] /\ DrainInv'
  BY <1>1, <1>2, <1>4, <1>6, InHandKnown, RunWrite
<1>8. QED
  BY <1>4, <1>6, <1>7, AnswersKept, ClientSteps

LEMMA HeartbeatKeeps ==
    ASSUME ApiTypeOK, ClientInv, Grows, NEW c \in Clients, Heartbeat(c)
    PROVE  ClientInv'
<1> DEFINE q == [InHand(c) EXCEPT !.aged = FALSE]
<1>1. drain[c].pc \in {"upload", "sent"}
  BY DEF Heartbeat
<1>2. q \in LocalRow /\ q.status = InHand(c).status /\ SameButStatus(InHand(c), q)
  BY <1>1, InHandKnown DEF LocalRow, SameButStatus
<1>3. SetPhoto(c, drain[c].file, q) /\ UNCHANGED <<edits, drain, sync, page>>
  BY DEF Heartbeat, SetInHand
<1> HIDE DEF q
<1>4. /\ q.status = "completed" => best[drain[c].file] > 0
      /\ q.status = "processing" => InHand(c).sid # None
  BY <1>1, <1>2, InHandKnown, ClientParts
<1>5. /\ local' \in [Clients -> [Files -> LocalRow]]
      /\ edits' \in [Clients -> [Files -> Nat]]
      /\ EditsInv' /\ PhotosInv' /\ SidsKept
  BY <1>1, <1>2, <1>3, <1>4, InHandKnown, StatusWrite
<1>6. QED
  BY <1>3, <1>5, RunsKept, AnswersKept, ClientSteps

LEMMA UploadAcceptedKeeps ==
    ASSUME ApiTypeOK, ClientInv, Grows, NEW c \in Clients, UploadAccepted(c)
    PROVE  ClientInv'
<1> DEFINE g == drain[c].grant
           q == [InHand(c) EXCEPT !.status = "processing", !.sid = drain[c].grant.id,
                                  !.aged = FALSE]
<1>1. drain[c].pc = "sent"
  BY DEF UploadAccepted
<1>2. g \in Grant /\ rows[g.id].file = drain[c].file
  BY <1>1 DEF ClientInv, DrainInv
<1>3. g.id \in Ids /\ g.id # None /\ rows'[g.id].file = drain[c].file
  BY <1>1, <1>2, InHandKnown, ApiAssumption DEF Grant, Grows
<1>4. /\ q \in LocalRow /\ q.status = "processing" /\ q.sid = g.id
      /\ q.deleted = InHand(c).deleted /\ q.version = InHand(c).version
  BY <1>1, <1>3, InHandKnown DEF LocalRow, LocalStatus
<1>5. SetPhoto(c, drain[c].file, q) /\ Continue(c) /\ UNCHANGED <<edits, sync, page>>
  BY DEF UploadAccepted, SetInHand
<1> HIDE DEF g, q
<1>6. q.deleted => drain[c].file \in removed
  BY <1>1, <1>4, InHandKnown, ClientParts
<1>7. /\ local' \in [Clients -> [Files -> LocalRow]]
      /\ edits' \in [Clients -> [Files -> Nat]]
      /\ EditsInv' /\ PhotosInv' /\ SidsKept
  BY <1>1, <1>3, <1>4, <1>5, <1>6, InHandKnown, PhotoWrite
<1>8. QED
  BY <1>5, <1>7, RunLetsGo, AnswersKept, ClientSteps

\* The status of the snapshot is one a run may restore.
LEMMA RestoreKeeps ==
    ASSUME ClientInv, Grows, UNCHANGED edits, NEW c \in Clients,
           drain[c].pc \notin {"idle", "next"}, Restore(c)
    PROVE  /\ local' \in [Clients -> [Files -> LocalRow]]
           /\ edits' \in [Clients -> [Files -> Nat]]
           /\ EditsInv' /\ PhotosInv' /\ SidsKept
<1> DEFINE q == [InHand(c) EXCEPT !.status = drain[c].prior]
<1>1. q \in LocalRow /\ q.status = drain[c].prior /\ SameButStatus(InHand(c), q)
  BY InHandKnown DEF LocalRow, LocalStatus, SameButStatus, Retryable
<1>2. SetPhoto(c, drain[c].file, q)
  BY DEF Restore, SetInHand
<1>3. drain[c].prior # "completed"
  BY InHandKnown DEF Retryable
<1> HIDE DEF q
<1>4. QED
  BY <1>1, <1>2, <1>3, InHandKnown, StatusWrite

LEMMA WorkerBusyKeeps ==
    ASSUME ApiTypeOK, ClientInv, Grows, NEW c \in Clients, WorkerBusy(c)
    PROVE  ClientInv'
<1>1. /\ drain[c].pc = "upload" /\ Restore(c) /\ SetDrain(c, NoDrain)
      /\ UNCHANGED <<edits, page>>
  BY DEF WorkerBusy
<1>2. sync' \in [Clients -> SyncState] /\ JobsInv'
  BY ScheduleKeeps DEF WorkerBusy
<1>3. QED
  BY <1>1, <1>2, PagesKept, RestoreKeeps, RunLetsGo, ClientSteps

LEMMA CancelDrainKeeps ==
    ASSUME ApiTypeOK, ClientInv, Grows, NEW c \in Clients, CancelDrain(c)
    PROVE  ClientInv'
<1>1. SetDrain(c, NoDrain) /\ UNCHANGED <<edits, sync, page>>
  BY DEF CancelDrain
<1>2. /\ local' \in [Clients -> [Files -> LocalRow]]
      /\ edits' \in [Clients -> [Files -> Nat]]
      /\ EditsInv' /\ PhotosInv' /\ SidsKept
  <2>1. CASE drain[c].pc = "next"
    BY <1>1, <2>1, PhotosKept DEF CancelDrain
  <2>2. CASE drain[c].pc # "next"
    BY <1>1, <2>2, RestoreKeeps DEF CancelDrain
  <2>3. QED
    BY <2>1, <2>2
<1>3. QED
  BY <1>1, <1>2, RunLetsGo, AnswersKept, ClientSteps

\* An empty job asks and answers nothing.
LEMMA EmptyJobKeeps ==
    ASSUME ApiTypeOK, ClientInv, Grows,
           NEW c \in Clients, NEW due \in BOOLEAN,
           SetSync(c, [NoSync EXCEPT !.due = due]) \/ SetSync(c, NoSync)
    PROVE  sync' \in [Clients -> SyncState] /\ JobsInv'
<1> DEFINE j == [NoSync EXCEPT !.due = due]
<1>1. /\ j \in SyncState
      /\ \A f \in Files : j.asked[f] = None /\ j.answer[f] = "none"
  BY DEF NoSync, SyncState, Answer
<1>2. /\ NoSync \in SyncState
      /\ \A f \in Files : NoSync.asked[f] = None /\ NoSync.answer[f] = "none"
  BY DEF NoSync, SyncState, Answer
<1>3. SetSync(c, j) \/ SetSync(c, NoSync)
  OBVIOUS
<1> HIDE DEF j
<1>4. CASE SetSync(c, j)
  BY <1>1, <1>4, JobWrite
<1>5. CASE SetSync(c, NoSync)
  BY <1>2, <1>5, JobWrite
<1>6. QED
  BY <1>3, <1>4, <1>5

LEMMA KillClientKeeps ==
    ASSUME ApiTypeOK, ClientInv, Grows, NEW c \in Clients, KillClient(c)
    PROVE  ClientInv'
<1>1. /\ SetDrain(c, NoDrain) /\ UNCHANGED <<local, edits>>
      /\ page' = [page EXCEPT ![c] = NoPage]
  BY DEF KillClient
<1>2. sync' \in [Clients -> SyncState] /\ JobsInv'
  <2>1. PICK due \in BOOLEAN : due = (sync[c].due \/ sync[c].pc # "idle")
    OBVIOUS
  <2>2. SetSync(c, [NoSync EXCEPT !.due = due])
    BY <2>1 DEF KillClient
  <2>3. QED
    BY <2>2, EmptyJobKeeps
<1>3. NoPage \in [Ids -> Answer] /\ \A i \in Ids : NoPage[i] = "none"
  BY DEF NoPage, Answer
<1>4. page' \in [Clients -> [Ids -> Answer]] /\ PagesInv'
  BY <1>1, <1>3, PageWrite
<1>5. QED
  BY <1>1, <1>2, <1>4, PhotosKept, RunLetsGo, ClientSteps

\* The sync asks about ids that photos in "processing" have.
LEMMA ReadProcessingKeeps ==
    ASSUME ApiTypeOK, ClientInv, Grows, NEW c \in Clients, ReadProcessing(c)
    PROVE  ClientInv'
<1>1. UNCHANGED <<local, edits, drain, page>>
  BY DEF ReadProcessing
<1>2. sync' \in [Clients -> SyncState] /\ JobsInv'
  <2>1. CASE \E f \in Files : Processing(c, f)
    <3>1. \A f \in Files : local[c][f].sid \in Ids \cup {None}
      BY ClientParts DEF LocalRow
    <3>2. AskedNow(c) \in [Files -> Ids \cup {None}]
      BY <3>1 DEF AskedNow
    <3>7. PICK a \in [Files -> Ids \cup {None}] : a = AskedNow(c)
      BY <3>2
    <3> DEFINE j == [NoSync EXCEPT !.pc = "asking", !.asked = a]
    <3>3. /\ j \in SyncState /\ j.asked = a
          /\ \A f \in Files : j.answer[f] = "none"
      BY DEF NoSync, SyncState, Answer
    <3>4. SetSync(c, j)
      BY <2>1, <3>7 DEF ReadProcessing
    <3>5. \A f \in Files : a[f] # None => rows[a[f]].file = f
      BY <3>7 DEF AskedNow, Processing, ClientInv, PhotosInv
    <3> HIDE DEF j
    <3>6. QED
      BY <3>3, <3>4, <3>5, JobWrite
  <2>2. CASE ~ \E f \in Files : Processing(c, f)
    BY <2>2, EmptyJobKeeps DEF ReadProcessing
  <2>3. QED
    BY <2>1, <2>2
<1>3. QED
  BY <1>1, <1>2, PagesKept, PhotosKept, RunsKept, ClientSteps

\* The status of a live row of photo f tells what happened to f.
LEMMA StatusTells ==
    ASSUME ApiInv, NEW i \in Ids
    PROVE  /\ StatusOf(i) \in Answer
           /\ StatusOf(i) = "completed" => rows[i].file \in Files /\ best[rows[i].file] > 0
           /\ StatusOf(i) = "deleted" => rows[i].file \in removed
<1>1. rows[i].status \in {"absent", "authorized", "completed", "error"}
      /\ rows[i].file \in Files \cup {None}
  BY DEF ApiInv, ApiTypeOK, Row
<1>2. QED
  BY <1>1 DEF StatusOf, Answer, ApiInv, RowsInv

LEMMA SyncAnsweredKeeps ==
    ASSUME ApiInv, ClientInv, Grows, NEW c \in Clients, SyncAnswered(c)
    PROVE  ClientInv'
<1> DEFINE ans == [f \in Files |-> IF sync[c].asked[f] = None THEN "none"
                                   ELSE StatusOf(sync[c].asked[f])]
           j == [sync[c] EXCEPT !.pc = "answered", !.answer = ans]
<1>1. sync[c] \in SyncState /\ \A f \in Files : sync[c].asked[f] \in Ids \cup {None}
  BY DEF SyncState, ClientInv, ClientTypeOK
<1>2. /\ \A f \in Files : ans[f] \in Answer
      /\ \A f \in Files : ans[f] = "completed" => best[f] > 0
      /\ \A f \in Files : ans[f] = "deleted" => f \in removed
  BY <1>1, StatusTells DEF ClientInv, AnswerInv, JobsInv, Answer
<1>3. SetSync(c, j) /\ UNCHANGED <<local, edits, drain, page>>
  BY DEF SyncAnswered
<1>4. ans \in [Files -> Answer]
  BY <1>2
<1> HIDE DEF ans
<1>5. j \in SyncState /\ j.asked = sync[c].asked /\ j.answer = ans
  BY <1>1, <1>4 DEF SyncState
<1> HIDE DEF j
<1>6. \A f \in Files : j.asked[f] # None => rows[j.asked[f]].file = f
  BY <1>5 DEF ClientInv, AnswerInv, JobsInv
<1>7. sync' \in [Clients -> SyncState] /\ JobsInv'
  BY <1>2, <1>3, <1>5, <1>6, JobWrite DEF ApiInv
<1>8. QED
  BY <1>3, <1>7, PagesKept, PhotosKept, RunsKept, ClientSteps DEF ApiInv

LEMMA SyncFailsKeeps ==
    ASSUME ApiTypeOK, ClientInv, Grows, NEW c \in Clients, SyncFails(c)
    PROVE  ClientInv'
<1>1. sync[c].due \in BOOLEAN
  BY DEF SyncState, ClientInv, ClientTypeOK
<1>2. SetSync(c, [NoSync EXCEPT !.due = sync[c].due]) /\ UNCHANGED <<local, edits, drain, page>>
  BY DEF SyncFails, SyncDone
<1>3. sync' \in [Clients -> SyncState] /\ JobsInv'
  BY <1>1, <1>2, EmptyJobKeeps
<1>4. QED
  BY <1>2, <1>3, PagesKept, PhotosKept, RunsKept, ClientSteps

\* Writing an answer to a photo whose invariant covers it.
LEMMA UpdatedSound ==
    ASSUME NEW p \in LocalRow, NEW a
    PROVE  /\ Updated(p, a) \in LocalRow
           /\ Updated(p, a).sid = p.sid
           /\ Updated(p, a).version = p.version
           /\ Updated(p, a).status \in {p.status, "completed", "failed"}
           /\ Updated(p, a).status = "completed" => p.status = "completed" \/ a = "completed"
           /\ Updated(p, a).deleted => p.deleted \/ a = "deleted"
<1>1. CASE a = "deleted"
  BY <1>1 DEF Updated, LocalRow
<1>2. CASE a = "completed"
  BY <1>2 DEF Updated, LocalRow, LocalStatus
<1>3. CASE a = "error"
  BY <1>3 DEF Updated, Failed, LocalRow, LocalStatus
<1>4. CASE a \notin {"deleted", "completed", "error"}
  BY <1>4 DEF Updated
<1>5. QED
  BY <1>1, <1>2, <1>3, <1>4

\* A client's photos after a batch of answers, each one sound for its photo.
LEMMA BatchKeeps ==
    ASSUME ClientInv, Grows, UNCHANGED edits, NEW c \in Clients,
           NEW a,
           local' = [local EXCEPT ![c] = [f \in Files |-> Updated(local[c][f], a[f])]],
           \A f \in Files :
              /\ a[f] = "completed" => best[f] > 0
              /\ a[f] = "deleted" => f \in removed
    PROVE  /\ local' \in [Clients -> [Files -> LocalRow]]
           /\ edits' \in [Clients -> [Files -> Nat]]
           /\ EditsInv' /\ PhotosInv' /\ SidsKept
<1>1. local \in [Clients -> [Files -> LocalRow]]
  BY DEF ClientInv, ClientTypeOK
<1> DEFINE u(f) == Updated(local[c][f], a[f])
<1>2. \A f \in Files :
          /\ u(f) \in LocalRow
          /\ u(f).sid = local[c][f].sid
          /\ u(f).version = local[c][f].version
          /\ u(f).status \in {local[c][f].status, "completed", "failed"}
          /\ u(f).status = "completed" => local[c][f].status = "completed" \/ a[f] = "completed"
          /\ u(f).deleted => local[c][f].deleted \/ a[f] = "deleted"
  BY <1>1, UpdatedSound
<1>3. local' = [local EXCEPT ![c] = [f \in Files |-> u(f)]]
  OBVIOUS
<1> HIDE DEF u
<1>4. local' \in [Clients -> [Files -> LocalRow]]
  BY <1>1, <1>2, <1>3
<1>5. \A d \in Clients, g \in Files :
          local'[d][g] = IF d = c THEN u(g) ELSE local[d][g]
  BY <1>1, <1>3
<1>6. EditsInv'
  BY <1>2, <1>5 DEF ClientInv, EditsInv
<1>7. \A d \in Clients, g \in Files : local[d][g].sid \in Ids \cup {None}
  BY <1>1 DEF LocalRow
<1>8. PhotosInv' /\ SidsKept
  BY <1>2, <1>5, <1>7, ApiAssumption DEF ClientInv, PhotosInv, Grows, SidsKept
<1>9. QED
  BY <1>4, <1>6, <1>8 DEF ClientInv, ClientTypeOK

LEMMA ApplyStatusesKeeps ==
    ASSUME ApiTypeOK, ClientInv, Grows, NEW c \in Clients, ApplyStatuses(c)
    PROVE  ClientInv'
<1> DEFINE a == [f \in Files |-> IF sync[c].asked[f] = None THEN "none" ELSE sync[c].answer[f]]
<1>1. local' = [local EXCEPT ![c] = [f \in Files |-> Updated(local[c][f], a[f])]]
  BY DEF ApplyStatuses, Updated
<1>2. \A f \in Files :
         /\ a[f] = "completed" => best[f] > 0
         /\ a[f] = "deleted" => f \in removed
  BY DEF ClientInv, AnswerInv, JobsInv
<1> HIDE DEF a
<1>3. /\ local' \in [Clients -> [Files -> LocalRow]]
      /\ edits' \in [Clients -> [Files -> Nat]]
      /\ EditsInv' /\ PhotosInv' /\ SidsKept
  BY <1>1, <1>2, BatchKeeps DEF ApplyStatuses
<1>4. sync[c].due \in BOOLEAN
  BY DEF ClientInv, ClientTypeOK, SyncState
<1>5. sync' \in [Clients -> SyncState] /\ JobsInv'
  BY <1>4, EmptyJobKeeps DEF ApplyStatuses, SyncDone
<1>6. UNCHANGED <<drain, page>>
  BY DEF ApplyStatuses
<1>7. QED
  BY <1>3, <1>5, <1>6, PagesKept, RunsKept, ClientSteps

\* A page's statuses are about whatever photo has the id now: the same one.
LEMMA ApplyPageKeeps ==
    ASSUME ApiTypeOK, ClientInv, Grows, NEW c \in Clients, ApplyPage(c)
    PROVE  ClientInv'
<1> DEFINE a == [f \in Files |-> IF Processing(c, f) THEN page[c][local[c][f].sid] ELSE "none"]
<1>1. local' = [local EXCEPT ![c] = [f \in Files |-> Updated(local[c][f], a[f])]]
  BY DEF ApplyPage, Updated
<1>2. \A f \in Files : local[c][f].sid # None =>
          local[c][f].sid \in Ids /\ rows[local[c][f].sid].file = f
  BY ClientParts DEF LocalRow, ClientInv, PhotosInv
<1>3. \A f \in Files :
         /\ a[f] = "completed" => best[f] > 0
         /\ a[f] = "deleted" => f \in removed
  BY <1>2 DEF Processing, ClientInv, AnswerInv, PagesInv
<1> HIDE DEF a
<1>4. /\ local' \in [Clients -> [Files -> LocalRow]]
      /\ edits' \in [Clients -> [Files -> Nat]]
      /\ EditsInv' /\ PhotosInv' /\ SidsKept
  BY <1>1, <1>3, BatchKeeps DEF ApplyPage
<1>5. NoPage \in [Ids -> Answer] /\ \A i \in Ids : NoPage[i] = "none"
  BY DEF NoPage, Answer
<1>6. page' = [page EXCEPT ![c] = NoPage] /\ UNCHANGED <<drain, sync>>
  BY DEF ApplyPage
<1>7. page' \in [Clients -> [Ids -> Answer]] /\ PagesInv'
  BY <1>5, <1>6, PageWrite
<1>8. QED
  BY <1>4, <1>6, <1>7, JobsKept, RunsKept, ClientSteps

LEMMA PageFetchesKeeps ==
    ASSUME ApiInv, ClientInv, Grows, NEW c \in Clients, PageFetches(c)
    PROVE  ClientInv'
<1> DEFINE g == [i \in Ids |-> IF StatusOf(i) = "deleted" THEN "none" ELSE StatusOf(i)]
<1>1. \A i \in Ids :
         /\ g[i] \in Answer
         /\ g[i] # "deleted"
         /\ g[i] = "completed" => rows[i].file # None /\ best[rows[i].file] > 0
  BY StatusTells, ApiAssumption DEF Answer
<1>2. g \in [Ids -> Answer] /\ page' = [page EXCEPT ![c] = g]
      /\ UNCHANGED <<local, edits, drain, sync>>
  BY <1>1 DEF PageFetches
<1> HIDE DEF g
<1>3. page' \in [Clients -> [Ids -> Answer]] /\ PagesInv'
  BY <1>1, <1>2, PageWrite DEF ApiInv
<1>4. QED
  BY <1>2, <1>3, JobsKept, PhotosKept, RunsKept, ClientSteps DEF ApiInv

\* The tables at rest.
LEMMA ClientRests ==
    ASSUME ApiTypeOK, ClientInv, Grows, UNCHANGED clientVars
    PROVE  ClientInv'
  BY AnswersKept, PhotosKept, RunsKept, ClientSteps DEF clientVars

-----------------------------------------------------------------------------
(* The handlers of the API keep the server's part of the invariant and take *)
(* nothing back (Grows); the steps of a worker's task keep the tasks' part. *)

\* Types of what the invariant speaks of.
LEMMA RowParts ==
    ASSUME ApiTypeOK, NEW i \in Ids
    PROVE  /\ rows[i] \in Row
           /\ rows[i].file \in Files \cup {None}
           /\ rows[i].status \in {"absent", "authorized", "completed", "error"}
           /\ rows[i].deleted \in BOOLEAN
  BY DEF ApiTypeOK, Row

\* A write to one row that keeps its file, and claims what the history holds.
LEMMA RowWrite ==
    ASSUME ApiInv, NEW i \in Ids, NEW r \in Row, rows' = [rows EXCEPT ![i] = r],
           rows[i].file # None => r.file = rows[i].file,
           r.status # "absent" => r.file # None,
           r.status = "completed" => best'[r.file] > 0,
           r.deleted => r.status # "absent" /\ r.file \in removed',
           best' \in [Files -> 0 .. MaxVersion],
           \A f \in Files : best[f] > 0 => best'[f] > 0,
           removed \subseteq removed', removed' \subseteq Files,
           authTx' \subseteq authTx, postTx' \subseteq postTx,
           UNCHANGED <<keys, second, orphans>>
    PROVE  ApiInv' /\ Grows
<1>1. \A k \in Ids : rows'[k] = IF k = i THEN r ELSE rows[k]
  BY DEF ApiInv, ApiTypeOK
<1>2. ApiTypeOK'
  BY DEF ApiInv, ApiTypeOK
<1>3. Grows
  BY <1>1 DEF Grows
<1>4. \A k \in Ids : rows[k].file \in Files \cup {None}
  BY RowParts DEF ApiInv
<1>5. RowsInv'
  <2> SUFFICES ASSUME NEW k \in Ids
               PROVE  /\ rows'[k].status # "absent" => rows'[k].file # None
                      /\ rows'[k].status = "completed" => best'[rows'[k].file] > 0
                      /\ rows'[k].deleted => rows'[k].status # "absent" /\ rows'[k].file \in removed'
    BY DEF RowsInv
  <2>1. CASE k = i
    BY <1>1, <2>1
  <2>2. CASE k # i
    BY <1>1, <1>4, <2>2 DEF ApiInv, RowsInv
  <2>3. QED
    BY <2>1, <2>2
<1>6. RequestsInv'
  <2>1. /\ \A tx \in authTx : tx.found \in Ids \cup {None} /\ tx.file \in Files
        /\ \A p \in postTx : p.grant.id \in Ids /\ p.grant.file \in Files
    BY DEF ApiInv, ApiTypeOK, AuthRequest, Post, Grant
  <2>2. QED
    BY <1>3, <2>1, ApiAssumption DEF ApiInv, RequestsInv, Grows
<1>7. QED
  BY <1>2, <1>3, <1>5, <1>6 DEF ApiInv

\* A handler that touches no row: its requests must be about the right rows.
LEMMA RequestWrite ==
    ASSUME ApiInv, UNCHANGED <<rows, best, removed>>,
           keys' \subseteq Clients, second' \in Seconds, orphans' \subseteq Ids,
           authTx' \subseteq AuthRequest, postTx' \subseteq Post,
           \A tx \in authTx' : tx.found # None => rows[tx.found].file = tx.file,
           \A p \in postTx' : rows[p.grant.id].file = p.grant.file
    PROVE  ApiInv' /\ Grows
<1>1. ApiTypeOK'
  BY DEF ApiInv, ApiTypeOK
<1>2. RowsInv' /\ RequestsInv' /\ Grows
  BY DEF ApiInv, RowsInv, RequestsInv, Grows
<1>3. QED
  BY <1>1, <1>2 DEF ApiInv

LEMMA ApiRests ==
    ASSUME ApiInv, UNCHANGED apiVars
    PROVE  ApiInv' /\ Grows
<1>1. UNCHANGED <<rows, keys, second, authTx, postTx, orphans, best, removed>>
  BY DEF apiVars
<1>2. QED
  BY <1>1, RequestWrite DEF ApiInv, ApiTypeOK, RequestsInv

-----------------------------------------------------------------------------
(* The handlers                                                            *)

\* The row the request found has the request's file.
LEMMA AuthorizeReadKeeps ==
    ASSUME ApiInv, NEW tx \in AuthRequest, AuthorizeRead(tx)
    PROVE  ApiInv' /\ Grows
<1>1. tx.found # None => rows[tx.found].file = tx.file
  BY DEF AuthorizeRead, Lookup, Matching
<1>2. authTx' = authTx \cup {tx} /\ UNCHANGED <<rows, keys, second, postTx, best, removed, orphans>>
  BY DEF AuthorizeRead
<1>3. QED
  BY <1>1, <1>2, RequestWrite DEF ApiInv, ApiTypeOK, RequestsInv

\* The new row goes where the file's row was, or where nothing ever was.
LEMMA TargetFree ==
    ASSUME ApiInv, NEW tx \in authTx, NEW i \in TargetIds(tx)
    PROVE  /\ i \in Ids
           /\ tx \in AuthRequest
           /\ rows[i].file \in {tx.file, None}
<1>1. tx \in AuthRequest
  BY DEF ApiInv, ApiTypeOK
<1>2. tx.found \in Ids \cup {None}
  BY <1>1 DEF AuthRequest
<1>3. CASE tx.found = None
  BY <1>1, <1>3 DEF TargetIds
<1>4. CASE tx.found # None
  BY <1>1, <1>2, <1>4 DEF TargetIds, ApiInv, RequestsInv
<1>5. QED
  BY <1>3, <1>4

LEMMA AuthorizeCommitKeeps ==
    ASSUME ApiInv, NEW tx \in authTx, NEW i \in Ids, AuthorizeCommit(tx, i)
    PROVE  /\ ApiInv' /\ Grows
           /\ tx \in AuthRequest
           /\ GrantOf(tx, i) \in Grant
           /\ GrantOf(tx, i).file = tx.file
           /\ rows'[i].file = tx.file
<1> DEFINE r == [file |-> tx.file, status |-> "authorized", version |-> tx.version,
                 key |-> tx.client, at |-> tx.at, deleted |-> FALSE,
                 result |-> 0, signed |-> None]
<1>1. i \in TargetIds(tx) /\ rows' = [rows EXCEPT ![i] = r]
      /\ authTx' = authTx \ {tx} /\ UNCHANGED <<keys, second, postTx, best, removed, orphans>>
  BY DEF AuthorizeCommit
<1>2. tx \in AuthRequest /\ rows[i].file \in {tx.file, None}
  BY <1>1, TargetFree
<1>3. r \in Row
  BY <1>2, ApiAssumption DEF Row, AuthRequest, Versions
<1>4. /\ r.file = tx.file /\ r.file # None /\ r.status = "authorized" /\ ~ r.deleted
  BY <1>2, ApiAssumption DEF AuthRequest
<1>5. rows'[i] = r
  BY <1>1 DEF ApiInv, ApiTypeOK
<1>6. GrantOf(tx, i) \in Grant /\ GrantOf(tx, i).file = tx.file
  BY <1>2 DEF GrantOf, Grant, AuthRequest
<1> HIDE DEF r
<1>7. ApiInv' /\ Grows
  <2>1. /\ best' \in [Files -> 0 .. MaxVersion] /\ removed' \subseteq Files
        /\ \A f \in Files : best[f] > 0 => best'[f] > 0
        /\ removed \subseteq removed' /\ authTx' \subseteq authTx /\ postTx' \subseteq postTx
    BY <1>1 DEF ApiInv, ApiTypeOK
  <2>2. rows[i].file # None => r.file = rows[i].file
    BY <1>2, <1>4
  <2>3. QED
    BY <1>1, <1>3, <1>4, <2>1, <2>2, RowWrite
<1>8. QED
  BY <1>2, <1>4, <1>5, <1>6, <1>7

LEMMA AuthorizeRollbackKeeps ==
    ASSUME ApiInv, NEW tx, AuthorizeRollback(tx)
    PROVE  ApiInv' /\ Grows
<1>1. authTx' \subseteq authTx /\ UNCHANGED <<rows, keys, second, postTx, best, removed, orphans>>
  BY DEF AuthorizeRollback
<1>2. QED
  BY <1>1, RequestWrite DEF ApiInv, ApiTypeOK, RequestsInv

LEMMA RegisterKeyKeeps ==
    ASSUME ApiInv, NEW c \in Clients, RegisterKey(c)
    PROVE  ApiInv' /\ Grows
<1>1. keys' = keys \cup {c} /\ UNCHANGED <<rows, second, authTx, postTx, best, removed, orphans>>
  BY DEF RegisterKey
<1>2. QED
  BY <1>1, RequestWrite DEF ApiInv, ApiTypeOK, RequestsInv

LEMMA ProcessedReadKeeps ==
    ASSUME ApiInv, NEW g \in Grant, rows[g.id].file = g.file,
           NEW outcome \in {"completed", "error"}, ProcessedRead(g, outcome)
    PROVE  ApiInv' /\ Grows
<1> DEFINE p == [grant |-> g, outcome |-> outcome]
<1>1. p \in Post /\ p.grant = g
  BY DEF Post
<1>2. postTx' = postTx \cup {p} /\ UNCHANGED <<rows, keys, second, authTx, best, removed, orphans>>
  BY DEF ProcessedRead
<1> HIDE DEF p
<1>3. QED
  BY <1>1, <1>2, RequestWrite DEF ApiInv, ApiTypeOK, RequestsInv

\* The row written has its content, so the file it completes is served.
LEMMA ProcessedCommitKeeps ==
    ASSUME ApiInv, NEW p \in postTx, ProcessedCommit(p)
    PROVE  ApiInv' /\ Grows
<1> DEFINE i == p.grant.id
           v == p.grant.version
           r == [rows[i] EXCEPT
                   !.status = p.outcome,
                   !.result = IF p.outcome = "completed" THEN v ELSE @,
                   !.signed = [key |-> p.grant.key, at |-> p.grant.at]]
<1>1. p \in Post
  BY DEF ApiInv, ApiTypeOK
<1>2. /\ i \in Ids /\ v \in 1 .. MaxVersion
      /\ p.grant.key \in Clients /\ p.grant.at \in Seconds
      /\ p.outcome \in {"completed", "error"}
  BY <1>1 DEF Post, Grant, Versions
<1>3. rows[i] \in Row /\ rows[i].file \in Files \cup {None}
  BY <1>2, RowParts DEF ApiInv
<1>4. PICK sg \in Signature : sg = [key |-> p.grant.key, at |-> p.grant.at]
  BY <1>2 DEF Signature
<1>5. PICK rs \in 0 .. MaxVersion : rs = IF p.outcome = "completed" THEN v ELSE rows[i].result
  BY <1>2, <1>3, ApiAssumption DEF Row
<1>6. r = [rows[i] EXCEPT !.status = p.outcome, !.result = rs, !.signed = sg]
  BY <1>4, <1>5
<1>7. /\ r \in Row /\ r.file = rows[i].file /\ r.status = p.outcome
      /\ r.deleted = rows[i].deleted
  BY <1>2, <1>3, <1>6 DEF Row
<1>8. /\ rows[i].status # "absent" /\ rows' = [rows EXCEPT ![i] = r]
      /\ postTx' = postTx \ {p} /\ UNCHANGED <<keys, second, authTx, removed, orphans>>
      /\ best' = IF p.outcome = "completed" /\ v > best[rows[i].file]
                 THEN [best EXCEPT ![rows[i].file] = v] ELSE best
  BY DEF ProcessedCommit
<1> HIDE DEF i, r, v
<1>9. rows[i].file \in Files
  BY <1>2, <1>3, <1>8 DEF ApiInv, RowsInv
<1>10. best \in [Files -> 0 .. MaxVersion] /\ v > 0 /\ v \in 0 .. MaxVersion
  BY <1>2, ApiAssumption DEF ApiInv, ApiTypeOK
<1>11. /\ best' \in [Files -> 0 .. MaxVersion]
       /\ \A f \in Files : best[f] > 0 => best'[f] > 0
       /\ p.outcome = "completed" => best'[rows[i].file] > 0
  BY <1>8, <1>9, <1>10
<1>12. /\ r.status # "absent" /\ r.file # None
       /\ r.deleted => r.file \in removed'
  BY <1>2, <1>7, <1>8, <1>9, ApiAssumption DEF ApiInv, RowsInv
<1>13. /\ removed \subseteq removed' /\ removed' \subseteq Files
       /\ authTx' \subseteq authTx /\ postTx' \subseteq postTx
  BY <1>8 DEF ApiInv, ApiTypeOK
<1>14. QED
  BY <1>2, <1>7, <1>8, <1>11, <1>12, <1>13, RowWrite

LEMMA ProcessedAbortKeeps ==
    ASSUME ApiInv, NEW p, ProcessedAbort(p)
    PROVE  ApiInv' /\ Grows
<1>1. postTx' \subseteq postTx /\ UNCHANGED <<rows, keys, second, authTx, best, removed, orphans>>
  BY DEF ProcessedAbort
<1>2. QED
  BY <1>1, RequestWrite DEF ApiInv, ApiTypeOK, RequestsInv

LEMMA DeletePhotoKeeps ==
    ASSUME ApiInv, NEW i \in Ids, DeletePhoto(i)
    PROVE  ApiInv' /\ Grows
<1> DEFINE r == [rows[i] EXCEPT !.deleted = TRUE]
<1>1. /\ r \in Row /\ r.file = rows[i].file /\ r.status = rows[i].status
  BY RowParts DEF Row, ApiInv
<1>2. /\ rows[i].status # "absent" /\ rows' = [rows EXCEPT ![i] = r]
      /\ removed' = removed \cup {rows[i].file}
      /\ UNCHANGED <<keys, second, authTx, postTx, best, orphans>>
  BY DEF DeletePhoto
<1> HIDE DEF r
<1>3. rows[i].file \in Files /\ rows[i].file # None
  BY <1>2, RowParts, ApiAssumption DEF ApiInv, RowsInv
<1>4. r.status = "completed" => best'[r.file] > 0
  BY <1>1, <1>2 DEF ApiInv, RowsInv
<1>5. /\ best' \in [Files -> 0 .. MaxVersion]
      /\ \A f \in Files : best[f] > 0 => best'[f] > 0
      /\ removed \subseteq removed' /\ removed' \subseteq Files
      /\ authTx' \subseteq authTx /\ postTx' \subseteq postTx
  BY <1>2, <1>3 DEF ApiInv, ApiTypeOK
<1>6. QED
  BY <1>1, <1>2, <1>3, <1>4, <1>5, RowWrite

LEMMA CleanupReadKeeps ==
    ASSUME ApiInv, CleanupRead
    PROVE  ApiInv' /\ Grows
<1>1. orphans' \subseteq Ids /\ UNCHANGED <<rows, keys, second, authTx, postTx, best, removed>>
  BY DEF CleanupRead
<1>2. QED
  BY <1>1, RequestWrite DEF ApiInv, ApiTypeOK, RequestsInv

\* A deleted row's id stays bound to its content.
LEMMA CleanupCommitKeeps ==
    ASSUME ApiInv, CleanupCommit
    PROVE  ApiInv' /\ Grows
<1>1. UNCHANGED <<keys, second, authTx, postTx, best, removed>> /\ orphans' = {}
  BY DEF CleanupCommit
<1>2. \A i \in Ids : rows[i] \in Row /\ rows[i].file \in Files \cup {None}
  BY RowParts DEF ApiInv
<1> DEFINE b(i) == [Blank EXCEPT !.file = rows[i].file]
<1>3. \A i \in Ids : b(i) \in Row /\ b(i).file = rows[i].file /\ b(i).status = "absent" /\ ~ b(i).deleted
  <2>1. \A f \in Files \cup {None} :
           /\ [Blank EXCEPT !.file = f] \in Row
           /\ [Blank EXCEPT !.file = f].file = f
           /\ [Blank EXCEPT !.file = f].status = "absent"
           /\ ~ [Blank EXCEPT !.file = f].deleted
    <3>1. 0 \in 0 .. MaxVersion /\ 0 \in Seconds
      BY ApiAssumption DEF Seconds
    <3>2. QED
      BY <3>1 DEF Blank, Row
  <2>2. QED
    BY <1>2, <2>1
<1>4. rows' = [i \in Ids |-> IF i \in orphans THEN b(i) ELSE rows[i]]
  BY DEF CleanupCommit
<1> HIDE DEF b
<1>5. \A i \in Ids : rows'[i] = IF i \in orphans THEN b(i) ELSE rows[i]
  BY <1>4
<1>6. rows' \in [Ids -> Row]
  BY <1>2, <1>3, <1>4
<1>7. \A i \in Ids : rows'[i].file = rows[i].file
  BY <1>3, <1>5
<1>8. ApiTypeOK'
  BY <1>1, <1>6 DEF ApiInv, ApiTypeOK
<1>9. RowsInv'
  BY <1>1, <1>3, <1>5 DEF ApiInv, RowsInv
<1>10. RequestsInv'
  <2>1. /\ \A tx \in authTx : tx.found \in Ids \cup {None}
        /\ \A p \in postTx : p.grant.id \in Ids
    BY DEF ApiInv, ApiTypeOK, AuthRequest, Post, Grant
  <2>2. QED
    BY <1>1, <1>7, <2>1 DEF ApiInv, RequestsInv
<1>11. Grows
  BY <1>1, <1>7 DEF Grows
<1>12. QED
  BY <1>8, <1>9, <1>10, <1>11 DEF ApiInv

LEMMA TickKeeps ==
    ASSUME ApiInv, Tick
    PROVE  ApiInv' /\ Grows
<1>1. second < MaxSecond /\ second' = second + 1
      /\ UNCHANGED <<rows, keys, authTx, postTx, best, removed, orphans>>
  BY DEF Tick
<1>2. second' \in Seconds
  BY <1>1, ApiAssumption DEF ApiInv, ApiTypeOK, Seconds
<1>3. QED
  BY <1>1, <1>2, RequestWrite DEF ApiInv, ApiTypeOK, RequestsInv

-----------------------------------------------------------------------------
(* The worker's tasks                                                      *)

\* Tasks end, go on with the same grant, or start with one that is good.
LEMMA TasksWrite ==
    ASSUME WorkerInv, Grows, tasks' \subseteq Task,
           \A u \in tasks' : u \in tasks \/
               /\ rows'[u.grant.id].file = u.grant.file
               /\ u.phase # "work" => u.outcome # "none"
    PROVE  WorkerInv'
<1>1. \A t \in tasks : t.grant.id \in Ids /\ t.grant.file \in Files
  BY DEF WorkerInv, WorkerTypeOK, Task, Grant
<1>2. TasksInv'
  BY <1>1, ApiAssumption DEF WorkerInv, TasksInv, Grows
<1>3. QED
  BY <1>2 DEF WorkerInv, WorkerTypeOK

LEMMA TasksEnd ==
    ASSUME WorkerInv, Grows, tasks' \subseteq tasks
    PROVE  WorkerInv'
<1>1. tasks' \subseteq Task
  BY DEF WorkerInv, WorkerTypeOK
<1>2. QED
  BY <1>1, TasksWrite

LEMMA AcceptTaskKeeps ==
    ASSUME WorkerInv, Grows, NEW g \in Grant, rows'[g.id].file = g.file, AcceptTask(g)
    PROVE  WorkerInv'
<1> DEFINE u == [grant |-> g, phase |-> "work", outcome |-> "none", tries |-> 0]
<1>1. u \in Task /\ u.grant = g /\ u.phase = "work"
  BY WorkerAssumption DEF Task
<1>2. tasks' = tasks \cup {u}
  BY DEF AcceptTask
<1> HIDE DEF u
<1>3. QED
  BY <1>1, <1>2, TasksWrite DEF WorkerInv, WorkerTypeOK

\* A task that goes on keeps its grant.
LEMMA TaskGoesOn ==
    ASSUME WorkerInv, Grows, NEW t \in tasks, NEW u \in Task, Replace(t, u),
           u.grant = t.grant, u.outcome # "none"
    PROVE  WorkerInv'
<1>1. t \in Task /\ rows[t.grant.id].file = t.grant.file
  BY DEF WorkerInv, WorkerTypeOK, TasksInv
<1>2. rows'[u.grant.id].file = u.grant.file
  BY <1>1, ApiAssumption DEF Grows, Task, Grant
<1>3. tasks' = (tasks \ {t}) \cup {u}
  BY DEF Replace
<1>4. QED
  BY <1>2, <1>3, TasksWrite DEF WorkerInv, WorkerTypeOK

LEMMA FinishProcessingKeeps ==
    ASSUME WorkerInv, Grows, NEW t \in tasks, NEW outcome, FinishProcessing(t, outcome)
    PROVE  WorkerInv'
<1> DEFINE u == [t EXCEPT !.phase = "notify", !.outcome = outcome]
<1>1. t \in Task /\ outcome \in {"completed", "error"}
  BY DEF WorkerInv, WorkerTypeOK, FinishProcessing
<1>2. u \in Task /\ u.grant = t.grant /\ u.outcome # "none"
  BY <1>1 DEF Task
<1>3. Replace(t, u)
  BY DEF FinishProcessing
<1> HIDE DEF u
<1>4. QED
  BY <1>2, <1>3, TaskGoesOn

\* The report of a task past its work can be written to the row it names.
LEMMA ReportAcceptedKeeps ==
    ASSUME ApiInv, WorkerInv, NEW t \in tasks, ReportAccepted(t)
    PROVE  ApiInv' /\ Grows /\ WorkerInv'
<1> DEFINE u == [t EXCEPT !.phase = "posting"]
<1>1. /\ t \in Task /\ t.phase = "notify" /\ t.outcome # "none"
      /\ rows[t.grant.id].file = t.grant.file
  BY DEF WorkerInv, WorkerTypeOK, TasksInv, ReportAccepted
<1>2. t.grant \in Grant /\ t.outcome \in {"completed", "error"}
  BY <1>1 DEF Task
<1>3. ApiInv' /\ Grows
  BY <1>1, <1>2, ProcessedReadKeeps DEF ReportAccepted
<1>4. u \in Task /\ u.grant = t.grant /\ u.outcome # "none"
  BY <1>1 DEF Task
<1>5. Replace(t, u)
  BY DEF ReportAccepted
<1> HIDE DEF u
<1>6. QED
  BY <1>3, <1>4, <1>5, TaskGoesOn

LEMMA ReportFailedKeeps ==
    ASSUME WorkerInv, Grows, NEW t \in tasks, ReportFailed(t)
    PROVE  WorkerInv'
<1> DEFINE u == [t EXCEPT !.phase = "notify", !.tries = @ + 1]
<1>1. CASE t.tries + 1 < NotifyAttempts
  <2>1. /\ t \in Task /\ t.phase # "work" /\ t.outcome # "none"
    BY DEF WorkerInv, WorkerTypeOK, TasksInv, ReportFailed
  <2>2. t.tries + 1 \in 0 .. NotifyAttempts
    BY <1>1, <2>1, WorkerAssumption DEF Task
  <2>3. u \in Task /\ u.grant = t.grant /\ u.outcome # "none"
    BY <2>1, <2>2 DEF Task
  <2>4. Replace(t, u)
    BY <1>1 DEF ReportFailed
  <2> HIDE DEF u
  <2>5. QED
    BY <2>3, <2>4, TaskGoesOn
<1>2. CASE ~ (t.tries + 1 < NotifyAttempts)
  BY <1>2, TasksEnd DEF ReportFailed, EndTask
<1>3. QED
  BY <1>1, <1>2

-----------------------------------------------------------------------------
(* What an action leaves alone                                             *)

LEMMA InvParts ==
    IInv <=> /\ ApiInv /\ ClientInv /\ WorkerInv
             /\ disturbances \in 0 .. MaxDisturbances
  BY DEF IInv

LEMMA Budget ==
    ASSUME disturbances \in 0 .. MaxDisturbances, Calm \/ Disturb
    PROVE  disturbances' \in 0 .. MaxDisturbances
  BY ProtocolAssumption DEF Calm, Disturb

LEMMA TasksRest ==
    ASSUME WorkerInv, Grows, UNCHANGED tasks
    PROVE  WorkerInv'
  BY TasksEnd

LEMMA OthersRest ==
    ASSUME IInv, ClientOnly
    PROVE  ApiInv' /\ Grows /\ WorkerInv'
<1>1. UNCHANGED apiVars /\ UNCHANGED tasks
  BY DEF ClientOnly
<1>2. QED
  BY <1>1, ApiRests, TasksRest DEF IInv

LEMMA ServerRests ==
    ASSUME IInv, ApiIdle, UNCHANGED tasks
    PROVE  ApiInv' /\ Grows /\ WorkerInv'
  BY ApiRests, TasksRest DEF IInv, ApiIdle

\* A step of a client's tables alone.
LEMMA ClientStepKeeps ==
    ASSUME IInv, ClientOnly, Calm \/ Disturb,
           ApiTypeOK /\ Grows => ClientInv'
    PROVE  IInv'
  BY OthersRest, Budget DEF IInv, ApiInv

-----------------------------------------------------------------------------
(* The client's actions                                                    *)

LEMMA UserStepKeeps ==
    ASSUME IInv, NEW c \in Clients, UserStep(c)
    PROVE  IInv'
<1>1. CASE ClientDies(c)
  BY <1>1, KillClientKeeps, ClientStepKeeps DEF ClientDies, IInv
<1>2. ASSUME NEW f \in Files, UserCaptures(c, f)
      PROVE  IInv'
  BY <1>2, CaptureKeeps, ClientStepKeeps DEF UserCaptures, IInv
<1>3. ASSUME NEW f \in Files, UserEdits(c, f)
      PROVE  IInv'
  BY <1>3, CreateEditKeeps, ClientStepKeeps DEF UserEdits, IInv
<1>4. ASSUME NEW f \in Files, TimePasses(c, f)
      PROVE  IInv'
  BY <1>4, AgeKeeps, ClientStepKeeps DEF TimePasses, IInv
<1>5. QED
  BY <1>1, <1>2, <1>3, <1>4 DEF UserStep

LEMMA SyncStepKeeps ==
    ASSUME IInv, NEW c \in Clients, SyncStep(c)
    PROVE  IInv'
<1>1. CASE SyncReads(c)
  BY <1>1, ReadProcessingKeeps, ClientStepKeeps DEF SyncReads, IInv
<1>2. CASE SyncAnswered(c)
  BY <1>2, SyncAnsweredKeeps, ClientStepKeeps DEF SyncAnswered, IInv
<1>3. CASE SyncApplies(c)
  BY <1>3, ApplyStatusesKeeps, ClientStepKeeps DEF SyncApplies, IInv
<1>4. CASE SyncLost(c)
  BY <1>4, SyncFailsKeeps, ClientStepKeeps DEF SyncLost, IInv
<1>5. CASE PageFetches(c)
  BY <1>5, PageFetchesKeeps, ClientStepKeeps DEF PageFetches, IInv
<1>6. CASE PageApplies(c)
  BY <1>6, ApplyPageKeeps, ClientStepKeeps DEF PageApplies, IInv
<1>7. QED
  BY <1>1, <1>2, <1>3, <1>4, <1>5, <1>6 DEF SyncStep

\* A "duplicate" answer speaks of a completed row of the photo's content.
LEMMA DuplicateWasServed ==
    ASSUME ApiInv, NEW f \in Files, NEW found \in Lookup(f), NEW v,
           IsDuplicate(found, v)
    PROVE  best[f] > 0
<1>1. found # None /\ rows[found].status = "completed"
  BY DEF IsDuplicate
<1>2. found \in Ids /\ rows[found].file = f
  BY <1>1 DEF Lookup, Matching
<1>3. QED
  BY <1>1, <1>2 DEF ApiInv, RowsInv

LEMMA RequestOfTypeOK ==
    ASSUME IInv, NEW c \in Clients, drain[c].pc = "authorize",
           NEW found \in Lookup(drain[c].file)
    PROVE  /\ RequestOf(c, found) \in AuthRequest
           /\ RequestOf(c, found).file = drain[c].file
           /\ RequestOf(c, found).client = c
<1>1. found \in Ids \cup {None}
  BY DEF Lookup, Matching
<1>2. drain[c].file \in Files /\ InHand(c).version \in Versions
  BY InHandKnown DEF IInv, LocalRow
<1>3. second \in Seconds
  BY DEF IInv, ApiInv, ApiTypeOK
<1>4. QED
  BY <1>1, <1>2, <1>3 DEF RequestOf, AuthRequest

\* Whoever waits for tx made it, for the photo it has in hand.
LEMMA AwaitsKnown ==
    ASSUME IInv, NEW tx \in authTx, NEW c \in Clients, Awaits(c, tx)
    PROVE  tx.file = drain[c].file /\ tx.client = c /\ drain[c].pc = "authorizing"
  BY DEF Awaits, IInv, ClientInv, DrainInv

LEMMA AuthorizeStepKeeps ==
    ASSUME IInv, NEW c \in Clients,
           \/ AuthorizeDuplicate(c) \/ AuthorizeHeals(c) \/ AuthorizeStarts(c)
           \/ AuthorizeGranted(c) \/ AuthorizeUnsent(c)
    PROVE  IInv'
<1> USE DEF IInv
<1>1. CASE AuthorizeDuplicate(c)
  <2>1. drain[c].pc = "authorize" /\ DuplicatePhoto(c) /\ UNCHANGED tasks /\ ApiIdle /\ Calm
    BY <1>1 DEF AuthorizeDuplicate
  <2>2. drain[c].file \in Files
    BY <2>1, InHandKnown
  <2>3. best[drain[c].file] > 0
    BY <1>1, <2>2, DuplicateWasServed DEF AuthorizeDuplicate
  <2>4. QED
    BY <2>1, <2>3, ServerRests, DuplicateKeeps, Budget DEF ApiInv
<1>2. CASE AuthorizeHeals(c)
  <2>1. RegisterKey(c) /\ UNCHANGED clientVars /\ UNCHANGED tasks /\ Calm
    BY <1>2 DEF AuthorizeHeals
  <2>2. QED
    BY <2>1, RegisterKeyKeeps, ClientRests, TasksRest, Budget DEF ApiInv
<1>3. CASE AuthorizeStarts(c)
  <2>1. /\ drain[c].pc = "authorize" /\ Calm
        /\ UNCHANGED <<local, edits, sync, page>> /\ UNCHANGED tasks
    BY <1>3 DEF AuthorizeStarts
  <2>2. PICK found \in Lookup(drain[c].file) :
            /\ AuthorizeRead(RequestOf(c, found))
            /\ SetDrain(c, [drain[c] EXCEPT !.pc = "authorizing", !.asked = RequestOf(c, found)])
    BY <1>3 DEF AuthorizeStarts
  <2>3. PICK tx \in AuthRequest : tx = RequestOf(c, found) /\ tx.file = drain[c].file
                                  /\ tx.client = c
    BY <2>1, RequestOfTypeOK
  <2>4. ApiInv' /\ Grows
    BY <2>2, <2>3, AuthorizeReadKeeps
  <2>5. ClientInv'
    BY <2>1, <2>2, <2>3, <2>4, AskKeeps DEF ApiInv
  <2>6. QED
    BY <2>1, <2>4, <2>5, TasksRest, Budget
<1>4. CASE AuthorizeGranted(c)
  <2>1. UNCHANGED tasks /\ Calm
    BY <1>4 DEF AuthorizeGranted
  <2>2. PICK tx \in authTx : Awaits(c, tx) /\ \E i \in TargetIds(tx) :
            AuthorizeCommit(tx, i) /\ Authorized(c, GrantOf(tx, i))
    BY <1>4 DEF AuthorizeGranted
  <2>9. PICK i \in TargetIds(tx) : AuthorizeCommit(tx, i) /\ Authorized(c, GrantOf(tx, i))
    BY <2>2
  <2>3. i \in Ids
    BY TargetFree
  <2>4. /\ ApiInv' /\ Grows
        /\ GrantOf(tx, i) \in Grant /\ GrantOf(tx, i).file = tx.file
        /\ rows'[i].file = tx.file
    BY <2>9, <2>3, AuthorizeCommitKeeps
  <2>5. tx.file = drain[c].file
    BY <2>2, AwaitsKnown
  <2>6. GrantOf(tx, i).id = i
    BY DEF GrantOf
  <2>7. ClientInv'
    BY <2>9, <2>4, <2>5, <2>6, AuthorizedKeeps DEF ApiInv
  <2>8. QED
    BY <2>1, <2>4, <2>7, TasksRest, Budget
<1>5. CASE AuthorizeUnsent(c)
  <2>1. drain[c].pc = "authorize" /\ FailPhoto(c) /\ UNCHANGED tasks /\ ApiIdle /\ Disturb
    BY <1>5 DEF AuthorizeUnsent
  <2>2. QED
    BY <2>1, ServerRests, FailPhotoKeeps, Budget DEF ApiInv
<1>6. QED
  BY <1>1, <1>2, <1>3, <1>4, <1>5

LEMMA UploadStepKeeps ==
    ASSUME IInv, NEW c \in Clients,
           \/ UploadBusy(c) \/ UploadArrives(c) \/ UploadAnswered(c)
           \/ UploadFails(c) \/ UploadBeats(c)
    PROVE  IInv'
<1> USE DEF IInv
<1>1. CASE UploadBusy(c)
  <2>1. WorkerBusy(c) /\ UNCHANGED tasks /\ ApiIdle /\ (Calm \/ Disturb)
    BY <1>1 DEF UploadBusy
  <2>2. QED
    BY <2>1, ServerRests, WorkerBusyKeeps, Budget DEF ApiInv
<1>2. CASE UploadArrives(c)
  <2>1. /\ drain[c].pc = "upload" /\ AcceptTask(drain[c].grant) /\ ApiIdle /\ Calm
        /\ SetDrain(c, [drain[c] EXCEPT !.pc = "sent"])
        /\ UNCHANGED <<local, edits, sync, page>>
    BY <1>2 DEF UploadArrives
  <2>2. ApiInv' /\ Grows /\ UNCHANGED rows
    BY <2>1, ApiRests DEF ApiIdle, apiVars
  <2>3. /\ drain[c].grant \in Grant
        /\ rows'[drain[c].grant.id].file = drain[c].grant.file
    BY <2>1, <2>2 DEF ClientInv, DrainInv
  <2>4. WorkerInv'
    BY <2>1, <2>2, <2>3, AcceptTaskKeeps
  <2>5. QED
    BY <2>1, <2>2, <2>4, SentKeeps, Budget DEF ApiInv
<1>3. CASE UploadAnswered(c)
  <2>1. UploadAccepted(c) /\ UNCHANGED tasks /\ ApiIdle /\ Calm
    BY <1>3 DEF UploadAnswered
  <2>2. QED
    BY <2>1, ServerRests, UploadAcceptedKeeps, Budget DEF ApiInv
<1>4. CASE UploadFails(c)
  <2>1. /\ drain[c].pc \notin {"idle", "next"}
        /\ FailPhoto(c) /\ UNCHANGED tasks /\ ApiIdle /\ Disturb
    BY <1>4 DEF UploadFails
  <2>2. QED
    BY <2>1, ServerRests, FailPhotoKeeps, Budget DEF ApiInv
<1>5. CASE UploadBeats(c)
  BY <1>5, HeartbeatKeeps, ClientStepKeeps DEF UploadBeats
<1>6. QED
  BY <1>1, <1>2, <1>3, <1>4, <1>5

LEMMA DrainStepKeeps ==
    ASSUME IInv, NEW c \in Clients, DrainStep(c)
    PROVE  IInv'
<1>1. CASE DrainStarts(c)
  BY <1>1, StartDrainKeeps, ClientStepKeeps DEF DrainStarts, IInv
<1>2. CASE DrainSkips(c)
  BY <1>2, SkipBackoffKeeps, ClientStepKeeps DEF DrainSkips, IInv
<1>3. CASE DrainRejects(c)
  BY <1>3, RejectInvalidKeeps, ClientStepKeeps DEF DrainRejects, IInv
<1>4. CASE DrainTakes(c)
  BY <1>4, TakePhotoKeeps, ClientStepKeeps DEF DrainTakes, IInv
<1>5. CASE DrainEnds(c)
  BY <1>5, EndDrainKeeps, ClientStepKeeps DEF DrainEnds, NoMorePhotos, IInv
<1>6. CASE DrainStops(c)
  BY <1>6, EndDrainKeeps, ClientStepKeeps DEF DrainStops, StopDrain, IInv
<1>7. CASE DrainCancelled(c)
  BY <1>7, CancelDrainKeeps, ClientStepKeeps DEF DrainCancelled, IInv
<1>8. QED
  BY <1>1, <1>2, <1>3, <1>4, <1>5, <1>6, <1>7, AuthorizeStepKeeps, UploadStepKeeps DEF DrainStep

-----------------------------------------------------------------------------
(* The worker's and the server's actions                                   *)

LEMMA TaskStepKeeps ==
    ASSUME IInv, NEW t \in tasks, TaskStep(t)
    PROVE  IInv'
<1> USE DEF IInv
\* A step of the task that leaves the API and the clients alone.
<1>1. ASSUME ApiIdle, WorkerOnly, Calm \/ Disturb, Grows => WorkerInv'
      PROVE  IInv'
  BY <1>1, ApiRests, ClientRests, Budget DEF ApiIdle, WorkerOnly, ApiInv
<1>2. CASE TaskCompletes(t)
  BY <1>1, <1>2, FinishProcessingKeeps DEF TaskCompletes
<1>3. CASE TaskErrs(t)
  BY <1>1, <1>3, FinishProcessingKeeps DEF TaskErrs
<1>4. CASE TaskFindsDeleted(t)
  BY <1>1, <1>4, TasksEnd DEF TaskFindsDeleted, AbandonDeleted, EndTask
<1>5. CASE TaskDies(t)
  BY <1>1, <1>5, TasksEnd DEF TaskDies, CrashTask, EndTask
<1>6. CASE TaskReports(t)
  <2>1. ReportAccepted(t) /\ UNCHANGED clientVars /\ Calm
    BY <1>6 DEF TaskReports, WorkerOnly
  <2>2. QED
    BY <2>1, ReportAcceptedKeeps, ClientRests, Budget DEF ApiInv
<1>7. CASE TaskRejected(t)
  BY <1>1, <1>7, TasksEnd DEF TaskRejected, ReportRejected, EndTask
<1>8. CASE ReportLost(t)
  BY <1>1, <1>8, ReportFailedKeeps DEF ReportLost
<1>9. CASE ReportRetried(t)
  BY <1>1, <1>9, ReportFailedKeeps DEF ReportRetried
<1>10. QED
  BY <1>2, <1>3, <1>4, <1>5, <1>6, <1>7, <1>8, <1>9 DEF TaskStep

LEMMA PostStepKeeps ==
    ASSUME IInv, NEW p \in postTx, PostStep(p)
    PROVE  IInv'
<1> USE DEF IInv
<1>1. /\ ProcessedCommit(p) \/ ProcessedAbort(p)
      /\ UNCHANGED clientVars /\ tasks' \subseteq tasks /\ (Calm \/ Disturb)
  BY DEF PostStep, PostSaved, PostSavedUnheard, PostAborted, WorkerOnly
<1>2. ApiInv' /\ Grows
  BY <1>1, ProcessedCommitKeeps, ProcessedAbortKeeps
<1>3. QED
  BY <1>1, <1>2, ClientRests, TasksEnd, Budget DEF ApiInv

\* An authorization nobody hears of, or that fails: the client that waits
\* fails its photo, the others do not notice.
LEMMA UnheardClientKeeps ==
    ASSUME IInv, Grows, NEW tx \in authTx,
           IF \E c \in Clients : Awaits(c, tx)
           THEN FailPhoto(tx.client) ELSE UNCHANGED clientVars
    PROVE  ClientInv'
<1>1. CASE \E c \in Clients : Awaits(c, tx)
  <2>1. PICK c \in Clients : Awaits(c, tx)
    BY <1>1
  <2>2. c = tx.client /\ drain[c].pc = "authorizing"
    BY <2>1, AwaitsKnown
  <2>3. QED
    BY <1>1, <2>2, FailPhotoKeeps DEF IInv, ApiInv
<1>2. CASE ~ \E c \in Clients : Awaits(c, tx)
  BY <1>2, ClientRests DEF IInv, ApiInv
<1>3. QED
  BY <1>1, <1>2

LEMMA ServerStepKeeps ==
    ASSUME IInv, ServerStep
    PROVE  IInv'
<1> USE DEF IInv
\* A handler's step on its own: no client and no task takes part.
<1>1. ASSUME ApiInv' /\ Grows, UNCHANGED clientVars, UNCHANGED tasks, Calm \/ Disturb
      PROVE  IInv'
  BY <1>1, ClientRests, TasksRest, Budget DEF ApiInv
<1>2. ASSUME NEW tx \in authTx, AuthorizeUnheard(tx)
      PROVE  IInv'
  <2>1. PICK i \in TargetIds(tx) : AuthorizeCommit(tx, i)
    BY <1>2 DEF AuthorizeUnheard
  <2>2. ApiInv' /\ Grows
    BY <2>1, TargetFree, AuthorizeCommitKeeps
  <2>3. /\ IF \E c \in Clients : Awaits(c, tx)
           THEN FailPhoto(tx.client) ELSE UNCHANGED clientVars
        /\ UNCHANGED tasks /\ (Calm \/ Disturb)
    BY <1>2 DEF AuthorizeUnheard
  <2>4. ClientInv'
    BY <2>2, <2>3, UnheardClientKeeps
  <2>5. QED
    BY <2>2, <2>3, <2>4, TasksRest, Budget
<1>3. ASSUME NEW tx \in authTx, AuthorizeFails(tx)
      PROVE  IInv'
  <2>1. ApiInv' /\ Grows
    BY <1>3, AuthorizeRollbackKeeps DEF AuthorizeFails
  <2>2. /\ IF \E c \in Clients : Awaits(c, tx)
           THEN FailPhoto(tx.client) ELSE UNCHANGED clientVars
        /\ UNCHANGED tasks /\ Disturb
    BY <1>3 DEF AuthorizeFails
  <2>3. ClientInv'
    BY <2>1, <2>2, UnheardClientKeeps
  <2>4. QED
    BY <2>1, <2>2, <2>3, TasksRest, Budget
<1>4. ASSUME NEW i \in Ids, UserDeletes(i)
      PROVE  IInv'
  BY <1>1, <1>4, DeletePhotoKeeps DEF UserDeletes
<1>5. CASE CleanupStarts
  BY <1>1, <1>5, CleanupReadKeeps DEF CleanupStarts
<1>6. CASE CleanupEnds
  BY <1>1, <1>6, CleanupCommitKeeps DEF CleanupEnds
<1>7. CASE ClockTicks
  BY <1>1, <1>7, TickKeeps DEF ClockTicks
<1>8. QED
  BY <1>2, <1>3, <1>4, <1>5, <1>6, <1>7, PostStepKeeps DEF ServerStep

-----------------------------------------------------------------------------
(* The theorems                                                            *)

\* Nothing is captured, asked, granted or accepted yet.
LEMMA InitEstablishes == Init => IInv
<1> SUFFICES ASSUME Init PROVE IInv
  OBVIOUS
<1>1. ApiInv
  <2>1. Blank \in Row
    <3>1. 0 \in 0 .. MaxVersion /\ 0 \in Seconds
      BY ApiAssumption DEF Seconds
    <3>2. QED
      BY <3>1 DEF Blank, Row
  <2>2. ApiTypeOK
    BY <2>1, ApiAssumption DEF Init, ApiInit, ApiTypeOK, Seconds
  <2>3. RowsInv /\ RequestsInv
    BY DEF Init, ApiInit, RowsInv, RequestsInv, Blank
  <2>4. QED
    BY <2>2, <2>3 DEF ApiInv
<1>2. /\ \A c \in Clients, f \in Files : local[c][f] = NotCaptured /\ edits[c][f] = 0
      /\ \A c \in Clients : drain[c] = NoDrain /\ sync[c] = NoSync /\ page[c] = NoPage
  BY DEF Init, ClientInit
<1>3. ClientTypeOK
  <2>1. NotCaptured \in LocalRow
    BY ApiAssumption DEF NotCaptured, LocalRow, LocalStatus, Versions
  <2>2. NoDrain \in DrainState
    BY DEF NoDrain, DrainState, LocalStatus
  <2>3. NoSync \in SyncState
    BY DEF NoSync, SyncState, Answer
  <2>4. NoPage \in [Ids -> Answer]
    BY DEF NoPage, Answer
  <2>5. QED
    BY <2>1, <2>2, <2>3, <2>4 DEF Init, ClientInit, ClientTypeOK
<1>4. DrainInv
  BY <1>2 DEF DrainInv, NoDrain
<1>5. AnswerInv
  BY <1>2 DEF AnswerInv, JobsInv, PagesInv, NoSync, NoPage
<1>6. EditsInv /\ PhotosInv
  BY <1>2, ApiAssumption DEF EditsInv, PhotosInv, NotCaptured
<1>7. WorkerInv
  BY DEF Init, WorkerInit, WorkerInv, WorkerTypeOK, TasksInv
<1>8. disturbances \in 0 .. MaxDisturbances
  BY ProtocolAssumption DEF Init
<1>9. QED
  BY <1>1, <1>3, <1>4, <1>5, <1>6, <1>7, <1>8 DEF IInv, ClientInv

\* The sign that nothing happened.
LEMMA StutterKeeps == IInv /\ UNCHANGED vars => IInv'
<1> SUFFICES ASSUME IInv, UNCHANGED vars PROVE IInv'
  OBVIOUS
<1>1. UNCHANGED apiVars /\ UNCHANGED clientVars /\ UNCHANGED tasks /\ UNCHANGED disturbances
  BY DEF vars, apiVars, clientVars
<1>2. QED
  BY <1>1, ApiRests, ClientRests, TasksRest DEF IInv, ApiInv

LEMMA NextKeeps == IInv /\ Next => IInv'
  BY DrainStepKeeps, SyncStepKeeps, UserStepKeeps, TaskStepKeeps, ServerStepKeeps DEF Next

\* Every reachable state of the protocol satisfies the inductive invariant.
THEOREM Invariance == Spec => []IInv
<1>1. Init => IInv
  BY InitEstablishes
<1>2. IInv /\ [Next]_vars => IInv'
  BY NextKeeps, StutterKeeps
<1>3. QED
  BY <1>1, <1>2, PTL DEF Spec

\* Every variable keeps its type; in particular versions, seconds, retries and
\* pending edits stay within their bounds.
THEOREM TypeCorrect == Spec => []TypeOK
<1>1. IInv => TypeOK
  BY DEF IInv, ApiInv, ClientInv, WorkerInv, TypeOK
<1>2. QED
  BY <1>1, Invariance, PTL

\* No client ever shows a photo as uploaded that the server never recorded as
\* processed.
THEOREM CompletedSafe == Spec => []CompletedWasServed
<1>1. IInv => CompletedWasServed
  BY DEF IInv, ClientInv, PhotosInv, CompletedWasServed
<1>2. QED
  BY <1>1, Invariance, PTL

\* No client ever gives up a photo that nobody deleted on the server.
THEOREM DeletedSafe == Spec => []DeletedWasRemoved
<1>1. IInv => DeletedWasRemoved
  BY DEF IInv, ClientInv, PhotosInv, DeletedWasRemoved
<1>2. QED
  BY <1>1, Invariance, PTL

\* A photo's server id, and a task's, never come to name another content.
THEOREM ServerIdSafe == Spec => []ServerIdOfSameFile
<1>1. IInv => ServerIdOfSameFile
  BY DEF IInv, ClientInv, PhotosInv, WorkerInv, TasksInv, ServerIdOfSameFile
<1>2. QED
  BY <1>1, Invariance, PTL

-----------------------------------------------------------------------------
(* The protocol implements UploadPromise: every step serves a file, removes *)
(* one, changes what one client shows to something it may show, or changes *)
(* nothing the promise speaks of.                                          *)
(*                                                                         *)
(* Whether a client may show what it shows after a step is what the        *)
(* inductive invariant says of the state after it; that it is one client   *)
(* only, and that giving up is final, is shown action by action.           *)

\* Only client c's photos change, and none it gave up comes back.
Moves(c) ==
    /\ \A d \in Clients : d # c => local'[d] = local[d]
    /\ \A f \in Files : local[c][f].deleted => local'[c][f].deleted

LEMMA NoMove ==
    ASSUME UNCHANGED local, NEW c \in Clients
    PROVE  Moves(c)
  BY DEF Moves

LEMMA PhotoMoves ==
    ASSUME ClientInv, NEW c \in Clients, NEW f \in Files, NEW q, SetPhoto(c, f, q),
           q.deleted = local[c][f].deleted
    PROVE  Moves(c)
<1>1. local \in [Clients -> [Files -> LocalRow]]
  BY DEF ClientInv, ClientTypeOK
<1>2. QED
  BY <1>1 DEF SetPhoto, Moves

LEMMA InHandMoves ==
    ASSUME ClientInv, NEW c \in Clients, drain[c].pc \notin {"idle", "next"},
           NEW q, SetInHand(c, q), q.deleted = InHand(c).deleted
    PROVE  Moves(c)
  BY InHandKnown, PhotoMoves DEF SetInHand

\* The updates of a row that leave its `deleted` alone.
LEMMA SameDeleted ==
    ASSUME NEW p \in LocalRow
    PROVE  /\ Failed(p).deleted = p.deleted
           /\ \A st : [p EXCEPT !.status = st].deleted = p.deleted
           /\ \A i : [p EXCEPT !.sid = i].deleted = p.deleted
           /\ \A b : [p EXCEPT !.aged = b].deleted = p.deleted
           /\ \A st, v : [p EXCEPT !.status = st, !.version = v].deleted = p.deleted
  BY DEF Failed, LocalRow

-----------------------------------------------------------------------------
(* One client at a time                                                    *)

LEMMA FailPhotoMoves ==
    ASSUME ClientInv, NEW c \in Clients, drain[c].pc \notin {"idle", "next"}, FailPhoto(c)
    PROVE  Moves(c)
  BY InHandKnown, InHandMoves, SameDeleted DEF FailPhoto

LEMMA RestoreMoves ==
    ASSUME ClientInv, NEW c \in Clients, drain[c].pc \notin {"idle", "next"}, Restore(c)
    PROVE  Moves(c)
  BY InHandKnown, InHandMoves, SameDeleted DEF Restore

LEMMA StartDrainMoves ==
    ASSUME ClientInv, NEW c \in Clients, NEW m, StartDrain(c, m)
    PROVE  Moves(c)
<1>1. local \in [Clients -> [Files -> LocalRow]]
  BY DEF ClientInv, ClientTypeOK
<1>2. \A f \in Files : Edited(c)[f].deleted = local[c][f].deleted
  BY <1>1, SameDeleted DEF Edited
<1>3. local' = [local EXCEPT ![c] = Edited(c)]
  BY DEF StartDrain
<1>4. QED
  BY <1>1, <1>2, <1>3 DEF Moves

LEMMA UpdatedFinal ==
    ASSUME NEW p \in LocalRow, NEW a, p.deleted
    PROVE  Updated(p, a).deleted
  BY DEF Updated, Failed, LocalRow

LEMMA ApplyStatusesMoves ==
    ASSUME ClientInv, NEW c \in Clients, ApplyStatuses(c)
    PROVE  Moves(c)
<1>1. local \in [Clients -> [Files -> LocalRow]]
  BY DEF ClientInv, ClientTypeOK
<1>2. \A f \in Files : local[c][f].deleted => Updated(local[c][f], sync[c].answer[f]).deleted
  BY <1>1, UpdatedFinal
<1>3. local' = [local EXCEPT ![c] =
          [f \in Files |-> IF sync[c].asked[f] = None THEN local[c][f]
                           ELSE Updated(local[c][f], sync[c].answer[f])]]
  BY DEF ApplyStatuses
<1>4. QED
  BY <1>1, <1>2, <1>3 DEF Moves

LEMMA ApplyPageMoves ==
    ASSUME ClientInv, NEW c \in Clients, ApplyPage(c)
    PROVE  Moves(c)
<1>1. local \in [Clients -> [Files -> LocalRow]]
  BY DEF ClientInv, ClientTypeOK
<1>2. \A f \in Files : local[c][f].deleted => Updated(local[c][f], page[c][local[c][f].sid]).deleted
  BY <1>1, UpdatedFinal
<1>3. local' = [local EXCEPT ![c] =
          [f \in Files |-> IF Processing(c, f)
                           THEN Updated(local[c][f], page[c][local[c][f].sid])
                           ELSE local[c][f]]]
  BY DEF ApplyPage
<1>4. QED
  BY <1>1, <1>2, <1>3 DEF Moves

LEMMA UserStepMoves ==
    ASSUME ClientInv, NEW c \in Clients, UserStep(c)
    PROVE  Moves(c) /\ UNCHANGED <<best, removed>>
<1>1. UNCHANGED <<best, removed>>
  BY DEF UserStep, ClientDies, UserCaptures, UserEdits, TimePasses, ClientOnly, apiVars
<1>2. CASE ClientDies(c)
  BY <1>1, <1>2, NoMove DEF ClientDies, KillClient
<1>3. ASSUME NEW f \in Files, UserCaptures(c, f) PROVE Moves(c)
  BY <1>3, ClientParts, PhotoMoves, SameDeleted DEF UserCaptures, Capture
<1>4. ASSUME NEW f \in Files, UserEdits(c, f) PROVE Moves(c)
  BY <1>4, NoMove DEF UserEdits, CreateEdit
<1>5. ASSUME NEW f \in Files, TimePasses(c, f) PROVE Moves(c)
  BY <1>5, ClientParts, PhotoMoves, SameDeleted DEF TimePasses, Age
<1>6. QED
  BY <1>1, <1>2, <1>3, <1>4, <1>5 DEF UserStep

LEMMA SyncStepMoves ==
    ASSUME ClientInv, NEW c \in Clients, SyncStep(c)
    PROVE  Moves(c) /\ UNCHANGED <<best, removed>>
<1>1. UNCHANGED <<best, removed>>
  BY DEF SyncStep, SyncReads, SyncAnswered, SyncApplies, SyncLost, PageFetches,
         PageApplies, ClientOnly, apiVars
<1>2. CASE SyncReads(c) \/ SyncAnswered(c) \/ SyncLost(c) \/ PageFetches(c)
  BY <1>1, <1>2, NoMove DEF SyncReads, ReadProcessing, SyncAnswered, SyncLost, SyncFails, PageFetches
<1>3. CASE SyncApplies(c)
  BY <1>1, <1>3, ApplyStatusesMoves DEF SyncApplies
<1>4. CASE PageApplies(c)
  BY <1>1, <1>4, ApplyPageMoves DEF PageApplies
<1>5. QED
  BY <1>1, <1>2, <1>3, <1>4 DEF SyncStep

LEMMA DrainStepMoves ==
    ASSUME ClientInv, NEW c \in Clients, DrainStep(c)
    PROVE  Moves(c) /\ UNCHANGED <<best, removed>>
<1>1. CASE \/ DrainStarts(c) \/ DrainSkips(c) \/ DrainRejects(c) \/ DrainTakes(c)
           \/ DrainEnds(c) \/ DrainStops(c) \/ DrainCancelled(c) \/ UploadBeats(c)
  <2>1. UNCHANGED <<best, removed>>
    BY <1>1 DEF DrainStarts, DrainSkips, DrainRejects, DrainTakes, DrainEnds, DrainStops,
                DrainCancelled, UploadBeats, ClientOnly, apiVars
  <2>2. CASE DrainStarts(c)
    BY <2>1, <2>2, StartDrainMoves DEF DrainStarts
  <2>3. CASE DrainSkips(c) \/ DrainEnds(c) \/ DrainStops(c)
    BY <2>1, <2>3, NoMove DEF DrainSkips, SkipBackoff, DrainEnds, NoMorePhotos, DrainStops,
                        StopDrain, EndDrain
  <2>4. CASE DrainRejects(c)
    BY <2>1, <2>4, ClientParts, PhotoMoves, SameDeleted DEF DrainRejects, RejectInvalid
  <2>5. CASE DrainTakes(c)
    BY <2>1, <2>5, ClientParts, PhotoMoves, SameDeleted DEF DrainTakes, TakePhoto
  <2>6. CASE DrainCancelled(c)
    BY <2>1, <2>6, NoMove, RestoreMoves DEF DrainCancelled, CancelDrain
  <2>7. CASE UploadBeats(c)
    BY <2>1, <2>7, InHandKnown, InHandMoves, SameDeleted DEF UploadBeats, Heartbeat
  <2>8. QED
    BY <1>1, <2>1, <2>2, <2>3, <2>4, <2>5, <2>6, <2>7
<1>2. CASE \/ AuthorizeDuplicate(c) \/ AuthorizeHeals(c) \/ AuthorizeStarts(c)
           \/ AuthorizeGranted(c) \/ AuthorizeUnsent(c)
  <2>1. UNCHANGED <<best, removed>>
    BY <1>2 DEF AuthorizeDuplicate, AuthorizeHeals, RegisterKey, AuthorizeStarts, AuthorizeRead,
                AuthorizeGranted, AuthorizeCommit, AuthorizeUnsent, ApiIdle, apiVars
  <2>2. CASE AuthorizeDuplicate(c)
    BY <2>1, <2>2, InHandKnown, InHandMoves, SameDeleted DEF AuthorizeDuplicate, DuplicatePhoto
  <2>3. CASE AuthorizeHeals(c) \/ AuthorizeStarts(c)
    BY <2>1, <2>3, NoMove DEF AuthorizeHeals, AuthorizeStarts, clientVars
  <2>4. CASE AuthorizeGranted(c)
    BY <2>1, <2>4, InHandKnown, InHandMoves, SameDeleted DEF AuthorizeGranted, Authorized
  <2>5. CASE AuthorizeUnsent(c)
    BY <2>1, <2>5, FailPhotoMoves DEF AuthorizeUnsent
  <2>6. QED
    BY <1>2, <2>1, <2>2, <2>3, <2>4, <2>5
<1>3. CASE UploadBusy(c) \/ UploadArrives(c) \/ UploadAnswered(c) \/ UploadFails(c)
  <2>1. UNCHANGED <<best, removed>>
    BY <1>3 DEF UploadBusy, UploadArrives, UploadAnswered, UploadFails, ApiIdle, apiVars
  <2>2. CASE UploadBusy(c)
    BY <2>1, <2>2, RestoreMoves DEF UploadBusy, WorkerBusy
  <2>3. CASE UploadArrives(c)
    BY <2>1, <2>3, NoMove DEF UploadArrives
  <2>4. CASE UploadAnswered(c)
    <3> DEFINE q == [InHand(c) EXCEPT !.status = "processing", !.sid = drain[c].grant.id,
                                      !.aged = FALSE]
    <3>1. drain[c].pc = "sent" /\ SetInHand(c, q)
      BY <2>4 DEF UploadAnswered, UploadAccepted
    <3>2. q.deleted = InHand(c).deleted
      BY <3>1, InHandKnown DEF LocalRow
    <3> HIDE DEF q
    <3>3. QED
      BY <2>1, <3>1, <3>2, InHandMoves
  <2>5. CASE UploadFails(c)
    BY <2>1, <2>5, FailPhotoMoves DEF UploadFails
  <2>6. QED
    BY <1>3, <2>1, <2>2, <2>3, <2>4, <2>5
<1>4. QED
  BY <1>1, <1>2, <1>3 DEF DrainStep

-----------------------------------------------------------------------------
(* The steps of the promise                                                *)

\* What client c shows after a step that only moves it is sound.
LEMMA ShowStep ==
    ASSUME IInv', NEW c \in Clients, Moves(c), UNCHANGED <<best, removed>>
    PROVE  Promise!Next
<1>1. PICK done \in SUBSET Files, gone \in SUBSET Files :
           /\ done = {f \in Files : local'[c][f].status = "completed"}
           /\ gone = {f \in Files : local'[c][f].deleted}
  OBVIOUS
<1>2. \A f \in Files : /\ local'[c][f].status = "completed" => best'[f] > 0
                       /\ local'[c][f].deleted => f \in removed'
  BY DEF IInv, ClientInv, PhotosInv
<1>3. Promise!Show(c, done, gone)
  BY <1>1, <1>2 DEF Promise!Show, Moves
<1>4. QED
  BY <1>3 DEF Promise!Next

LEMMA QuietStep ==
    ASSUME UNCHANGED <<local, best, removed>>
    PROVE  UNCHANGED Promise!promiseVars
  BY DEF Promise!promiseVars

\* A committed report serves its row's file, or records it once more.
LEMMA SaveServes ==
    ASSUME ApiInv, NEW p \in postTx, ProcessedCommit(p), UNCHANGED local
    PROVE  [Promise!Next]_(Promise!promiseVars)
<1> DEFINE f == rows[p.grant.id].file
           v == p.grant.version
<1>1. p.grant.id \in Ids /\ v \in 1 .. MaxVersion
  BY DEF ApiInv, ApiTypeOK, Post, Grant, Versions
<1>2. rows[p.grant.id].status # "absent" /\ UNCHANGED removed
      /\ best' = IF p.outcome = "completed" /\ v > best[f]
                 THEN [best EXCEPT ![f] = v] ELSE best
  BY DEF ProcessedCommit
<1>3. f \in Files
  BY <1>1, <1>2, RowParts DEF ApiInv, RowsInv
<1>4. best \in [Files -> 0 .. MaxVersion]
  BY DEF ApiInv, ApiTypeOK
<1> HIDE DEF f, v
<1>5. CASE best' = best
  BY <1>2, <1>5, QuietStep
<1>6. CASE best' = [best EXCEPT ![f] = v]
  <2>1. PICK h \in Files : h = f
    BY <1>3
  <2>2. {g \in Files : best'[g] > 0} = {g \in Files : best[g] > 0} \cup {h}
    BY <1>1, <1>4, <1>6, <2>1, ApiAssumption
  <2>3. Promise!Serve(h)
    BY <1>2, <2>2 DEF Promise!Serve
  <2>4. QED
    BY <2>3 DEF Promise!Next
<1>7. QED
  BY <1>2, <1>5, <1>6

LEMMA DeleteRemoves ==
    ASSUME ApiInv, NEW i \in Ids, DeletePhoto(i), UNCHANGED local
    PROVE  Promise!Next
<1>1. rows[i].file \in Files
  BY RowParts DEF ApiInv, RowsInv, DeletePhoto
<1>2. Promise!Remove(rows[i].file)
  BY DEF DeletePhoto, Promise!Remove
<1>3. QED
  BY <1>1, <1>2 DEF Promise!Next

LEMMA UnheardShows ==
    ASSUME IInv, IInv', NEW tx \in authTx, UNCHANGED <<best, removed>>,
           IF \E c \in Clients : Awaits(c, tx)
           THEN FailPhoto(tx.client) ELSE UNCHANGED clientVars
    PROVE  [Promise!Next]_(Promise!promiseVars)
<1>1. CASE \E c \in Clients : Awaits(c, tx)
  <2>1. PICK c \in Clients : Awaits(c, tx)
    BY <1>1
  <2>2. c = tx.client /\ drain[c].pc = "authorizing"
    BY <2>1, AwaitsKnown
  <2>3. QED
    BY <1>1, <2>2, FailPhotoMoves, ShowStep DEF IInv
<1>2. CASE ~ \E c \in Clients : Awaits(c, tx)
  BY <1>2, QuietStep DEF clientVars
<1>3. QED
  BY <1>1, <1>2

LEMMA TaskQuiet ==
    ASSUME NEW t \in tasks, TaskStep(t)
    PROVE  UNCHANGED <<local, best, removed>>
  BY DEF TaskStep, TaskCompletes, TaskErrs, TaskFindsDeleted, TaskDies, TaskReports,
         ReportAccepted, ProcessedRead, TaskRejected, ReportLost, ReportRetried,
         WorkerOnly, ApiIdle, apiVars, clientVars

LEMMA ServerStepPromised ==
    ASSUME IInv, IInv', ServerStep
    PROVE  [Promise!Next]_(Promise!promiseVars)
<1>1. ASSUME NEW tx \in authTx, AuthorizeUnheard(tx) \/ AuthorizeFails(tx)
      PROVE  [Promise!Next]_(Promise!promiseVars)
  <2>1. UNCHANGED <<best, removed>>
    BY <1>1 DEF AuthorizeUnheard, AuthorizeCommit, AuthorizeFails, AuthorizeRollback
  <2>2. IF \E c \in Clients : Awaits(c, tx)
        THEN FailPhoto(tx.client) ELSE UNCHANGED clientVars
    BY <1>1 DEF AuthorizeUnheard, AuthorizeFails
  <2>3. QED
    BY <2>1, <2>2, UnheardShows
<1>2. ASSUME NEW p \in postTx, PostSaved(p) \/ PostSavedUnheard(p)
      PROVE  [Promise!Next]_(Promise!promiseVars)
  BY <1>2, SaveServes DEF PostSaved, PostSavedUnheard, WorkerOnly, clientVars, IInv
<1>3. ASSUME NEW p \in postTx, PostAborted(p)
      PROVE  [Promise!Next]_(Promise!promiseVars)
  BY <1>3, QuietStep DEF PostAborted, ProcessedAbort, WorkerOnly, clientVars
<1>4. ASSUME NEW i \in Ids, UserDeletes(i)
      PROVE  [Promise!Next]_(Promise!promiseVars)
  BY <1>4, DeleteRemoves DEF UserDeletes, clientVars, IInv
<1>5. CASE CleanupStarts \/ CleanupEnds \/ ClockTicks
  BY <1>5, QuietStep DEF CleanupStarts, CleanupRead, CleanupEnds, CleanupCommit,
                         ClockTicks, Tick, clientVars
<1>6. QED
  BY <1>1, <1>2, <1>3, <1>4, <1>5 DEF ServerStep, PostStep

LEMMA StepPromised ==
    ASSUME IInv, IInv', [Next]_vars
    PROVE  [Promise!Next]_(Promise!promiseVars)
<1>1. ASSUME NEW c \in Clients, DrainStep(c) \/ SyncStep(c) \/ UserStep(c)
      PROVE  Promise!Next
  BY <1>1, DrainStepMoves, SyncStepMoves, UserStepMoves, ShowStep DEF IInv
<1>2. ASSUME NEW t \in tasks, TaskStep(t)
      PROVE  UNCHANGED Promise!promiseVars
  BY <1>2, TaskQuiet, QuietStep
<1>3. CASE UNCHANGED vars
  BY <1>3, QuietStep DEF vars
<1>4. QED
  BY <1>1, <1>2, <1>3, ServerStepPromised DEF Next

\* Nothing is served, removed, claimed or given up at first.
LEMMA InitPromised == Init => Promise!Init
<1> SUFFICES ASSUME Init PROVE Promise!Init
  OBVIOUS
<1>1. {f \in Files : best[f] > 0} = {} /\ removed = {}
  BY DEF Init, ApiInit
<1>2. \A c \in Clients, f \in Files :
          local[c][f].status # "completed" /\ ~ local[c][f].deleted
  BY DEF Init, ClientInit, NotCaptured
<1>3. QED
  BY <1>1, <1>2 DEF Promise!Init

\* The upload protocol, with all its tables, transactions, tasks and failures,
\* implements what it promises its users.
THEOREM Refinement == Spec => ImplementsPromise
<1>1. Init => Promise!Init
  BY InitPromised
<1>2. IInv /\ IInv' /\ [Next]_vars => [Promise!Next]_(Promise!promiseVars)
  BY StepPromised
<1>3. QED
  BY <1>1, <1>2, Invariance, PTL DEF Spec, ImplementsPromise, Promise!Spec

=============================================================================
