----------------------------- MODULE WorkerProofs -----------------------------
(***************************************************************************)
(* Theorems about the worker: its process pool (WorkerPool), the machine   *)
(* around it (WorkerMachine), the files it posts to the API (PhotoFiles),  *)
(* and what it makes of one photo (Renditions).                            *)
(***************************************************************************)
EXTENDS WorkerPool, WorkerMachine, PhotoFiles, Renditions, WellFoundedInduction, TLAPS

-----------------------------------------------------------------------------
(* The pool: a job that was failed with its child does not run again.       *)

Outcomes == {"none", "ok", "error", "died"}

PoolTypes ==
    /\ job \in [Jobs -> {"queued", "gate", "submitted", "done"}]
    /\ posted \in [Jobs -> Outcomes]
    /\ jobQueue \subseteq Jobs /\ running \subseteq Jobs
    /\ results \in Seq(Jobs \X {"picked", "ok", "error"})

\* Nothing runs, or is about to, for a task that has not been submitted.
Unsubmitted(j) ==
    job[j] \in {"queued", "gate"} => posted[j] = "none" /\ j \notin jobQueue \cup running

\* A failed job is nowhere in a living child; while the supervisor is between
\* failing and rebuilding, it is among those it will leave out.
FailedIsOut(j) ==
    posted[j] = "died" =>
        IF child = "popped" THEN job[j] = "submitted" => j \in doomed
                            ELSE j \notin running \cup jobQueue

PoolInv ==
    /\ PoolTypes
    /\ running \cap jobQueue = {}
    /\ ~ Alive => running = {}
    /\ \A j \in Jobs : Unsubmitted(j) /\ FailedIsOut(j)

\* Whatever the drainer and the supervisor post, only a pending job without an
\* outcome gets one.
LEMMA PostReaches ==
    ASSUME PoolTypes, NEW S, NEW outcome \in Outcomes, Post(S, outcome)
    PROVE  /\ posted' \in [Jobs -> Outcomes]
           /\ \A j \in Jobs : posted'[j] # posted[j] =>
                 j \in S /\ job[j] = "submitted" /\ posted'[j] = outcome
BY DEF Post, PoolTypes, Pending, At

\* A task moves on without the child noticing.
LEMMA TaskMoves ==
    ASSUME PoolInv, NEW j \in Jobs, NEW place \in {"queued", "gate", "submitted", "done"},
           job' = [job EXCEPT ![j] = place], job[j] # "done",
           place = "gate" => job[j] = "queued", place # "queued",
           place = "submitted" => job[j] = "gate",
           UNCHANGED <<posted, jobQueue, running, results, child, doomed>>
    PROVE  PoolInv'
<1>1. job' \in [Jobs -> {"queued", "gate", "submitted", "done"}]
      /\ \A i \in Jobs : job'[i] = IF i = j THEN place ELSE job[i]
  BY DEF PoolInv, PoolTypes
<1>2. \A i \in Jobs : Unsubmitted(i)' /\ FailedIsOut(i)'
  BY <1>1 DEF PoolInv, Unsubmitted, FailedIsOut
<1>3. QED
  BY <1>1, <1>2 DEF PoolInv, PoolTypes, Alive

LEMMA SubmitKeeps ==
    ASSUME PoolInv, NEW j \in Jobs, Submit(j)
    PROVE  PoolInv'
<1>1. /\ job' = [job EXCEPT ![j] = "submitted"] /\ job[j] = "gate"
      /\ jobQueue' = jobQueue \cup {j}
      /\ UNCHANGED <<posted, running, results, child, doomed>>
  BY DEF Submit, elsewhere
<1>2. posted[j] = "none" /\ j \notin running
  BY <1>1 DEF PoolInv, Unsubmitted
<1>3. \A i \in Jobs : job'[i] = IF i = j THEN "submitted" ELSE job[i]
  BY <1>1 DEF PoolInv, PoolTypes
<1>4. \A i \in Jobs : Unsubmitted(i)' /\ FailedIsOut(i)'
  BY <1>1, <1>2, <1>3 DEF PoolInv, Unsubmitted, FailedIsOut
<1>5. PoolTypes'
  BY <1>1 DEF PoolInv, PoolTypes
<1>6. QED
  BY <1>1, <1>2, <1>4, <1>5 DEF PoolInv, Alive

LEMMA DeathKeeps ==
    ASSUME PoolInv, NEW how \in {"terminated", "killed"}, ChildDies(how),
           job' \in [Jobs -> {"queued", "gate", "submitted", "done"}],
           \A j \in Jobs : job'[j] = job[j] \/ job'[j] = "done",
           UNCHANGED <<posted, jobQueue, doomed>>
    PROVE  PoolInv'
<1>1. running' = {} /\ child' = how /\ child \in {"warming", "up"}
  BY DEF ChildDies, Alive
<1>2. results' \in Seq(Jobs \X {"picked", "ok", "error"})
  <2>1. PICK n \in 0..Len(results) : results' = SubSeq(results, 1, n)
    BY DEF ChildDies
  <2>2. results \in Seq(Jobs \X {"picked", "ok", "error"})
    BY DEF PoolInv, PoolTypes
  <2>3. QED
    BY <2>1, <2>2
<1>3. \A j \in Jobs : Unsubmitted(j)' /\ FailedIsOut(j)'
  BY <1>1 DEF PoolInv, PoolTypes, Unsubmitted, FailedIsOut
<1>4. QED
  BY <1>1, <1>2, <1>3 DEF PoolInv, PoolTypes, Alive

LEMMA TimeoutKeeps ==
    ASSUME PoolInv, NEW j \in Jobs, TimesOut(j)
    PROVE  PoolInv'
<1>1. /\ job' = [job EXCEPT ![j] = "done"] /\ job[j] = "submitted"
      /\ UNCHANGED <<posted, jobQueue, doomed>>
  BY DEF TimesOut, End
<1>2. job' \in [Jobs -> {"queued", "gate", "submitted", "done"}]
      /\ \A i \in Jobs : job'[i] = job[i] \/ job'[i] = "done"
  BY <1>1 DEF PoolInv, PoolTypes
<1>3. CASE ChildDies("terminated")
  BY <1>1, <1>2, <1>3, DeathKeeps
<1>4. CASE UNCHANGED <<child, results, poisoned, running>>
  BY <1>1, <1>4, TaskMoves
<1>5. QED
  BY <1>3, <1>4 DEF TimesOut

LEMMA PullKeeps ==
    ASSUME PoolInv, NEW j \in Jobs, Pull(j)
    PROVE  PoolInv'
<1>1. /\ j \in jobQueue /\ jobQueue' = jobQueue \ {j} /\ running' = running \cup {j}
      /\ child' = child /\ child = "up"
      /\ UNCHANGED <<job, posted, doomed>>
      /\ results' = Append(results, <<j, "picked">>)
  BY DEF Pull, parentVars
<1>2. results' \in Seq(Jobs \X {"picked", "ok", "error"})
  BY <1>1 DEF PoolInv, PoolTypes
<1>3. \A i \in Jobs : Unsubmitted(i)' /\ FailedIsOut(i)'
  BY <1>1 DEF PoolInv, Unsubmitted, FailedIsOut
<1>4. QED
  BY <1>1, <1>2, <1>3 DEF PoolInv, PoolTypes, Alive

LEMMA FinishKeeps ==
    ASSUME PoolInv, NEW j \in Jobs, NEW outcome \in {"ok", "error"}, Finish(j, outcome)
    PROVE  PoolInv'
<1>1. /\ j \in running /\ running' = running \ {j}
      /\ UNCHANGED <<job, posted, doomed, jobQueue, child>>
      /\ results' = Append(results, <<j, outcome>>)
  BY DEF Finish, parentVars
<1>2. results' \in Seq(Jobs \X {"picked", "ok", "error"})
  BY <1>1 DEF PoolInv, PoolTypes
<1>3. \A i \in Jobs : Unsubmitted(i)' /\ FailedIsOut(i)'
  BY <1>1 DEF PoolInv, Unsubmitted, FailedIsOut
<1>4. QED
  BY <1>1, <1>2, <1>3 DEF PoolInv, PoolTypes, Alive

LEMMA DrainKeeps ==
    ASSUME PoolInv, Drain
    PROVE  PoolInv'
<1>1. /\ results # <<>> /\ results' = Tail(results)
      /\ UNCHANGED <<job, jobQueue, running, child, doomed>>
      /\ results \in Seq(Jobs \X {"picked", "ok", "error"})
  BY DEF Drain, PoolInv, PoolTypes
<1>2. Head(results) \in Jobs \X {"picked", "ok", "error"}
      /\ results' \in Seq(Jobs \X {"picked", "ok", "error"})
  BY <1>1
<1>3. Head(results)[2] \in {"picked", "ok", "error"}
  BY <1>2
<1>4. /\ posted' \in [Jobs -> Outcomes]
      /\ \A i \in Jobs : posted'[i] # posted[i] => job[i] = "submitted" /\ posted'[i] # "died"
  <2>1. CASE Head(results)[2] = "picked"
    BY <2>1 DEF Drain, PoolInv, PoolTypes
  <2>2. CASE Head(results)[2] # "picked"
    <3>1. Head(results)[2] \in {"ok", "error"} /\ Head(results)[2] \in Outcomes
      BY <1>3, <2>2 DEF Outcomes
    <3>2. Post({Head(results)[1]}, Head(results)[2])
      BY <2>2 DEF Drain
    <3>3. QED
      BY <3>1, <3>2, PostReaches DEF PoolInv
  <2>3. QED
    BY <2>1, <2>2
<1>5. \A i \in Jobs : Unsubmitted(i)' /\ FailedIsOut(i)'
  BY <1>1, <1>4 DEF PoolInv, Unsubmitted, FailedIsOut
<1>6. QED
  BY <1>1, <1>2, <1>4, <1>5 DEF PoolInv, PoolTypes, Alive

LEMMA FailInflightKeeps ==
    ASSUME PoolInv, FailInflight
    PROVE  PoolInv'
<1>1. /\ child \in {"terminated", "killed"} /\ child' = "popped" /\ doomed' = inflight
      /\ UNCHANGED <<job, jobQueue, results, running>>
      /\ Post(inflight, "died")
      /\ \A j \in Jobs : job[j] = "submitted" => posted[j] # "died"
  BY DEF FailInflight, LoopKeepsUp, Pending, At
<1>2. /\ posted' \in [Jobs -> Outcomes]
      /\ \A j \in Jobs : posted'[j] # posted[j] => j \in inflight /\ job[j] = "submitted"
  BY <1>1, PostReaches DEF PoolInv, Outcomes
<1>3. running' = {}
  BY <1>1 DEF PoolInv, Alive
<1>4. \A j \in Jobs : Unsubmitted(j)' /\ FailedIsOut(j)'
  BY <1>1, <1>2, <1>3 DEF PoolInv, Unsubmitted, FailedIsOut
<1>5. QED
  BY <1>1, <1>2, <1>3, <1>4 DEF PoolInv, PoolTypes, Alive

LEMMA RebuildKeeps ==
    ASSUME PoolInv, RebuildAndSpawn
    PROVE  PoolInv'
<1>1. /\ child = "popped" /\ child' = "warming"
      /\ jobQueue' = {j \in Jobs : job[j] = "submitted"} \ doomed
      /\ UNCHANGED <<job, posted, running>> /\ running = {}
  BY DEF RebuildAndSpawn, Requeue, Pending, At, PoolInv, Alive
<1>2. results' \in Seq(Jobs \X {"picked", "ok", "error"})
  <2>1. results \in Seq(Jobs \X {"picked", "ok", "error"})
    BY DEF PoolInv, PoolTypes
  <2>2. \A i \in DOMAIN results : <<results[i]>> \in Seq(Jobs \X {"picked", "ok", "error"})
    BY <2>1
  <2>3. results' = <<>> \/ \E i \in DOMAIN results : results' = <<results[i]>>
    BY DEF RebuildAndSpawn
  <2>4. <<>> \in Seq(Jobs \X {"picked", "ok", "error"})
    OBVIOUS
  <2>5. QED
    BY <2>2, <2>3, <2>4
<1>3. \A j \in Jobs : Unsubmitted(j)' /\ FailedIsOut(j)'
  BY <1>1 DEF PoolInv, Unsubmitted, FailedIsOut
<1>4. QED
  BY <1>1, <1>2, <1>3 DEF PoolInv, PoolTypes, Alive

\* For any number of photos, slots and deaths of the child, a job that was
\* failed with its child does not run again, and none is queued while it runs.
THEOREM NothingRunsTwice == PoolSpec => []RunsOnce
<1>1. PoolInit => PoolInv
  BY DEF PoolInit, PoolInv, PoolTypes, Outcomes, Unsubmitted, FailedIsOut, Alive
<1>2. PoolInv /\ [PoolNext]_poolVars => PoolInv'
  <2> SUFFICES ASSUME PoolInv, [PoolNext]_poolVars PROVE PoolInv'
    OBVIOUS
  <2>1. ASSUME NEW j \in Jobs, TakeSlot(j) PROVE PoolInv'
    BY <2>1, TaskMoves DEF TakeSlot, elsewhere
  <2>2. ASSUME NEW j \in Jobs, WaitTimesOut(j) PROVE PoolInv'
    BY <2>2, TaskMoves DEF WaitTimesOut, End, elsewhere
  <2>3. ASSUME NEW j \in Jobs, AnswerJob(j) PROVE PoolInv'
    BY <2>3, TaskMoves DEF AnswerJob, End, elsewhere
  <2>4. CASE WarmUp
    BY <2>4 DEF WarmUp, parentVars, PoolInv, PoolTypes, Unsubmitted, FailedIsOut, Alive
  <2>5. CASE Killed
    <3>1. ChildDies("killed") /\ UNCHANGED <<job, posted, jobQueue, doomed>>
      BY <2>5 DEF Killed, parentVars
    <3>2. job' \in [Jobs -> {"queued", "gate", "submitted", "done"}]
      BY <3>1 DEF PoolInv, PoolTypes
    <3>3. QED
      BY <3>1, <3>2, DeathKeeps
  <2>6. CASE UNCHANGED poolVars
    BY <2>6 DEF poolVars, PoolInv, PoolTypes, Unsubmitted, FailedIsOut, Alive
  <2>7. QED
    BY <2>1, <2>2, <2>3, <2>4, <2>5, <2>6, SubmitKeeps, TimeoutKeeps, PullKeeps, FinishKeeps,
       DrainKeeps, FailInflightKeeps, RebuildKeeps
       DEF PoolNext, PoolProgress, SubmitForced, SubmitWithRam
<1>3. PoolInv => RunsOnce
  BY DEF PoolInv, RunsOnce, FailedIsOut
<1>4. QED
  BY <1>1, <1>2, <1>3, PTL DEF PoolSpec

-----------------------------------------------------------------------------
(* The machine: a bored exit takes nothing down that came before it.        *)

UploadPlaces == {"out", "body", "accepted", "done", "lost"}

\* From the signal on, only uploads that came after it are under way.
MachineInv ==
    /\ upload \in [Uploads -> UploadPlaces]
    /\ machine \in {"signalled", "closing"} =>
          \A u \in Uploads : upload[u] \in {"body", "accepted"} => u \in late

LEMMA UploadMoves ==
    ASSUME MachineInv, NEW u \in Uploads, NEW place \in UploadPlaces,
           upload' = [upload EXCEPT ![u] = place], upload[u] \in {"body", "accepted"},
           UNCHANGED <<machine, late>>
    PROVE  MachineInv'
BY DEF MachineInv, UploadPlaces

\* A machine that exits out of boredom interrupts no upload it had begun to
\* receive, for any number of uploads, pingbacks and freezes.
THEOREM BoredExitIsHarmless == MachineSpec => []BoredExitSparesWork
<1>1. MachineInit => MachineInv
  BY DEF MachineInit, MachineInv, UploadPlaces
<1>2. MachineInv /\ [MachineNext]_machineVars => MachineInv'
  <2> SUFFICES ASSUME MachineInv, [MachineNext]_machineVars PROVE MachineInv'
    OBVIOUS
  <2>1. ASSUME NEW u \in Uploads, UploadArrives(u) PROVE MachineInv'
    BY <2>1 DEF UploadArrives, MachineInv, UploadPlaces
  <2>2. ASSUME NEW u \in Uploads, BodyReceived(u) \/ TaskEnds(u) PROVE MachineInv'
    BY <2>2, UploadMoves DEF BodyReceived, TaskEnds, UploadPlaces
  <2>3. CASE BoredExits
    <3>1. \A u \in Uploads : upload[u] \notin {"body", "accepted"}
      BY <2>3 DEF BoredExits, Bored, Tasks, InFlight
    <3>2. QED
      BY <2>3, <3>1 DEF BoredExits, MachineInv
  <2>4. CASE Stops \/ WatchdogBites
    <3>1. Down \in [Uploads -> UploadPlaces]
      BY DEF Down, MachineInv, UploadPlaces
    <3>2. upload' = Down /\ machine' \in {"stopped", "up"}
      BY <2>4 DEF Stops, WatchdogBites
    <3>3. QED
      BY <3>1, <3>2 DEF MachineInv
  <2>5. CASE Closes \/ GoesQuiet \/ Freezes
    BY <2>5 DEF Closes, GoesQuiet, Freezes, MachineInv
  <2>6. ASSUME NEW u \in Uploads, Ping(u) \/ ThreadStarts(u) \/ ThreadEnds(u) \/ ThreadGivesUp(u)
        PROVE  MachineInv'
    BY <2>6 DEF Ping, ThreadStarts, ThreadEnds, ThreadGivesUp, MachineInv
  <2>7. CASE UNCHANGED machineVars
    BY <2>7 DEF machineVars, MachineInv
  <2>8. QED
    BY <2>1, <2>2, <2>3, <2>4, <2>5, <2>6, <2>7 DEF MachineNext, MachineProgress
<1>3. MachineInv => BoredExitSparesWork
  BY DEF MachineInv, BoredExitSparesWork, Tasks, InFlight
<1>4. QED
  BY <1>1, <1>2, <1>3, PTL DEF MachineSpec

-----------------------------------------------------------------------------
(* The files: who relies on which path, and what is there.                  *)

RenderingRecord ==
    [at : {"idle", "dzi", "tile", "done", "over"}, auth : 0..MaxAuth, base : Pools \cup {NoPool}]

Held(j, part, p) == rendering[j].base = p /\ (part = "dzi" \/ rendering[j].at = "done")

Opened(r, part, p) == r.at = "open" /\ r.part = part /\ r.pool = p

Relies(j, part, p) == Held(j, part, p) \/ Opened(post[j], part, p)

FilesTyped ==
    /\ entry \in [status : {"authorized", "completed", "error"}, auth : 1..MaxAuth,
                  deleted : BOOLEAN]
    /\ url \in Pools \cup {NoPool} /\ pool \in Pools
    /\ disk \in [Parts \X Pools -> [auth : 0..MaxAuth, whole : BOOLEAN]]
    /\ rendering \in [Renderings -> RenderingRecord]
    /\ post \in [Renderings -> Posts] /\ adrift \in Posts

\* A post is of the part its job is at, and only a job past the descriptor
\* has a pool.
InStep(x, y) ==
    /\ y.at # "none" => y.part = x.at /\ y.auth = x.auth /\ x.auth # 0
    /\ y.at = "open" => y.pool \in Pools
    /\ x.base \in Pools <=> x.at \in {"tile", "done"}

\* What a job has posted is there whole, and what it is posting is its own.
Stored(j) ==
    \A part \in Parts, p \in Pools :
        /\ Held(j, part, p) => disk[<<part, p>>] = [auth |-> rendering[j].auth, whole |-> TRUE]
        /\ Opened(post[j], part, p) => disk[<<part, p>>].auth # 0 /\
                                       disk[<<part, p>>].auth = rendering[j].auth

\* Nobody else touches a path somebody relies on.
Alone(part, p) ==
    /\ \A j, k \in Renderings : Relies(j, part, p) /\ Relies(k, part, p) => j = k
    /\ Opened(adrift, part, p) => \A j \in Renderings : ~ Relies(j, part, p)

Published ==
    IF entry.status = "completed"
      THEN /\ url \in Pools
           /\ \A part \in Parts : /\ ~ Opened(adrift, part, url)
                                  /\ \A j \in Renderings : ~ Relies(j, part, url)
           /\ ~ entry.deleted => \A part \in Parts :
                 disk[<<part, url>>] = [auth |-> entry.auth, whole |-> TRUE]
      ELSE url = NoPool

FilesSound ==
    /\ \A j \in Renderings : InStep(rendering[j], post[j]) /\ Stored(j)
    /\ \A part \in Parts, p \in Pools : Alone(part, p)
    /\ Published

FilesInv == FilesTyped /\ (~ stray => FilesSound)

LEMMA NoPoolIsNone == NoPool \notin Pools
BY FilesAssumption

LEMMA BlankFiles ==
    /\ NoPost \in Posts /\ NoPost.at = "none"
    /\ IdleRendering \in RenderingRecord /\ IdleRendering.base = NoPool /\ IdleRendering.at = "idle"
    /\ NoFile \in [auth : 0..MaxAuth, whole : BOOLEAN] /\ NoFile.auth = 0
<1>1. 0 \in 0..MaxAuth
  <2>1. MaxAuth \in Nat
    BY FilesAssumption
  <2>2. QED
    BY <2>1
<1>2. QED
  BY <1>1 DEF NoPost, Posts, IdleRendering, RenderingRecord, NoFile, Parts

LEMMA OverIsOver ==
    ASSUME FilesTyped, NEW j \in Renderings
    PROVE  Over(j) \in RenderingRecord /\ Over(j).base = NoPool /\ Over(j).at = "over"
<1>1. rendering[j].auth \in 0..MaxAuth
  BY DEF FilesTyped, RenderingRecord
<1>2. QED
  BY <1>1, BlankFiles DEF Over, RenderingRecord

\* A job's post is not of what the job holds already.
LEMMA OpenIsNotHeld ==
    ASSUME NEW j \in Renderings, NEW part \in Parts, NEW p \in Pools,
           InStep(rendering[j], post[j]), Opened(post[j], part, p)
    PROVE  ~ Held(j, part, p)
BY DEF InStep, Opened, Held, Parts

\* A job lets go of the path it had open, or of all it had: what it changed on
\* the disk it changed there, and what it had open may be adrift from now on.
LEMMA LetsGo ==
    ASSUME FilesTyped, FilesSound, NEW j \in Renderings,
           NEW x \in RenderingRecord, NEW y \in Posts,
           rendering' = [rendering EXCEPT ![j] = x], post' = [post EXCEPT ![j] = y],
           x.base = NoPool \/ (x.base = rendering[j].base /\ x.at = rendering[j].at /\ x.auth = rendering[j].auth),
           y.at # "open", InStep(x, y),
           adrift' = adrift \/ adrift' = post[j],
           UNCHANGED <<url, pool>>,
           entry' = entry \/
               (entry.status # "completed" /\ entry' = [entry EXCEPT !.status = "error"]),
           disk' \in [Parts \X Pools -> [auth : 0..MaxAuth, whole : BOOLEAN]],
           \A part \in Parts, p \in Pools :
              disk'[<<part, p>>] = disk[<<part, p>>] \/ Opened(post[j], part, p)
    PROVE  FilesTyped' /\ FilesSound'
<1>1. /\ rendering'[j] = x /\ post'[j] = y
      /\ \A k \in Renderings \ {j} : rendering'[k] = rendering[k] /\ post'[k] = post[k]
      /\ rendering' \in [Renderings -> RenderingRecord] /\ post' \in [Renderings -> Posts]
  BY DEF FilesTyped
<1>2. FilesTyped' /\ (entry' = entry \/ (entry.status # "completed" /\ entry'.status # "completed"))
  <2>1. adrift' \in Posts
    BY DEF FilesTyped
  <2>2. /\ entry' \in [status : {"authorized", "completed", "error"}, auth : 1..MaxAuth,
                       deleted : BOOLEAN]
        /\ entry' = entry \/ (entry.status # "completed" /\ entry'.status # "completed")
    BY DEF FilesTyped
  <2>3. QED
    BY <1>1, <2>1, <2>2 DEF FilesTyped
<1>3. \A part \in Parts, p \in Pools :
         /\ ~ Opened(post[j], part, p)' /\ (Held(j, part, p)' => Held(j, part, p))
         /\ \A k \in Renderings \ {j} : /\ Held(k, part, p)' = Held(k, part, p)
                                        /\ Opened(post[k], part, p)' = Opened(post[k], part, p)
  BY <1>1, NoPoolIsNone DEF Held, Opened
<1>4. \A part \in Parts, p \in Pools, k \in Renderings : Relies(k, part, p)' => Relies(k, part, p)
  BY <1>3 DEF Relies
<1>5. ASSUME NEW k \in Renderings PROVE InStep(rendering[k], post[k])' /\ Stored(k)'
  <2>1. InStep(rendering[k], post[k])'
    <3>1. CASE k = j
      BY <1>1, <3>1 DEF InStep
    <3>2. CASE k # j
      BY <1>1, <3>2 DEF FilesSound, InStep
    <3>3. QED
      BY <3>1, <3>2
  <2>2. ASSUME NEW part \in Parts, NEW p \in Pools, Relies(k, part, p)'
        PROVE  disk'[<<part, p>>] = disk[<<part, p>>]
    <3>1. Relies(k, part, p)
      BY <1>4, <2>2
    <3>2. CASE Opened(post[j], part, p)
      <4>1. k = j
        BY <3>1, <3>2 DEF FilesSound, Alone, Relies
      <4>2. Held(j, part, p)
        BY <1>3, <2>2, <4>1 DEF Relies
      <4>3. QED
        BY <3>2, <4>2, OpenIsNotHeld DEF FilesSound
    <3>3. QED
      BY <3>2
  <2>3. \A part \in Parts, p \in Pools : Held(k, part, p)' => rendering'[k].auth = rendering[k].auth
    BY <1>1, NoPoolIsNone DEF Held
  <2>4. \A part \in Parts, p \in Pools : Opened(post[k], part, p)' => rendering'[k].auth = rendering[k].auth
    BY <1>1, <1>3
  <2>5. Stored(k)
    BY DEF FilesSound
  <2>6. ASSUME NEW part \in Parts, NEW p \in Pools
        PROVE  /\ Held(k, part, p)' =>
                    disk'[<<part, p>>] = [auth |-> rendering'[k].auth, whole |-> TRUE]
               /\ Opened(post[k], part, p)' =>
                    disk'[<<part, p>>].auth # 0 /\ disk'[<<part, p>>].auth = rendering'[k].auth
    <3>1. CASE Held(k, part, p)'
      <4>1. Held(k, part, p)
        BY <1>3, <3>1
      <4>2. disk'[<<part, p>>] = disk[<<part, p>>]
        BY <2>2, <3>1 DEF Relies
      <4>3. disk[<<part, p>>] = [auth |-> rendering[k].auth, whole |-> TRUE]
        BY <2>5, <4>1 DEF Stored
      <4>4. ~ Opened(post[k], part, p)'
        BY <1>3, <4>1, OpenIsNotHeld DEF FilesSound
      <4>5. QED
        BY <2>3, <3>1, <4>2, <4>3, <4>4
    <3>2. CASE Opened(post[k], part, p)' /\ ~ Held(k, part, p)'
      <4>1. Opened(post[k], part, p)
        BY <1>3, <3>2
      <4>2. disk'[<<part, p>>] = disk[<<part, p>>]
        BY <2>2, <3>2 DEF Relies
      <4>3. disk[<<part, p>>].auth # 0 /\ disk[<<part, p>>].auth = rendering[k].auth
        BY <2>5, <4>1 DEF Stored
      <4>4. QED
        BY <2>4, <3>2, <4>2, <4>3
    <3>3. QED
      BY <3>1, <3>2
  <2>7. Stored(k)'
    BY <2>6 DEF Stored
  <2>8. QED
    BY <2>1, <2>7
<1>6. ASSUME NEW part \in Parts, NEW p \in Pools PROVE Alone(part, p)'
  <2>1. Alone(part, p)
    BY DEF FilesSound
  <2>2. CASE adrift' = adrift
    BY <1>4, <2>1, <2>2 DEF Alone, Opened
  <2>3. CASE adrift' = post[j] /\ Opened(post[j], part, p)
    <3>1. \A k \in Renderings : Relies(k, part, p) => k = j
      BY <2>1, <2>3 DEF Alone, Relies
    <3>2. ~ Held(j, part, p)
      BY <2>3, OpenIsNotHeld DEF FilesSound
    <3>3. ~ Relies(j, part, p)'
      BY <1>3, <3>2 DEF Relies
    <3>4. QED
      BY <1>4, <3>1, <3>3 DEF Alone
  <2>4. CASE adrift' = post[j] /\ ~ Opened(post[j], part, p)
    <3>1. ~ Opened(adrift, part, p)'
      BY <2>4 DEF Opened
    <3>2. QED
      BY <1>4, <2>1, <3>1 DEF Alone
  <2>5. QED
    BY <2>2, <2>3, <2>4
<1>7. Published'
  <2>1. CASE entry.status = "completed"
    <3>1. url \in Pools /\ \A part \in Parts : /\ ~ Opened(adrift, part, url)
                                               /\ \A k \in Renderings : ~ Relies(k, part, url)
      BY <2>1 DEF FilesSound, Published
    <3>2. \A part \in Parts : ~ Opened(post[j], part, url)
      BY <3>1 DEF Relies
    <3>3. \A part \in Parts : disk'[<<part, url>>] = disk[<<part, url>>]
      BY <3>1, <3>2
    <3>4. \A part \in Parts : ~ Opened(adrift, part, url)'
      BY <3>1, <3>2 DEF Opened
    <3>5. \A part \in Parts, k \in Renderings : ~ Relies(k, part, url)'
      <4> SUFFICES ASSUME NEW part \in Parts, NEW k \in Renderings PROVE ~ Relies(k, part, url)'
        OBVIOUS
      <4>1. PICK p \in Pools : p = url
        BY <3>1
      <4>2. ~ Relies(k, part, p)
        BY <3>1, <4>1
      <4>3. ~ Relies(k, part, p)'
        BY <1>4, <4>2
      <4>4. QED
        BY <4>1, <4>3 DEF Relies, Held, Opened
    <3>6. QED
      BY <1>2, <2>1, <3>1, <3>3, <3>4, <3>5 DEF FilesSound, Published
  <2>2. CASE entry.status # "completed"
    BY <1>2, <2>2 DEF FilesSound, Published
  <2>3. QED
    BY <2>1, <2>2
<1>8. QED
  BY <1>2, <1>5, <1>6, <1>7 DEF FilesSound

\* A path nobody relies on and no URL names may change.
LEMMA NobodysPath ==
    ASSUME FilesTyped, FilesSound,
           UNCHANGED <<entry, url, rendering, post>>, pool' \in Pools,
           adrift' \in Posts, adrift'.at = "open" => adrift' = adrift,
           disk' \in [Parts \X Pools -> [auth : 0..MaxAuth, whole : BOOLEAN]],
           \A part \in Parts, p \in Pools :
              disk'[<<part, p>>] = disk[<<part, p>>] \/ Opened(adrift, part, p)
    PROVE  FilesTyped' /\ FilesSound'
<1>1. FilesTyped'
  BY DEF FilesTyped
<1>2. \A part \in Parts, p \in Pools, j \in Renderings : Relies(j, part, p)' <=> Relies(j, part, p)
  BY DEF Relies, Held, Opened
<1>3. ASSUME NEW j \in Renderings PROVE InStep(rendering[j], post[j])' /\ Stored(j)'
  <2>1. InStep(rendering[j], post[j])' /\ Stored(j)
    BY DEF FilesSound, InStep
  <2>2. \A part \in Parts, p \in Pools : Relies(j, part, p) => disk'[<<part, p>>] = disk[<<part, p>>]
    BY DEF FilesSound, Alone
  <2>3. \A part \in Parts, p \in Pools :
           /\ Held(j, part, p)' = Held(j, part, p)
           /\ Opened(post[j], part, p)' = Opened(post[j], part, p)
           /\ Relies(j, part, p) = (Held(j, part, p) \/ Opened(post[j], part, p))
           /\ rendering'[j] = rendering[j]
    BY DEF Held, Opened, Relies
  <2>4. QED
    BY <2>1, <2>2, <2>3 DEF Stored
<1>4. ASSUME NEW part \in Parts, NEW p \in Pools PROVE Alone(part, p)'
  <2>1. Opened(adrift, part, p)' => Opened(adrift, part, p)
    BY DEF Opened
  <2>2. QED
    BY <1>2, <2>1 DEF FilesSound, Alone
<1>5. Published'
  <2>1. CASE entry.status = "completed"
    <3>1. url \in Pools /\ \A part \in Parts : /\ ~ Opened(adrift, part, url)
                                               /\ \A k \in Renderings : ~ Relies(k, part, url)
      BY <2>1 DEF FilesSound, Published
    <3>2. \A part \in Parts : disk'[<<part, url>>] = disk[<<part, url>>]
      BY <3>1
    <3>3. \A part \in Parts : ~ Opened(adrift, part, url)' /\ \A k \in Renderings : ~ Relies(k, part, url)'
      BY <3>1, <1>2 DEF Opened, Relies, Held
    <3>4. QED
      BY <2>1, <3>1, <3>2, <3>3 DEF FilesSound, Published
  <2>2. CASE entry.status # "completed"
    BY <2>2 DEF FilesSound, Published
  <2>3. QED
    BY <2>1, <2>2
<1>6. QED
  BY <1>1, <1>3, <1>4, <1>5 DEF FilesSound

\* A file is opened at a path nobody relies on, or the history is stray.
LEMMA FreshPath ==
    ASSUME FilesTyped, FilesSound, NEW part \in Parts, NEW p \in Pools, ~ InUse(part, p)
    PROVE  /\ entry.status # "completed" /\ ~ Opened(adrift, part, p)
           /\ \A j \in Renderings : ~ Relies(j, part, p)
BY DEF InUse, Relies, Held, Opened

LEMMA OpensWell ==
    ASSUME FilesTyped, NEW r \in Posts, PathOpens(r)
    PROVE  /\ r.part \in Parts /\ pool \in Pools /\ r.at = "checked"
           /\ disk' \in [Parts \X Pools -> [auth : 0..MaxAuth, whole : BOOLEAN]]
           /\ disk'[<<r.part, pool>>].auth = r.auth
           /\ \A part \in Parts, p \in Pools :
                 disk'[<<part, p>>] = disk[<<part, p>>] \/ (part = r.part /\ p = pool)
           /\ UNCHANGED <<entry, url, pool, rendering>>
           /\ ~ stray' => ~ stray /\ ~ InUse(r.part, pool)
<1>1. r.part \in Parts /\ pool \in Pools /\ r.at = "checked" /\ r.auth \in 0..MaxAuth
  BY DEF Posts, FilesTyped, PathOpens
<1>2. PICK f : f = [auth |-> r.auth, whole |-> FALSE]
  OBVIOUS
<1>3. f \in [auth : 0..MaxAuth, whole : BOOLEAN] /\ f.auth = r.auth
  BY <1>1, <1>2
<1>4. disk' = [disk EXCEPT ![<<r.part, pool>>] = f]
  BY <1>2 DEF PathOpens
<1>5. disk \in [Parts \X Pools -> [auth : 0..MaxAuth, whole : BOOLEAN]]
      /\ <<r.part, pool>> \in Parts \X Pools
  BY <1>1 DEF FilesTyped
<1>6. QED
  BY <1>1, <1>3, <1>4, <1>5 DEF PathOpens

LEMMA PostOpensKeeps ==
    ASSUME FilesTyped, ~ stray => FilesSound, NEW j \in Renderings, PostOpens(j)
    PROVE  FilesInv'
<1>1. PICK y : y = [post[j] EXCEPT !.at = "open", !.pool = pool]
  OBVIOUS
<1>2. /\ post[j] \in Posts /\ PathOpens(post[j]) /\ adrift' = adrift
      /\ post' = [post EXCEPT ![j] = y]
  BY <1>1 DEF FilesTyped, PostOpens
<1>3. /\ y \in Posts /\ y.at = "open" /\ y.pool = pool /\ y.part = post[j].part
      /\ y.auth = post[j].auth
  BY <1>1, <1>2 DEF Posts, FilesTyped
<1>4. /\ post'[j] = y /\ post' \in [Renderings -> Posts] /\ rendering' = rendering
      /\ \A k \in Renderings \ {j} : post'[k] = post[k]
  BY <1>2, <1>3, OpensWell DEF FilesTyped
<1>5. FilesTyped'
  BY <1>2, <1>4, OpensWell DEF FilesTyped
<1>6. ASSUME ~ stray' PROVE FilesSound'
  <2>1. /\ FilesSound /\ post[j].at = "checked" /\ ~ InUse(y.part, pool)
        /\ y.part \in Parts /\ pool \in Pools
        /\ UNCHANGED <<entry, url, rendering>>
        /\ disk'[<<y.part, pool>>].auth = y.auth
        /\ \A part \in Parts, p \in Pools :
              disk'[<<part, p>>] = disk[<<part, p>>] \/ (part = y.part /\ p = pool)
    BY <1>2, <1>3, <1>6, OpensWell
  <2>2. /\ entry.status # "completed" /\ ~ Opened(adrift, y.part, pool)
        /\ \A k \in Renderings : ~ Relies(k, y.part, pool)
    BY <2>1, FreshPath
  <2>3. \A k \in Renderings, part \in Parts, p \in Pools :
           /\ Held(k, part, p)' = Held(k, part, p)
           /\ Opened(post[k], part, p)' =
                 IF k = j THEN part = y.part /\ p = pool ELSE Opened(post[k], part, p)
    BY <1>3, <1>4 DEF Held, Opened
  <2>4. \A k \in Renderings, part \in Parts, p \in Pools :
           Relies(k, part, p)' => Relies(k, part, p) \/ (k = j /\ part = y.part /\ p = pool)
    BY <2>3 DEF Relies
  <2>5. ASSUME NEW k \in Renderings PROVE InStep(rendering[k], post[k])' /\ Stored(k)'
    <3>1. InStep(rendering[k], post[k]) /\ Stored(k)
      BY <2>1 DEF FilesSound
    <3>2. InStep(rendering[k], post[k])'
      <4>1. CASE k = j
        BY <1>2, <1>3, <1>4, <2>1, <3>1, <4>1 DEF InStep
      <4>2. CASE k # j
        BY <1>4, <3>1, <4>2 DEF InStep
      <4>3. QED
        BY <4>1, <4>2
    <3>3. ASSUME NEW part \in Parts, NEW p \in Pools
          PROVE  /\ Held(k, part, p)' =>
                      disk'[<<part, p>>] = [auth |-> rendering'[k].auth, whole |-> TRUE]
                 /\ Opened(post[k], part, p)' =>
                      disk'[<<part, p>>].auth # 0 /\ disk'[<<part, p>>].auth = rendering'[k].auth
      <4>1. CASE part = y.part /\ p = pool
        <5>1. ~ Held(k, part, p) /\ ~ Opened(post[k], part, p)
          BY <2>2, <4>1 DEF Relies
        <5>2. y.auth = rendering[j].auth /\ y.auth # 0
          BY <1>3, <2>1 DEF FilesSound, InStep
        <5>3. QED
          BY <1>4, <2>1, <2>3, <4>1, <5>1, <5>2
      <4>2. CASE ~ (part = y.part /\ p = pool)
        <5>1. disk'[<<part, p>>] = disk[<<part, p>>] /\ rendering' = rendering
          BY <1>4, <2>1, <4>2
        <5>2. /\ Held(k, part, p) => disk[<<part, p>>] = [auth |-> rendering[k].auth, whole |-> TRUE]
              /\ Opened(post[k], part, p) =>
                    disk[<<part, p>>].auth # 0 /\ disk[<<part, p>>].auth = rendering[k].auth
          BY <3>1 DEF Stored
        <5>3. QED
          BY <2>3, <4>2, <5>1, <5>2
      <4>3. QED
        BY <4>1, <4>2
    <3>4. QED
      BY <3>2, <3>3 DEF Stored
  <2>6. ASSUME NEW part \in Parts, NEW p \in Pools PROVE Alone(part, p)'
    <3>1. Opened(adrift, part, p)' = Opened(adrift, part, p) /\ Alone(part, p)
      BY <1>2, <2>1 DEF Opened, FilesSound
    <3>2. QED
      BY <2>2, <2>4, <3>1 DEF Alone
  <2>7. Published'
    BY <2>1, <2>2 DEF FilesSound, Published
  <2>8. QED
    BY <2>5, <2>6, <2>7 DEF FilesSound
<1>7. QED
  BY <1>5, <1>6 DEF FilesInv

LEMMA AdriftOpensKeeps ==
    ASSUME FilesTyped, ~ stray => FilesSound, AdriftOpens
    PROVE  FilesInv'
<1>1. adrift \in Posts /\ PathOpens(adrift) /\ post' = post /\ rendering' = rendering
  BY OpensWell DEF FilesTyped, AdriftOpens
<1>2. /\ adrift' \in Posts /\ adrift'.at = "open" /\ adrift'.pool = pool
      /\ adrift'.part = adrift.part
  BY <1>1 DEF AdriftOpens, Posts, FilesTyped
<1>3. FilesTyped'
  BY <1>1, <1>2, OpensWell DEF FilesTyped
<1>4. ASSUME ~ stray' PROVE FilesSound'
  <2>1. /\ FilesSound /\ ~ InUse(adrift.part, pool)
        /\ adrift.part \in Parts /\ pool \in Pools
        /\ UNCHANGED <<entry, url, rendering>>
        /\ \A part \in Parts, p \in Pools :
              disk'[<<part, p>>] = disk[<<part, p>>] \/ (part = adrift.part /\ p = pool)
    BY <1>1, <1>4, OpensWell
  <2>2. entry.status # "completed" /\ \A k \in Renderings : ~ Relies(k, adrift.part, pool)
    BY <2>1, FreshPath
  <2>3. \A k \in Renderings, part \in Parts, p \in Pools :
           /\ Held(k, part, p)' = Held(k, part, p)
           /\ Opened(post[k], part, p)' = Opened(post[k], part, p)
           /\ Relies(k, part, p)' = Relies(k, part, p)
    BY <1>1 DEF Held, Opened, Relies
  <2>4. ASSUME NEW k \in Renderings PROVE InStep(rendering[k], post[k])' /\ Stored(k)'
    <3>1. InStep(rendering[k], post[k])' /\ Stored(k)
      BY <1>1, <2>1 DEF FilesSound, InStep
    <3>2. \A part \in Parts, p \in Pools :
             Held(k, part, p) \/ Opened(post[k], part, p) => disk'[<<part, p>>] = disk[<<part, p>>]
      BY <2>1, <2>2 DEF Relies
    <3>3. QED
      BY <1>1, <2>3, <3>1, <3>2 DEF Stored
  <2>5. ASSUME NEW part \in Parts, NEW p \in Pools PROVE Alone(part, p)'
    <3>1. Opened(adrift, part, p)' <=> part = adrift.part /\ p = pool
      BY <1>2 DEF Opened
    <3>2. Alone(part, p)
      BY <2>1 DEF FilesSound
    <3>3. QED
      BY <2>2, <2>3, <3>1, <3>2 DEF Alone
  <2>6. Published'
    BY <2>1, <2>2 DEF FilesSound, Published
  <2>7. QED
    BY <2>4, <2>5, <2>6 DEF FilesSound
<1>5. QED
  BY <1>3, <1>4 DEF FilesInv

\* The descriptor or a tile has arrived, whole, in the pool it was opened in.
LEMMA BodyStreamsKeeps ==
    ASSUME FilesTyped, FilesSound, NEW j \in Renderings, BodyStreams(j)
    PROVE  FilesTyped' /\ FilesSound'
<1> DEFINE part0 == post[j].part
           p0 == post[j].pool
<1>1. /\ post[j] \in Posts /\ rendering[j] \in RenderingRecord /\ post[j].at = "open"
      /\ InStep(rendering[j], post[j]) /\ part0 \in Parts /\ p0 \in Pools
      /\ Opened(post[j], part0, p0) /\ Stored(j)
      /\ part0 = rendering[j].at /\ UNCHANGED <<entry, url, pool, adrift>>
      /\ Whole(post[j]) /\ post' = [post EXCEPT ![j] = NoPost]
  BY DEF BodyStreams, FilesTyped, FilesSound, InStep, Posts, Opened
<1>2. PICK f : f = disk[<<part0, p0>>]
  OBVIOUS
<1>3. f \in [auth : 0..MaxAuth, whole : BOOLEAN] /\ f.auth # 0 /\ f.auth = rendering[j].auth
  BY <1>1, <1>2 DEF Stored, FilesTyped
<1>4. PICK g : g = [auth |-> rendering[j].auth, whole |-> TRUE]
  OBVIOUS
<1>5. [f EXCEPT !.whole = TRUE] = g /\ g \in [auth : 0..MaxAuth, whole : BOOLEAN]
  <2>1. PICK b \in BOOLEAN : b = TRUE
    OBVIOUS
  <2>2. g = [auth |-> f.auth, whole |-> b] /\ f.auth \in 0..MaxAuth
    BY <1>3, <1>4, <2>1
  <2>3. [f EXCEPT !.whole = b] = [auth |-> f.auth, whole |-> b]
    BY <1>3
  <2>4. QED
    BY <2>1, <2>2, <2>3
<1>6. disk' = [disk EXCEPT ![<<part0, p0>>] = g]
  <2>1. f # NoFile
    BY <1>3, BlankFiles
  <2>2. disk' = [disk EXCEPT ![<<part0, p0>>].whole = TRUE]
    BY <1>1, <1>2, <2>1 DEF Whole
  <2>3. QED
    BY <1>2, <1>5, <2>2
<1>7. /\ disk' \in [Parts \X Pools -> [auth : 0..MaxAuth, whole : BOOLEAN]]
      /\ disk'[<<part0, p0>>] = g
      /\ \A part \in Parts, p \in Pools :
            disk'[<<part, p>>] = disk[<<part, p>>] \/ (part = part0 /\ p = p0)
  BY <1>1, <1>5, <1>6 DEF FilesTyped
<1> HIDE DEF part0, p0
<1>8. CASE ~ Acceptable(j, part0, p0)
  <2>1. rendering' = [rendering EXCEPT ![j] = Over(j)]
    BY <1>8 DEF BodyStreams, Uploaded, part0, p0
  <2>2. /\ Over(j) \in RenderingRecord /\ Over(j).base = NoPool /\ InStep(Over(j), NoPost)
        /\ NoPost \in Posts /\ NoPost.at # "open"
    BY OverIsOver, BlankFiles, NoPoolIsNone DEF InStep
  <2>3. \A part \in Parts, p \in Pools :
           disk'[<<part, p>>] = disk[<<part, p>>] \/ Opened(post[j], part, p)
    BY <1>1, <1>7
  <2>4. QED
    BY <1>1, <1>7, <2>1, <2>2, <2>3, LetsGo
<1>9. CASE Acceptable(j, part0, p0)
  <2>1. PICK x \in RenderingRecord :
           /\ rendering' = [rendering EXCEPT ![j] = x]
           /\ x.auth = rendering[j].auth /\ x.base = p0
           /\ x.at = IF part0 = "dzi" THEN "tile" ELSE "done"
    <3>1. CASE part0 = "dzi"
      <4>1. PICK x : x = [rendering[j] EXCEPT !.at = "tile", !.base = p0]
        OBVIOUS
      <4>2. x \in RenderingRecord /\ x.auth = rendering[j].auth /\ x.base = p0 /\ x.at = "tile"
        BY <1>1, <4>1 DEF RenderingRecord
      <4>3. rendering' = [rendering EXCEPT ![j] = x]
        BY <1>9, <3>1, <4>1 DEF BodyStreams, Uploaded, part0, p0
      <4>4. QED
        BY <3>1, <4>2, <4>3
    <3>2. CASE part0 # "dzi"
      <4>1. PICK x : x = [rendering[j] EXCEPT !.at = "done"]
        OBVIOUS
      <4>2. rendering[j].base = p0
        BY <1>1, <1>9, <3>2 DEF Acceptable, SamePool, Parts
      <4>3. x \in RenderingRecord /\ x.auth = rendering[j].auth /\ x.base = p0 /\ x.at = "done"
        BY <1>1, <4>1, <4>2 DEF RenderingRecord
      <4>4. rendering' = [rendering EXCEPT ![j] = x]
        BY <1>9, <3>2, <4>1 DEF BodyStreams, Uploaded, part0, p0
      <4>5. QED
        BY <3>2, <4>3, <4>4
    <3>3. QED
      BY <3>1, <3>2
  <2>2. /\ rendering'[j] = x /\ post'[j] = NoPost
        /\ \A k \in Renderings \ {j} : rendering'[k] = rendering[k] /\ post'[k] = post[k]
        /\ rendering' \in [Renderings -> RenderingRecord] /\ post' \in [Renderings -> Posts]
    BY <1>1, <2>1, BlankFiles DEF FilesTyped
  <2>3. FilesTyped'
    BY <1>1, <1>7, <2>2 DEF FilesTyped
  <2>4. \A part \in Parts, p \in Pools :
           /\ Held(j, part, p)' => Held(j, part, p) \/ (part = part0 /\ p = p0)
           /\ ~ Opened(post[j], part, p)'
           /\ \A k \in Renderings \ {j} : /\ Held(k, part, p)' = Held(k, part, p)
                                          /\ Opened(post[k], part, p)' = Opened(post[k], part, p)
    <3>1. /\ rendering[j].at \in Parts /\ (rendering[j].base \in Pools <=> rendering[j].at = "tile")
          /\ part0 = "tile" => rendering[j].base = p0
      BY <1>1, <1>9 DEF InStep, Acceptable, SamePool, Parts
    <3>2. \A part \in Parts, p \in Pools :
             Held(j, part, p)' => Held(j, part, p) \/ (part = part0 /\ p = p0)
      BY <1>1, <2>1, <2>2, <3>1 DEF Held, Parts
    <3>3. QED
      BY <2>2, <3>2, BlankFiles DEF Held, Opened
  <2>5. \A part \in Parts, p \in Pools, k \in Renderings : Relies(k, part, p)' => Relies(k, part, p)
    BY <1>1, <2>4 DEF Relies
  <2>6. ASSUME NEW k \in Renderings PROVE InStep(rendering[k], post[k])' /\ Stored(k)'
    <3>1. InStep(rendering[k], post[k]) /\ Stored(k)
      BY DEF FilesSound
    <3>2. InStep(rendering[k], post[k])'
      BY <1>1, <2>1, <2>2, <3>1, BlankFiles DEF InStep
    <3>3. CASE k = j
      <4>1. ASSUME NEW part \in Parts, NEW p \in Pools, Held(j, part, p)'
            PROVE  disk'[<<part, p>>] = g
        <5>1. CASE part = part0 /\ p = p0
          BY <1>7, <5>1
        <5>2. CASE ~ (part = part0 /\ p = p0)
          BY <1>1, <1>4, <1>7, <2>4, <4>1, <5>2 DEF Stored
        <5>3. QED
          BY <5>1, <5>2
      <4>2. QED
        BY <1>4, <2>1, <2>2, <2>4, <3>2, <3>3, <4>1 DEF Stored
    <3>4. CASE k # j
      <4>1. \A part \in Parts, p \in Pools : Relies(k, part, p) => disk'[<<part, p>>] = disk[<<part, p>>]
        BY <1>1, <1>7, <3>4 DEF FilesSound, Alone, Relies
      <4>2. ASSUME NEW part \in Parts, NEW p \in Pools
            PROVE  /\ Held(k, part, p)' =>
                        disk'[<<part, p>>] = [auth |-> rendering'[k].auth, whole |-> TRUE]
                   /\ Opened(post[k], part, p)' =>
                        disk'[<<part, p>>].auth # 0 /\ disk'[<<part, p>>].auth = rendering'[k].auth
        <5>1. /\ Held(k, part, p) => disk[<<part, p>>] = [auth |-> rendering[k].auth, whole |-> TRUE]
              /\ Opened(post[k], part, p) =>
                    disk[<<part, p>>].auth # 0 /\ disk[<<part, p>>].auth = rendering[k].auth
          BY <3>1 DEF Stored
        <5>2. Held(k, part, p) \/ Opened(post[k], part, p) => disk'[<<part, p>>] = disk[<<part, p>>]
          BY <4>1 DEF Relies
        <5>3. QED
          BY <2>2, <2>4, <3>4, <5>1, <5>2
      <4>3. QED
        BY <3>2, <4>2 DEF Stored
    <3>5. QED
      BY <3>2, <3>3, <3>4
  <2>7. ASSUME NEW part \in Parts, NEW p \in Pools PROVE Alone(part, p)'
    <3>1. Opened(adrift, part, p)' = Opened(adrift, part, p) /\ Alone(part, p)
      BY <1>1 DEF Opened, FilesSound
    <3>2. QED
      BY <2>5, <3>1 DEF Alone
  <2>8. Published'
    <3>1. CASE entry.status = "completed"
      <4>1. url \in Pools /\ \A part \in Parts : /\ ~ Opened(adrift, part, url)
                                                 /\ \A k \in Renderings : ~ Relies(k, part, url)
        BY <3>1 DEF FilesSound, Published
      <4>2. PICK p \in Pools : p = url
        BY <4>1
      <4>3. \A part \in Parts : disk'[<<part, p>>] = disk[<<part, p>>]
        BY <1>1, <1>7, <4>1, <4>2 DEF Relies
      <4>4. \A part \in Parts : ~ Opened(adrift, part, url)' /\ \A k \in Renderings : ~ Relies(k, part, p)'
        BY <1>1, <2>5, <4>1, <4>2 DEF Opened
      <4>5. url' = p /\ entry' = entry
        BY <1>1, <4>2
      <4>6. \A part \in Parts, k \in Renderings : ~ Relies(k, part, url)'
        BY <4>4, <4>5 DEF Relies, Held, Opened
      <4>7. QED
        BY <3>1, <4>1, <4>2, <4>3, <4>4, <4>5, <4>6 DEF FilesSound, Published
    <3>2. CASE entry.status # "completed"
      BY <1>1, <3>2 DEF FilesSound, Published
    <3>3. QED
      BY <3>1, <3>2
  <2>9. QED
    BY <2>3, <2>6, <2>7, <2>8 DEF FilesSound
<1>10. QED
  BY <1>8, <1>9

LEMMA ReportDoneKeeps ==
    ASSUME FilesTyped, FilesSound, NEW j \in Renderings, ReportDone(j)
    PROVE  FilesTyped' /\ FilesSound'
<1>p. PICK p0 : p0 = rendering[j].base
  OBVIOUS
<1>1. /\ rendering[j].at = "done" /\ rendering[j].auth = entry.auth /\ ~ entry.deleted
      /\ entry' = [entry EXCEPT !.status = "completed"] /\ url' = p0
      /\ rendering' = [rendering EXCEPT ![j] = Over(j)]
      /\ UNCHANGED <<pool, disk, post, adrift>>
      /\ InStep(rendering[j], post[j]) /\ Stored(j)
      /\ rendering[j] \in RenderingRecord
  BY <1>p DEF ReportDone, FilesSound, FilesTyped
<1>2. p0 \in Pools /\ post[j].at = "none"
  <2>1. post[j].at # "none" => post[j].part \in Parts /\ post[j].part = "done"
    BY <1>1 DEF InStep, FilesTyped, Posts
  <2>2. QED
    BY <1>1, <1>p, <2>1 DEF InStep, Parts, FilesTyped, Posts
<1>3. /\ rendering'[j] = Over(j) /\ \A k \in Renderings \ {j} : rendering'[k] = rendering[k]
      /\ rendering' \in [Renderings -> RenderingRecord]
      /\ Over(j).base = NoPool /\ Over(j).at = "over"
  BY <1>1, OverIsOver DEF FilesTyped
<1>4. /\ entry' \in [status : {"authorized", "completed", "error"}, auth : 1..MaxAuth,
                    deleted : BOOLEAN]
      /\ entry'.status = "completed" /\ entry'.auth = entry.auth
  BY <1>1 DEF FilesTyped
<1>5. FilesTyped'
  BY <1>1, <1>2, <1>3, <1>4 DEF FilesTyped
<1>6. \A part \in Parts : Held(j, part, p0) /\ Relies(j, part, p0)
  BY <1>1, <1>p DEF Held, Relies
<1>7. \A part \in Parts, p \in Pools :
         /\ ~ Relies(j, part, p)'
         /\ \A k \in Renderings \ {j} : /\ Held(k, part, p)' = Held(k, part, p)
                                        /\ Opened(post[k], part, p)' = Opened(post[k], part, p)
                                        /\ Relies(k, part, p)' = Relies(k, part, p)
  BY <1>1, <1>2, <1>3, NoPoolIsNone DEF Relies, Held, Opened
<1>8. ASSUME NEW k \in Renderings PROVE InStep(rendering[k], post[k])' /\ Stored(k)'
  <2>1. InStep(rendering[k], post[k]) /\ Stored(k)
    BY DEF FilesSound
  <2>2. CASE k = j
    <3>1. InStep(rendering[k], post[k])'
      BY <1>1, <1>2, <1>3, <2>2, NoPoolIsNone DEF InStep
    <3>2. \A part \in Parts, p \in Pools : ~ Held(k, part, p)' /\ ~ Opened(post[k], part, p)'
      BY <1>7, <2>2 DEF Relies
    <3>3. QED
      BY <3>1, <3>2 DEF Stored
  <2>3. CASE k # j
    <3>1. InStep(rendering[k], post[k])' /\ rendering'[k] = rendering[k] /\ disk' = disk
      BY <1>1, <1>3, <2>1, <2>3 DEF InStep
    <3>2. QED
      BY <1>7, <2>1, <2>3, <3>1 DEF Stored
  <2>4. QED
    BY <2>2, <2>3
<1>9. ASSUME NEW part \in Parts, NEW p \in Pools PROVE Alone(part, p)'
  <2>1. Opened(adrift, part, p)' = Opened(adrift, part, p) /\ Alone(part, p)
    BY <1>1 DEF Opened, FilesSound
  <2>2. QED
    BY <1>7, <2>1 DEF Alone
<1>10. Published'
  <2>1. \A part \in Parts : ~ Opened(adrift, part, p0) /\ \A k \in Renderings \ {j} : ~ Relies(k, part, p0)
    BY <1>2, <1>6 DEF FilesSound, Alone
  <2>2. \A part \in Parts : /\ ~ Opened(adrift, part, p0)'
                             /\ \A k \in Renderings : ~ Relies(k, part, p0)'
    BY <1>1, <1>2, <1>7, <2>1 DEF Opened
  <2>3. /\ \A part \in Parts : disk'[<<part, p0>>] = [auth |-> entry'.auth, whole |-> TRUE]
        /\ url' = p0
    BY <1>1, <1>2, <1>4, <1>6 DEF Stored
  <2>4. \A part \in Parts : /\ ~ Opened(adrift, part, url)'
                             /\ \A k \in Renderings : ~ Relies(k, part, url)'
    BY <2>2, <2>3 DEF Opened, Relies, Held
  <2>5. QED
    BY <1>2, <1>4, <2>3, <2>4 DEF Published
<1>11. QED
  BY <1>5, <1>8, <1>9, <1>10 DEF FilesSound

LEMMA RowKeeps ==
    ASSUME FilesTyped, FilesSound, Authorize \/ DeleteFiles
    PROVE  FilesTyped' /\ FilesSound'
<1>1. /\ UNCHANGED <<pool, rendering, post, adrift>>
      /\ disk' = disk \/ disk' = [f \in DOMAIN disk |-> IF url = f[2] THEN NoFile ELSE disk[f]]
      /\ disk' # disk => DeleteFiles
  BY DEF Authorize, DeleteFiles
<1>2. /\ disk' \in [Parts \X Pools -> [auth : 0..MaxAuth, whole : BOOLEAN]]
      /\ \A part \in Parts, p \in Pools : disk'[<<part, p>>] = disk[<<part, p>>] \/ p = url
  BY <1>1, BlankFiles DEF FilesTyped
<1>3. /\ entry' \in [status : {"authorized", "completed", "error"}, auth : 1..MaxAuth,
                    deleted : BOOLEAN]
      /\ url' \in Pools \cup {NoPool}
      /\ \/ entry'.status # "completed" /\ url' = NoPool
         \/ entry'.status = entry.status /\ entry'.deleted /\ url' = url
  <2>1. CASE Authorize
    <3>1. entry.auth + 1 \in 1..MaxAuth
      <4>1. entry.auth \in 1..MaxAuth /\ entry.auth < MaxAuth
        BY <2>1 DEF Authorize, FilesTyped
      <4>2. MaxAuth \in Nat
        BY FilesAssumption
      <4>3. QED
        BY <4>1, <4>2
    <3>2. QED
      BY <2>1, <3>1 DEF Authorize
  <2>2. CASE DeleteFiles
    BY <2>2 DEF DeleteFiles, FilesTyped
  <2>3. QED
    BY <2>1, <2>2
<1>4. FilesTyped'
  BY <1>1, <1>2, <1>3 DEF FilesTyped
<1>5. \A j \in Renderings, part \in Parts, p \in Pools :
         /\ Held(j, part, p)' = Held(j, part, p)
         /\ Opened(post[j], part, p)' = Opened(post[j], part, p)
         /\ Relies(j, part, p)' = Relies(j, part, p)
  BY <1>1 DEF Relies, Held, Opened
<1>6. \A j \in Renderings, part \in Parts, p \in Pools :
         Relies(j, part, p) => disk'[<<part, p>>] = disk[<<part, p>>]
  BY <1>2, NoPoolIsNone DEF FilesSound, Published
<1>7. ASSUME NEW j \in Renderings PROVE InStep(rendering[j], post[j])' /\ Stored(j)'
  <2>1. InStep(rendering[j], post[j])' /\ Stored(j)
    BY <1>1 DEF FilesSound, InStep
  <2>2. \A part \in Parts, p \in Pools :
           Held(j, part, p) \/ Opened(post[j], part, p) => disk'[<<part, p>>] = disk[<<part, p>>]
    BY <1>6 DEF Relies
  <2>3. Stored(j)'
    <3> SUFFICES ASSUME NEW part \in Parts, NEW p \in Pools
                 PROVE  /\ Held(j, part, p) =>
                             disk'[<<part, p>>] = [auth |-> rendering[j].auth, whole |-> TRUE]
                        /\ Opened(post[j], part, p) =>
                             disk'[<<part, p>>].auth # 0 /\ disk'[<<part, p>>].auth = rendering[j].auth
      BY <1>1, <1>5 DEF Stored
    <3>1. QED
      BY <2>1, <2>2 DEF Stored
  <2>4. QED
    BY <2>1, <2>3
<1>8. ASSUME NEW part \in Parts, NEW p \in Pools PROVE Alone(part, p)'
  <2>1. Opened(adrift, part, p)' = Opened(adrift, part, p) /\ Alone(part, p)
    BY <1>1 DEF Opened, FilesSound
  <2>2. QED
    BY <1>5, <2>1 DEF Alone
<1>9. Published'
  <2>1. CASE entry'.status # "completed" /\ url' = NoPool
    BY <2>1 DEF Published
  <2>2. CASE entry'.status = entry.status /\ entry'.deleted /\ url' = url
    <3>1. \A part \in Parts : /\ Opened(adrift, part, url)' = Opened(adrift, part, url)
                              /\ \A k \in Renderings : Relies(k, part, url)' = Relies(k, part, url)
      BY <1>1, <2>2 DEF Opened, Relies, Held
    <3>2. QED
      BY <2>2, <3>1 DEF FilesSound, Published
  <2>3. QED
    BY <1>3, <2>1, <2>2
<1>10. QED
  BY <1>4, <1>7, <1>8, <1>9 DEF FilesSound

\* Closing a file changes what is at its path, and nothing else.
LEMMA DiskCloses ==
    ASSUME FilesTyped, NEW r \in Posts, r.at = "open", Whole(r) \/ Torn(r)
    PROVE  /\ disk' \in [Parts \X Pools -> [auth : 0..MaxAuth, whole : BOOLEAN]]
           /\ \A part \in Parts, p \in Pools :
                 disk'[<<part, p>>] = disk[<<part, p>>] \/ Opened(r, part, p)
<1> DEFINE path == <<r.part, r.pool>>
<1>1. disk \in [Parts \X Pools -> [auth : 0..MaxAuth, whole : BOOLEAN]]
  BY DEF FilesTyped
<1>2. \A part \in Parts, p \in Pools : <<part, p>> = path => Opened(r, part, p)
  BY DEF Opened
<1>3. CASE path \notin Parts \X Pools
  <2>1. disk' = disk
    BY <1>1, <1>3 DEF Whole, Torn
  <2>2. QED
    BY <1>1, <2>1
<1>4. CASE path \in Parts \X Pools /\ Whole(r)
  <2>1. PICK b \in BOOLEAN : b = (disk[path] # NoFile)
    OBVIOUS
  <2>2. PICK f : f = [disk[path] EXCEPT !.whole = b]
    OBVIOUS
  <2>3. f \in [auth : 0..MaxAuth, whole : BOOLEAN]
    BY <1>1, <1>4, <2>2
  <2>4. disk' = [disk EXCEPT ![path] = f]
    BY <1>4, <2>1, <2>2 DEF Whole
  <2> HIDE DEF path
  <2>5. QED
    BY <1>1, <1>2, <1>4, <2>3, <2>4
<1>5. CASE path \in Parts \X Pools /\ Torn(r)
  <2>1. disk' = disk \/ disk' = [disk EXCEPT ![path] = NoFile]
    BY <1>5 DEF Torn
  <2> HIDE DEF path
  <2>2. QED
    BY <1>1, <1>2, <1>5, <2>1, BlankFiles
<1>6. QED
  BY <1>3, <1>4, <1>5

LEMMA StartsKeeps ==
    ASSUME FilesTyped, FilesSound, NEW j \in Renderings, Starts(j)
    PROVE  FilesTyped' /\ FilesSound'
<1>1. PICK x : x = [rendering[j] EXCEPT !.at = "dzi", !.auth = entry.auth]
  OBVIOUS
<1>2. /\ rendering[j] \in RenderingRecord /\ rendering[j].at = "idle" /\ entry.auth \in 0..MaxAuth
      /\ InStep(rendering[j], post[j]) /\ post[j] \in Posts
  BY DEF Starts, FilesTyped, FilesSound
<1>3. post[j].at = "none" /\ rendering[j].base = NoPool
  BY <1>2 DEF InStep, Posts, Parts, RenderingRecord
<1>4. x \in RenderingRecord /\ x.base = NoPool /\ x.at = "dzi"
  BY <1>1, <1>2, <1>3 DEF RenderingRecord
<1>5. rendering' = [rendering EXCEPT ![j] = x] /\ post' = [post EXCEPT ![j] = post[j]]
  BY <1>1 DEF Starts, FilesTyped
<1>6. InStep(x, post[j])
  BY <1>3, <1>4, NoPoolIsNone DEF InStep
<1>7. /\ UNCHANGED <<entry, url, pool, disk, adrift>>
      /\ disk' \in [Parts \X Pools -> [auth : 0..MaxAuth, whole : BOOLEAN]]
  BY DEF Starts, FilesTyped
<1>8. QED
  BY <1>2, <1>3, <1>4, <1>5, <1>6, <1>7, LetsGo

LEMMA PostCheckedKeeps ==
    ASSUME FilesTyped, FilesSound, NEW j \in Renderings, PostChecked(j)
    PROVE  FilesTyped' /\ FilesSound'
<1>1. PICK y : y = [NoPost EXCEPT !.at = "checked", !.part = rendering[j].at,
                                  !.auth = rendering[j].auth]
  OBVIOUS
<1>2. /\ rendering[j] \in RenderingRecord /\ rendering[j].at \in Parts
      /\ rendering[j].auth = entry.auth /\ entry.auth \in 1..MaxAuth
      /\ InStep(rendering[j], post[j]) /\ post[j] = NoPost
  BY DEF PostChecked, FilesTyped, FilesSound, Authorized
<1>a. rendering[j].auth \in 0..MaxAuth /\ rendering[j].auth # 0
  <2>1. rendering[j].auth \in 0..MaxAuth
    BY <1>2 DEF RenderingRecord
  <2>2. QED
    BY <1>2, <2>1
<1>3. /\ y \in Posts /\ y.at = "checked" /\ y.part = rendering[j].at
      /\ y.auth = rendering[j].auth /\ y.auth # 0
  BY <1>1, <1>2, <1>a, BlankFiles DEF Posts
<1>4. rendering' = [rendering EXCEPT ![j] = rendering[j]] /\ post' = [post EXCEPT ![j] = y]
  BY <1>1, <1>2 DEF PostChecked, FilesTyped
<1>5. InStep(rendering[j], y)
  BY <1>2, <1>3 DEF InStep
<1>6. /\ UNCHANGED <<entry, url, pool, disk, adrift>>
      /\ disk' \in [Parts \X Pools -> [auth : 0..MaxAuth, whole : BOOLEAN]]
  BY DEF PostChecked, FilesTyped
<1>7. QED
  BY <1>2, <1>3, <1>4, <1>5, <1>6, LetsGo

LEMMA TriedIs ==
    ASSUME FilesTyped, FilesSound, NEW j \in Renderings, Tried(j)
    PROVE  \E x \in RenderingRecord :
              /\ rendering' = [rendering EXCEPT ![j] = x]
              /\ x.base = NoPool \/ x = rendering[j]
              /\ InStep(x, NoPost)
<1>1. rendering[j] \in RenderingRecord /\ InStep(rendering[j], post[j])
      /\ rendering = [rendering EXCEPT ![j] = rendering[j]]
  BY DEF FilesTyped, FilesSound
<1>2. InStep(rendering[j], NoPost) /\ InStep(Over(j), NoPost)
  BY <1>1, OverIsOver, BlankFiles, NoPoolIsNone DEF InStep
<1>3. QED
  BY <1>1, <1>2, OverIsOver DEF Tried

LEMMA GivesUpKeeps ==
    ASSUME FilesTyped, FilesSound, NEW j \in Renderings, GivesUp(j)
    PROVE  FilesTyped' /\ FilesSound'
<1>1. /\ adrift' = post[j] /\ post' = [post EXCEPT ![j] = NoPost] /\ Tried(j)
      /\ UNCHANGED <<entry, url, pool, disk>>
      /\ disk' \in [Parts \X Pools -> [auth : 0..MaxAuth, whole : BOOLEAN]]
  BY DEF GivesUp, FilesTyped
<1>2. PICK x \in RenderingRecord :
         /\ rendering' = [rendering EXCEPT ![j] = x]
         /\ x.base = NoPool \/ x = rendering[j]
         /\ InStep(x, NoPost)
  BY <1>1, TriedIs
<1>3. QED
  BY <1>1, <1>2, BlankFiles, LetsGo

LEMMA BodyBreaksKeeps ==
    ASSUME FilesTyped, FilesSound, NEW j \in Renderings, BodyBreaks(j)
    PROVE  FilesTyped' /\ FilesSound'
<1>1. /\ post[j].at = "open" /\ post[j] \in Posts
      /\ Torn(post[j]) /\ post' = [post EXCEPT ![j] = NoPost] /\ Tried(j)
      /\ UNCHANGED <<entry, url, pool, adrift>>
  BY DEF BodyBreaks, FilesTyped
<1>2. /\ disk' \in [Parts \X Pools -> [auth : 0..MaxAuth, whole : BOOLEAN]]
      /\ \A part \in Parts, p \in Pools :
            disk'[<<part, p>>] = disk[<<part, p>>] \/ Opened(post[j], part, p)
  BY <1>1, DiskCloses
<1>3. PICK x \in RenderingRecord :
         /\ rendering' = [rendering EXCEPT ![j] = x]
         /\ x.base = NoPool \/ x = rendering[j]
         /\ InStep(x, NoPost)
  BY <1>1, TriedIs
<1>4. QED
  BY <1>1, <1>2, <1>3, BlankFiles, LetsGo

LEMMA FailsKeeps ==
    ASSUME FilesTyped, FilesSound, NEW j \in Renderings, ReportError(j) \/ PostRefused(j)
    PROVE  FilesTyped' /\ FilesSound'
<1>1. /\ rendering' = [rendering EXCEPT ![j] = Over(j)] /\ post[j] = NoPost /\ post' = post
      /\ UNCHANGED <<url, pool, disk, adrift>>
      /\ disk' \in [Parts \X Pools -> [auth : 0..MaxAuth, whole : BOOLEAN]]
      /\ entry' = entry \/
            (entry.status # "completed" /\ entry' = [entry EXCEPT !.status = "error"])
  BY DEF ReportError, PostRefused, Waits, FilesTyped
<1>2. Over(j) \in RenderingRecord /\ Over(j).base = NoPool /\ InStep(Over(j), NoPost)
  BY OverIsOver, BlankFiles, NoPoolIsNone DEF InStep
<1>3. post' = [post EXCEPT ![j] = NoPost]
  BY <1>1 DEF FilesTyped
<1>4. QED
  BY <1>1, <1>2, <1>3, BlankFiles, LetsGo

\* However often jobs retry, posts arrive late, pools are switched and photos
\* are uploaded again, a completed photo's files are all there and its own -
\* unless a post opened a path in use.
THEOREM CompletedIsStored == FilesSpec => []CompletedHasFiles
<1>1. FilesInit => FilesInv
  <2> SUFFICES ASSUME FilesInit PROVE FilesInv
    OBVIOUS
  <2>1. FilesTyped
    <3>1. 1 \in 1..MaxAuth
      <4>1. MaxAuth \in Nat \ {0}
        BY FilesAssumption
      <4>2. QED
        BY <4>1
    <3>2. QED
      BY <3>1, BlankFiles DEF FilesInit, FilesTyped
  <2>2. \A j \in Renderings : rendering[j] = IdleRendering /\ post[j] = NoPost
    BY DEF FilesInit
  <2>3. \A j \in Renderings, part \in Parts, p \in Pools :
           ~ Held(j, part, p) /\ ~ Opened(post[j], part, p) /\ ~ Relies(j, part, p)
    BY <2>2, BlankFiles, NoPoolIsNone DEF Held, Opened, Relies
  <2>4. \A j \in Renderings : InStep(rendering[j], post[j])
    BY <2>2, BlankFiles, NoPoolIsNone DEF InStep
  <2>5. Published
    BY DEF FilesInit, Published
  <2>6. QED
    BY <2>1, <2>3, <2>4, <2>5 DEF FilesInv, FilesSound, Stored, Alone
<1>2. FilesInv /\ [FilesNext]_fileVars => FilesInv'
  <2> SUFFICES ASSUME FilesInv, [FilesNext]_fileVars PROVE FilesInv'
    OBVIOUS
  <2>0. FilesTyped /\ (~ stray => FilesSound) /\ NoPost \in Posts /\ NoPost.at = "none"
    BY BlankFiles DEF FilesInv
  <2>1. CASE UNCHANGED fileVars
    <3>1. UNCHANGED <<entry, url, pool, disk, rendering, post, adrift, stray>>
      BY <2>1 DEF fileVars
    <3>2. CASE stray
      BY <2>0, <3>1, <3>2 DEF FilesInv, FilesTyped
    <3>3. CASE ~ stray
      BY <2>0, <3>1, <3>3, NobodysPath DEF FilesInv, FilesTyped
    <3>4. QED
      BY <3>2, <3>3
  <2>3. ASSUME ~ stray, Authorize \/ DeleteFiles PROVE FilesInv'
    BY <2>0, <2>3, RowKeeps DEF FilesInv
  <2>4. ASSUME ~ stray, PoolSwitched \/ AdriftEnds PROVE FilesInv'
    <3>1. /\ UNCHANGED <<entry, url, rendering, post, disk>> /\ pool' \in Pools
          /\ adrift' = adrift \/ adrift' = NoPost
      BY <2>0, <2>4 DEF PoolSwitched, AdriftEnds, FilesTyped
    <3>2. disk' \in [Parts \X Pools -> [auth : 0..MaxAuth, whole : BOOLEAN]]
          /\ adrift' \in Posts /\ (adrift'.at = "open" => adrift' = adrift)
      BY <2>0, <3>1 DEF FilesTyped
    <3>3. QED
      BY <2>0, <2>4, <3>1, <3>2, NobodysPath DEF FilesInv
  <2>5. ASSUME ~ stray, AdriftCloses PROVE FilesInv'
    <3>1. /\ UNCHANGED <<entry, url, pool, rendering, post>> /\ adrift' = NoPost /\ adrift.at = "open"
          /\ Whole(adrift) \/ Torn(adrift)
      BY <2>5 DEF AdriftCloses
    <3>2. /\ disk' \in [Parts \X Pools -> [auth : 0..MaxAuth, whole : BOOLEAN]]
          /\ \A part \in Parts, p \in Pools :
                disk'[<<part, p>>] = disk[<<part, p>>] \/ Opened(adrift, part, p)
      BY <2>0, <3>1, DiskCloses DEF FilesTyped
    <3>3. pool' \in Pools
      BY <2>0, <3>1 DEF FilesTyped
    <3>4. QED
      BY <2>0, <2>5, <3>1, <3>2, <3>3, NobodysPath DEF FilesInv
  <2>7. ASSUME ~ stray, NEW j \in Renderings, Starts(j) PROVE FilesInv'
    BY <2>0, <2>7, StartsKeeps DEF FilesInv
  <2>8. ASSUME ~ stray, NEW j \in Renderings, PostChecked(j) PROVE FilesInv'
    BY <2>0, <2>8, PostCheckedKeeps DEF FilesInv
  <2>9. ASSUME ~ stray, NEW j \in Renderings, GivesUp(j) PROVE FilesInv'
    BY <2>0, <2>9, GivesUpKeeps DEF FilesInv
  <2>10. ASSUME ~ stray, NEW j \in Renderings, ReportError(j) \/ PostRefused(j) PROVE FilesInv'
    BY <2>0, <2>10, FailsKeeps DEF FilesInv
  <2>11. ASSUME ~ stray, NEW j \in Renderings, BodyBreaks(j) PROVE FilesInv'
    BY <2>0, <2>11, BodyBreaksKeeps DEF FilesInv
  <2>12. ASSUME ~ stray, NEW j \in Renderings, ReportDone(j) \/ BodyStreams(j) PROVE FilesInv'
    BY <2>0, <2>12, ReportDoneKeeps, BodyStreamsKeeps DEF FilesInv
  <2>13. ASSUME NEW j \in Renderings, PostOpens(j) PROVE FilesInv'
    BY <2>0, <2>13, PostOpensKeeps
  <2>14. CASE AdriftOpens
    BY <2>0, <2>14, AdriftOpensKeeps
  <2>15. QED
    BY <2>1, <2>3, <2>4, <2>5, <2>7, <2>8, <2>9, <2>10, <2>11, <2>12, <2>13, <2>14 DEF FilesNext
<1>3. FilesInv => CompletedHasFiles
  BY DEF FilesInv, FilesSound, Published, CompletedHasFiles
<1>4. QED
  BY <1>1, <1>2, <1>3, PTL DEF FilesSpec

-----------------------------------------------------------------------------
(* Renditions and the record of what they hide                             *)

SizeNames == {Sizes[i] : i \in 1..4}

Publication == [by : {"nobody", "saved", "later"}, hides : SUBSET Int]

IsJob(w) == w \in [at : {w.at}, override : {w.override}, left : {w.left},
                   objects : {w.objects}, made : {w.made}, outcome : {w.outcome}]

\* A path shows what its last writer hid: the last recorded job, or a later one.
RendersInv ==
    /\ online \in [SizeNames -> Publication]
    /\ IsJob(work)
    /\ work.left \in Seq(SizeNames) /\ work.made \subseteq SizeNames
    /\ saved.made \subseteq SizeNames
    /\ work.at \in {"started", "examined"} => work.made = {}
    /\ work.at = "publishing" =>
          \A r \in work.made :
              online[r].by = "later" /\ online[r].hides = Area(r) \cap Painted(work.objects)
    /\ HiddenAsRecorded

LEMMA SizesAreNames == Sizes \in Seq(SizeNames) /\ Range(Sizes) = SizeNames
  BY DEF Sizes, SizeNames, Range

LEMMA Hiding ==
    ASSUME NEW r, NEW objects
    PROVE  /\ HiddenIn(r, objects) = Area(r) \cap Painted(objects)
           /\ HiddenIn(r, objects) \in SUBSET Int
<1>1. HiddenIn(r, objects) = Area(r) \cap Painted(objects)
  BY DEF HiddenIn, Blackened, Painted
<1>2. CellsOfAll({o \in objects : IsBlurred(o)}) \subseteq Cells
  BY DEF CellsOfAll
<1>3. Cells \subseteq Int
  BY RenditionsAssumption DEF Cells
<1>4. QED
  BY <1>1, <1>2, <1>3 DEF Painted


LEMMA RendersBegin == RendersInit => RendersInv
  BY SizesAreNames DEF RendersInit, RendersInv, NoJob, Publication, HiddenAsRecorded, IsJob

\* What does not publish, or report, changes the job alone.
LEMMA JobMoves ==
    ASSUME RendersInv, UNCHANGED <<saved, online>>, IsJob(work)',
           work'.left \in Seq(SizeNames), work'.made \subseteq SizeNames,
           work'.at \in {"started", "examined"} => work'.made = {},
           work'.at = "publishing" =>
              work'.made = {} \/ (work.at = "publishing" /\ work'.made = work.made
                                  /\ work'.objects = work.objects)
    PROVE  RendersInv'
<1> USE DEF Area, Cells, Painted, CellsOfAll, IsBlurred, should_blur, CellsOf
<1>1. HiddenAsRecorded'
  BY DEF RendersInv, HiddenAsRecorded
<1>2. ASSUME work'.at = "publishing", NEW r \in work'.made
      PROVE  online'[r].by = "later" /\ online'[r].hides = Area(r) \cap Painted(work'.objects)
  BY <1>2 DEF RendersInv
<1>3. QED
  BY <1>1, <1>2 DEF RendersInv

LEMMA JobSteps ==
    ASSUME RendersInv,
           (\E override \in {"auto", "skip", "rectangles", "legacy", "stored"} : StartJob(override))
             \/ Examine \/ anonymize_image \/ ApplyOverride \/ Fail
    PROVE  RendersInv'
<1>1. CASE \E override \in {"auto", "skip", "rectangles", "legacy", "stored"} : StartJob(override)
  <2>1. PICK override : work' = [NoJob EXCEPT !.at = "started", !.override = override, !.left = Sizes]
    BY <1>1 DEF StartJob
  <2>2. UNCHANGED <<saved, online>>
    BY <1>1 DEF StartJob
  <2>3. IsJob(work)' /\ work'.left = Sizes /\ work'.made = {} /\ work'.at = "started"
    BY <2>1 DEF NoJob, IsJob
  <2>4. QED
    BY <2>2, <2>3, SizesAreNames, JobMoves
<1>2. CASE Examine \/ Fail
  <2>1. /\ UNCHANGED <<saved, online>>
        /\ \/ \E outcome : work' = [work EXCEPT !.at = "over", !.outcome = outcome]
           \/ work.at = "started" /\ work' = [work EXCEPT !.at = "examined"]
    BY <1>2 DEF Examine, Fail, JobEnds, JobBecomes
  <2>2. /\ IsJob(work)' /\ work'.left = work.left /\ work'.made = work.made /\ work'.at \in {"over", "examined"}
        /\ work'.at = "examined" => work.at = "started"
    BY <2>1 DEF RendersInv, IsJob
  <2>3. QED
    BY <2>1, <2>2, JobMoves DEF RendersInv
<1>3. CASE anonymize_image \/ ApplyOverride
  <2>1. /\ work.at = "examined" /\ UNCHANGED <<saved, online>>
        /\ \/ \E objects : work' = [work EXCEPT !.at = "publishing", !.objects = objects]
           \/ work' = [work EXCEPT !.at = "over", !.outcome = "permanent"]
    BY <1>3 DEF anonymize_image, ApplyOverride, Hidden
  <2>2. /\ IsJob(work)' /\ work'.left = work.left /\ work'.made = work.made /\ work'.at \in {"publishing", "over"}
    BY <2>1 DEF RendersInv, IsJob
  <2>3. work.made = {}
    BY <2>1 DEF RendersInv
  <2>4. QED
    BY <2>1, <2>2, <2>3, JobMoves DEF RendersInv
<1>4. QED
  BY <1>1, <1>2, <1>3

LEMMA PublishKeeps ==
    ASSUME RendersInv, PublishNext
    PROVE  RendersInv'
<1> USE DEF Area, Cells, Painted, CellsOfAll, IsBlurred, should_blur, CellsOf
<1>1. PICK r : r = Head(work.left)
  OBVIOUS
<1>2. /\ work.at = "publishing" /\ r \in SizeNames /\ Tail(work.left) \in Seq(SizeNames)
      /\ UNCHANGED saved
  BY <1>1 DEF RendersInv, PublishNext
<1>3. PICK hides \in SUBSET Int : hides = Area(r) \cap Painted(work.objects)
  BY Hiding
<1>4. online' = [online EXCEPT ![r] = [by |-> "later", hides |-> hides]]
  BY <1>1, <1>3, Hiding DEF PublishNext
<1>5. /\ IsJob(work)' /\ work'.left = Tail(work.left) /\ work'.made = work.made \cup {r}
      /\ work'.at = "publishing" /\ work'.objects = work.objects
  BY <1>1, <1>2 DEF PublishNext, RendersInv, IsJob
<1>6. /\ online' \in [SizeNames -> Publication] /\ online'[r].by = "later"
      /\ online'[r].hides = hides /\ \A s \in SizeNames \ {r} : online'[s] = online[s]
  BY <1>2, <1>4 DEF RendersInv, Publication
<1>7. HiddenAsRecorded'
  BY <1>2, <1>6 DEF RendersInv, HiddenAsRecorded
<1>8. \A s \in work'.made :
         online'[s].by = "later" /\ online'[s].hides = Area(s) \cap Painted(work'.objects)
  BY <1>2, <1>3, <1>5, <1>6 DEF RendersInv
<1>9. QED
  BY <1>2, <1>5, <1>6, <1>7, <1>8 DEF RendersInv

LEMMA ReportKeeps ==
    ASSUME RendersInv, Report
    PROVE  RendersInv'
<1> USE DEF Area, Cells, Painted, CellsOfAll, IsBlurred, should_blur, CellsOf
<1>1. /\ work.at = "publishing" /\ saved'.made = work.made /\ saved'.objects = work.objects
      /\ work' = [work EXCEPT !.at = "over", !.outcome = "completed"]
      /\ online' = [r \in SizeNames |->
                      IF r \in work.made THEN [online[r] EXCEPT !.by = "saved"] ELSE online[r]]
  BY DEF Report, RendersInv
<1>2. IsJob(work)' /\ work'.left = work.left /\ work'.made = work.made /\ work'.at = "over"
  BY <1>1 DEF RendersInv, IsJob
<1>3. ASSUME NEW r \in SizeNames
      PROVE  /\ online'[r] \in Publication
             /\ r \in work.made => online'[r].by = "saved" /\ online'[r].hides = online[r].hides
  <2>1. PICK p \in Publication : p = online[r]
    BY DEF RendersInv
  <2>2. CASE r \in work.made
    BY <1>1, <2>1, <2>2 DEF Publication
  <2>3. CASE r \notin work.made
    BY <1>1, <2>1, <2>3
  <2>4. QED
    BY <2>2, <2>3
<1>4. HiddenAsRecorded'
  BY <1>1, <1>3 DEF RendersInv, HiddenAsRecorded
<1>5. online' \in [SizeNames -> Publication]
  BY <1>1, <1>3
<1>6. QED
  BY <1>1, <1>2, <1>4, <1>5 DEF RendersInv

\* Every rendition that the record of a photo lists hides exactly what the
\* record marks as blurred, or was replaced by a later job that did not end.
THEOREM RecordTellsTheTruth == RendersSpec => []HiddenAsRecorded
<1>1. RendersInv /\ [RendersNext]_renderVars => RendersInv'
  <2>1. SUFFICES ASSUME RendersInv, [RendersNext]_renderVars PROVE RendersInv'
    OBVIOUS
  <2>2. CASE UNCHANGED renderVars
    BY <2>1, <2>2, JobMoves DEF renderVars, RendersInv, IsJob
  <2>3. QED
    BY <2>1, <2>2, JobSteps, PublishKeeps, ReportKeeps DEF RendersNext
<1>2. RendersInv => HiddenAsRecorded
  BY DEF RendersInv
<1>3. QED
  BY <1>1, <1>2, RendersBegin, PTL DEF RendersSpec

-----------------------------------------------------------------------------
(* The tiles: what is small enough is in one of them as a whole.           *)

LEMMA Division ==
    ASSUME NEW a \in Nat, NEW s \in Nat \ {0}
    PROVE  a \div s \in Nat /\ a % s \in 0..(s - 1) /\ a = s * (a \div s) + (a % s)
  BY Z3

\* Of the numbers below s only zero is a multiple of it.
LEMMA SmallMultiple ==
    ASSUME NEW s \in Nat \ {0}, NEW x \in Int, NEW r \in 0..(s - 1), s * x = r
    PROVE  r = 0
<1>1. x >= 1 => s * x >= s
  BY Z3
<1>2. x <= -1 => s * x <= -s
  BY Z3
<1>3. x = 0 => s * x = 0
  OBVIOUS
<1>4. QED
  BY <1>1, <1>2, <1>3

\* Taking off what is left over leaves a multiple.
LEMMA MultipleBelow ==
    ASSUME NEW a \in Nat, NEW s \in Nat \ {0}
    PROVE  (a - (a % s)) % s = 0 /\ a - (a % s) \in Nat
<1>1. PICK q \in Nat, r \in 0..(s - 1) : a = s * q + r /\ r = a % s
  BY Division
<1>2. PICK m \in Nat : m = s * q /\ m = a - r
  BY <1>1
<1>3. PICK d \in Nat, e \in 0..(s - 1) : m = s * d + e /\ e = m % s
  BY Division
<1>4. s * (q - d) = e
  BY <1>2, <1>3, Z3
<1>5. e = 0
  BY <1>4, SmallMultiple
<1>6. QED
  BY <1>1, <1>2, <1>3, <1>5

\* What is no longer than the overlap of two tiles is in one tile as a whole,
\* wherever it is in a picture of any length: the tile is the last one that
\* starts before it, or the one that ends with the picture.
THEOREM TilesSeeEverything == TilesCover
<1>1. SUFFICES ASSUME NEW length \in 1..(2 * Width + 1), NEW a \in 0..(length - 1),
                      NEW n \in 0..(Tile - TileStep), a + n <= length
               PROVE  \E t \in TileStarts(length) : t <= a /\ a + n <= t + Tile
  BY DEF TilesCover
<1>2. /\ Width \in Nat /\ Tile \in Nat /\ TileStep \in Nat \ {0} /\ TileStep <= Tile
      /\ length \in Nat /\ a \in Nat /\ n \in Nat /\ n + TileStep <= Tile
  BY RenditionsAssumption, <1>1
<1>3. CASE length <= Tile
  <2>1. 0 \in TileStarts(length)
    BY <1>3 DEF TileStarts
  <2>2. QED
    BY <1>1, <1>2, <1>3, <2>1
<1>4. CASE length > Tile
  <2>1. PICK r \in 0..(TileStep - 1) : r = a % TileStep
    BY <1>2, Division
  <2>2. PICK t \in Nat : t = a - r /\ t % TileStep = 0
    BY <1>2, <2>1, MultipleBelow
  <2>3. CASE t <= length - Tile
    <3>1. t \in TileStarts(length)
      BY <1>2, <1>4, <2>2, <2>3 DEF TileStarts, StepsWithin
    <3>2. t <= a /\ a + n <= t + Tile
      BY <1>2, <2>1, <2>2
    <3>3. QED
      BY <3>1, <3>2
  <2>4. CASE t > length - Tile
    <3>1. length - Tile \in TileStarts(length)
      BY <1>4, <1>2 DEF TileStarts
    <3>2. length - Tile <= a /\ a + n <= (length - Tile) + Tile
      BY <1>1, <1>2, <2>1, <2>2, <2>4
    <3>3. QED
      BY <3>1, <3>2
  <2>5. QED
    BY <1>2, <2>2, <2>3, <2>4
<1>5. QED
  BY <1>2, <1>3, <1>4

-----------------------------------------------------------------------------
(* Deduplication: what is dropped lies within what is kept.                *)

\* A set of numbers that is not empty has a least one.
LEMMA LeastOf ==
    ASSUME NEW T, T \subseteq Nat, T # {}
    PROVE  \E x \in T : \A y \in T : x <= y
<1> DEFINE Smaller == OpToRel(<, Nat)
<1>1. \A x, y \in Nat : y < x => <<y, x>> \in Smaller
  BY DEF OpToRel
<1>2. IsWellFoundedOn(Smaller, Nat)
  BY NatLessThanWellFounded
<1> HIDE DEF Smaller
<1>3. PICK x \in T : \A y \in T : ~ (<<y, x>> \in Smaller)
  BY <1>2, WFMin
<1>4. \A y \in T : x \in Nat /\ y \in Nat /\ ~ (y < x)
  BY <1>1, <1>3
<1>5. QED
  BY <1>4

BoxLists == UNION {[1..n -> Findable] : n \in Nat}

LEMMA BoxLengths ==
    ASSUME NEW o \in Findable
    PROVE  Length(o) \in 1..Width
<1>1. o \in Found(1) \/ o \in Found(2)
  BY DEF Findable
<1>2. o.from \in Cells /\ o.to \in 1..Width /\ o.from < o.to
  BY <1>1 DEF Found
<1>3. QED
  BY <1>2, RenditionsAssumption DEF Length, Cells

\* Among the boxes that contain a box, the one that comes first is kept.
LEMMA KeptCovers ==
    ASSUME NEW n \in Nat, NEW raw \in [1..n -> Findable], NEW i \in 1..n
    PROVE  \E k \in KeptBoxes(raw) :
               Redundant(raw[i], raw[k]) /\ (k = i \/ Earlier(raw, k, i))
<1> DEFINE over == {j \in 1..n : Redundant(raw[i], raw[j])}
           short == {Width - Length(raw[j]) : j \in over}
<1>1. \A j \in 1..n : Length(raw[j]) \in 1..Width
  BY BoxLengths
<1>2. i \in over
  BY DEF Redundant
<1>3. short \subseteq Nat /\ short # {}
  BY <1>1, <1>2, RenditionsAssumption
<1>4. PICK m \in short : \A x \in short : m <= x
  BY <1>3, LeastOf
<1> DEFINE longest == {j \in over : Width - Length(raw[j]) = m}
<1>5. longest \subseteq Nat /\ longest # {}
  BY <1>4
<1>6. PICK k \in longest : \A j \in longest : k <= j
  BY <1>5, LeastOf
<1>7. k \in 1..n /\ Redundant(raw[i], raw[k]) /\ Width - Length(raw[k]) = m
  BY <1>6
<1>8. \A j \in over : Length(raw[j]) <= Length(raw[k])
  <2>1. SUFFICES ASSUME NEW j \in over PROVE Length(raw[j]) <= Length(raw[k])
    OBVIOUS
  <2>2. Width - Length(raw[j]) \in short
    OBVIOUS
  <2>3. m <= Width - Length(raw[j])
    BY <1>4, <2>2
  <2>4. Length(raw[j]) \in Int /\ Length(raw[k]) \in Int /\ Width \in Int
    BY <1>1, <1>7, RenditionsAssumption
  <2>5. QED
    BY <1>7, <2>3, <2>4
<1>9. \A j \in over : Length(raw[j]) = Length(raw[k]) => k <= j
  BY <1>6, <1>7
<1>10. k \in KeptBoxes(raw)
  <2>1. SUFFICES ASSUME NEW j \in 1..n, Earlier(raw, j, k), Redundant(raw[k], raw[j]) PROVE FALSE
    BY <1>7 DEF KeptBoxes
  <2>2. j \in over
    BY <1>7, <2>1 DEF Redundant
  <2>3. Length(raw[j]) \in Int /\ Length(raw[k]) \in Int
    BY <1>1, <1>7
  <2>4. QED
    BY <1>7, <1>8, <1>9, <2>1, <2>2, <2>3 DEF Earlier
<1>11. k = i \/ Earlier(raw, k, i)
  <2>1. Length(raw[i]) \in Int /\ Length(raw[k]) \in Int
    BY <1>1, <1>7
  <2>2. QED
    BY <1>2, <1>7, <1>8, <1>9, <2>1 DEF Earlier
<1>12. QED
  BY <1>7, <1>10, <1>11

\* KeptBoxes is what the loop keeps: a box is kept unless one of the kept ones
\* that come before it contains it.
LEMMA KeptAsInTheLoop ==
    ASSUME NEW n \in Nat, NEW raw \in [1..n -> Findable], NEW i \in 1..n
    PROVE  i \in KeptBoxes(raw) <=>
               ~ \E k \in KeptBoxes(raw) : Earlier(raw, k, i) /\ Redundant(raw[i], raw[k])
<1>1. KeptBoxes(raw) \subseteq 1..n
  BY DEF KeptBoxes
<1>2. ASSUME i \in KeptBoxes(raw), NEW k \in KeptBoxes(raw), Earlier(raw, k, i),
             Redundant(raw[i], raw[k])
      PROVE  FALSE
  BY <1>1, <1>2 DEF KeptBoxes
<1>3. ASSUME i \notin KeptBoxes(raw)
      PROVE  \E k \in KeptBoxes(raw) : Earlier(raw, k, i) /\ Redundant(raw[i], raw[k])
  <2>1. PICK j \in 1..n : Earlier(raw, j, i) /\ Redundant(raw[i], raw[j])
    BY <1>3 DEF KeptBoxes
  <2>2. PICK k \in KeptBoxes(raw) : Redundant(raw[j], raw[k]) /\ (k = j \/ Earlier(raw, k, j))
    BY KeptCovers
  <2>3. /\ k \in 1..n /\ Length(raw[i]) \in Int /\ Length(raw[j]) \in Int
        /\ Length(raw[k]) \in Int
    BY <1>1, BoxLengths
  <2>4. Earlier(raw, k, i)
    BY <2>1, <2>2, <2>3 DEF Earlier
  <2>5. Redundant(raw[i], raw[k])
    BY <2>1, <2>2 DEF Redundant
  <2>6. QED
    BY <2>4, <2>5
<1>4. QED
  BY <1>2, <1>3

IsImage(g) ==
    g \in [content : {g.content}, readable : {g.readable}, exif : {g.exif}, colour : {g.colour},
           with : {g.with}, meta : {g.meta}, boxes : {g.boxes}, looked : {g.looked}]

IsUnseen(g) == IsImage(g) /\ ~ g.looked

DetectionInv ==
    /\ IsImage(image) /\ IsJob(work)
    /\ image.looked => image.boxes \in BoxLists
    /\ DetectionsRecorded

LEMMA DetectionBegins == RendersInit => DetectionInv
<1>1. SUFFICES ASSUME RendersInit PROVE DetectionInv
  OBVIOUS
<1>2. IsImage(PlainImage) /\ ~ PlainImage.looked
  BY DEF IsImage, PlainImage
<1>3. ASSUME image # PlainImage PROVE IsUnseen(image)
  <2>1. image \in Images
    BY <1>1, <1>3 DEF RendersInit, OddImages
  <2>2. QED
    BY <2>1 DEF IsUnseen, IsImage, Images
<1>4. work = NoJob
  BY <1>1 DEF RendersInit
<1>5. QED
  BY <1>2, <1>3, <1>4 DEF DetectionInv, DetectionsRecorded, IsJob, NoJob, IsUnseen

\* Whoever leaves the picture alone, and publishes nothing new of a detection.
LEMMA DetectionMoves ==
    ASSUME DetectionInv, UNCHANGED image, IsJob(work)',
           work'.at = "publishing" /\ work'.override = "auto" =>
              work.at = "publishing" /\ work.override = "auto" /\ work'.objects = work.objects
    PROVE  DetectionInv'
<1>1. DetectionsRecorded'
  BY DEF DetectionInv, DetectionsRecorded, CellsOf
<1>2. QED
  BY <1>1 DEF DetectionInv, IsImage

LEMMA AnonymizeRecords ==
    ASSUME DetectionInv, anonymize_image
    PROVE  DetectionInv'
<1>1. PICK raw \in Detections :
          /\ image' = [image EXCEPT !.boxes = raw, !.looked = TRUE]
          /\ work' = [work EXCEPT !.at = "publishing",
                                  !.objects = {Decided(o) : o \in deduplicate_boxes(raw)}]
  BY DEF anonymize_image, Hidden
<1>2. PICK n \in Nat : raw \in [1..n -> Findable]
  <2>1. CASE image.looked
    BY <2>1, <1>1 DEF Detections, DetectionInv, BoxLists
  <2>2. CASE ~ image.looked
    BY <2>2, <1>1, RenditionsAssumption DEF Detections
  <2>3. QED
    BY <2>1, <2>2
<1>3. IsImage(image)' /\ image'.boxes = raw
  BY <1>1 DEF DetectionInv, IsImage
<1>4. IsJob(work)' /\ work'.objects = {Decided(o) : o \in deduplicate_boxes(raw)}
  BY <1>1 DEF DetectionInv, IsJob
<1>5. ASSUME NEW i \in 1..n
      PROVE  \E o \in work'.objects : CellsOf(raw[i]) \subseteq CellsOf(o)
  <2>1. PICK k \in KeptBoxes(raw) : Redundant(raw[i], raw[k])
    BY <1>2, KeptCovers
  <2>2. raw[k] \in Findable /\ raw[k] \in deduplicate_boxes(raw)
    BY <1>2, <2>1 DEF KeptBoxes, deduplicate_boxes
  <2>3. Decided(raw[k]) \in work'.objects
    BY <1>4, <2>2
  <2>4. CellsOf(Decided(raw[k])) = CellsOf(raw[k])
    BY <2>2 DEF Decided, CellsOf, Findable, Found
  <2>5. QED
    BY <2>1, <2>3, <2>4 DEF Redundant
<1>6. DetectionsRecorded'
  BY <1>2, <1>3, <1>5 DEF DetectionsRecorded, CellsOf
<1>7. raw \in BoxLists
  BY <1>2 DEF BoxLists
<1>8. QED
  BY <1>3, <1>4, <1>6, <1>7 DEF DetectionInv

LEMMA OthersRecord ==
    ASSUME DetectionInv,
           (\E override \in {"auto", "skip", "rectangles", "legacy", "stored"} : StartJob(override))
             \/ Examine \/ ApplyOverride \/ PublishNext \/ Report \/ Fail
    PROVE  DetectionInv'
<1>1. CASE \E override \in {"auto", "skip", "rectangles", "legacy", "stored"} : StartJob(override)
  <2>1. PICK override : work' = [NoJob EXCEPT !.at = "started", !.override = override, !.left = Sizes]
    BY <1>1 DEF StartJob
  <2>2. UNCHANGED image
    BY <1>1 DEF StartJob
  <2>3. IsJob(work)' /\ work'.at = "started"
    BY <2>1 DEF NoJob, IsJob
  <2>4. QED
    BY <2>2, <2>3, DetectionMoves
<1>2. CASE Examine \/ Fail
  <2>1. /\ UNCHANGED image
        /\ \/ \E outcome : work' = [work EXCEPT !.at = "over", !.outcome = outcome]
           \/ work' = [work EXCEPT !.at = "examined"]
    BY <1>2 DEF Examine, Fail, JobEnds, JobBecomes
  <2>2. IsJob(work)' /\ work'.at \in {"over", "examined"}
    BY <2>1 DEF DetectionInv, IsJob
  <2>3. QED
    BY <2>1, <2>2, DetectionMoves
<1>3. CASE ApplyOverride
  <2>1. /\ UNCHANGED image
        /\ \/ work.override # "auto"
              /\ \E objects : work' = [work EXCEPT !.at = "publishing", !.objects = objects]
           \/ work' = [work EXCEPT !.at = "over", !.outcome = "permanent"]
    BY <1>3 DEF ApplyOverride, Hidden
  <2>2. IsJob(work)' /\ (work'.at = "over" \/ (work'.override = work.override /\ work.override # "auto"))
    BY <2>1 DEF DetectionInv, IsJob
  <2>3. QED
    BY <2>1, <2>2, DetectionMoves
<1>4. CASE PublishNext
  <2>1. UNCHANGED image /\ work.at = "publishing"
        /\ \E left, made : work' = [work EXCEPT !.left = left, !.made = made]
    BY <1>4 DEF PublishNext
  <2>2. IsJob(work)' /\ work'.override = work.override /\ work'.objects = work.objects
    BY <2>1 DEF DetectionInv, IsJob
  <2>3. QED
    BY <2>1, <2>2, DetectionMoves
<1>5. CASE Report
  <2>1. UNCHANGED image /\ work' = [work EXCEPT !.at = "over", !.outcome = "completed"]
    BY <1>5 DEF Report
  <2>2. IsJob(work)' /\ work'.at = "over"
    BY <2>1 DEF DetectionInv, IsJob
  <2>3. QED
    BY <2>1, <2>2, DetectionMoves
<1>6. QED
  BY <1>1, <1>2, <1>3, <1>4, <1>5

\* The detector sees everything that is small enough, and everything that it
\* found lies within an object that is recorded: the tiles leave no seam and
\* the deduplication drops nothing for good.
THEOREM NothingIsOverlooked == RendersSpec => []NothingOverlooked
<1>1. DetectionInv /\ [RendersNext]_renderVars => DetectionInv'
  <2>1. SUFFICES ASSUME DetectionInv, [RendersNext]_renderVars PROVE DetectionInv'
    OBVIOUS
  <2>2. CASE UNCHANGED renderVars
    BY <2>1, <2>2, DetectionMoves DEF renderVars, DetectionInv, IsJob
  <2>3. QED
    BY <2>1, <2>2, AnonymizeRecords, OthersRecord DEF RendersNext
<1>2. DetectionInv => NothingOverlooked
  BY TilesSeeEverything DEF DetectionInv, NothingOverlooked
<1>3. QED
  BY <1>1, <1>2, DetectionBegins, PTL DEF RendersSpec

\* From the detector to the published renditions, for pictures of any width and
\* any boxes: nothing found is lost on the way to the record, and what the
\* record says is hidden (anonymize.py, photo_processor.py).
THEOREM FoundStaysHidden == RendersSpec => []FoundIsHidden
<1>1. NothingOverlooked /\ HiddenAsRecorded => FoundIsHidden
  BY DEF FoundIsHidden
<1>2. QED
  BY <1>1, RecordTellsTheTruth, NothingIsOverlooked, PTL

=============================================================================
