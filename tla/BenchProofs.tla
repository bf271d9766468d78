------------------------------ MODULE BenchProofs ------------------------------
(***************************************************************************)
(* Safety of the enrichment workbench's components, for every value of     *)
(* their constants: the life of a job, the acceptance of a transfer, the   *)
(* shared fetch of a tile, the graduation of natives to the main store, and *)
(* the curation of facts.                                                  *)
(***************************************************************************)
EXTENDS BenchJobs, Transfers, PeakTiles, Graduation, Curation, FiniteSetTheorems, TLAPS

-----------------------------------------------------------------------------
(* Jobs                                                                    *)

\* The final artifact has been written; a partial may have followed it.
WasWritten == file = "final" \/ overwritten

JobInv ==
    /\ asked \in Nat
    /\ report \in [Reports -> Int]
    /\ overwritten \in BOOLEAN
    /\ \A r \in Reports : r.kind = "done" /\ r.at = "filed" /\ report[r] > 0 => WasWritten
    /\ DoneHasArtifact

\* Reports that are sent, or taken away, are not filed.
LEMMA NothingFiled ==
    ASSUME JobInv, UNCHANGED <<status, file, shown, overwritten>>, asked' \in Nat,
           report' \in [Reports -> Int],
           \A r \in Reports : r.at = "filed" => report'[r] <= report[r]
    PROVE  JobInv'
  BY DEF JobInv, WasWritten, DoneHasArtifact

LEMMA PutReportKeeps ==
    ASSUME JobInv, NEW k, PutReport(k)
    PROVE  /\ report' \in [Reports -> Int]
           /\ \A r \in Reports : r.at = "filed" => report'[r] <= report[r]
<1>1. report \in [Reports -> Int]
  BY DEF JobInv
<1> DEFINE new == [kind |-> k, at |-> "sent"]
<1>2. report' = [report EXCEPT ![new] = @ + 1]
  BY DEF PutReport
<1>3. new.at = "sent"
  OBVIOUS
<1> HIDE DEF new
<1>4. \A r \in Reports : report'[r] = IF r = new THEN report[r] + 1 ELSE report[r]
  BY <1>1, <1>2
<1>5. report' \in [Reports -> Int]
  <2>1. DOMAIN report' = Reports /\ report' = [r \in Reports |-> report'[r]]
    BY <1>1, <1>2
  <2>2. \A r \in Reports : report'[r] \in Int
    BY <1>1, <1>4
  <2>3. QED
    BY <2>1, <2>2
<1>6. QED
  BY <1>1, <1>3, <1>4, <1>5

\* One report less.
LEMMA TakenKeeps ==
    ASSUME JobInv, NEW r \in Reports, report' = [report EXCEPT ![r] = @ - 1]
    PROVE  /\ report' \in [Reports -> Int]
           /\ \A x \in Reports : report'[x] <= report[x]
  BY DEF JobInv

LEMMA BecomesKeeps ==
    ASSUME JobInv, NEW r \in Reports, NEW place \in {"open", "filed"}, r.at # place,
           Becomes(r, place)
    PROVE  /\ report' \in [Reports -> Int]
           /\ \A x \in Reports : x # [r EXCEPT !.at = place] => report'[x] <= report[x]
<1> DEFINE moved == [r EXCEPT !.at = place]
<1>1. moved \in Reports /\ moved # r
  BY DEF Reports
<1>2. report' = [report EXCEPT ![r] = @ - 1, ![moved] = @ + 1]
  BY DEF Becomes
<1> HIDE DEF moved
<1>3. report' \in [Reports -> Int] /\ \A x \in Reports : x # moved => report'[x] <= report[x]
  BY <1>1, <1>2 DEF JobInv
<1>4. QED
  BY <1>3 DEF moved

LEMMA WriteFilesKeeps ==
    ASSUME JobInv, NEW r \in Reports, WriteFiles(r) \/ OpensFile(r)
    PROVE  JobInv'
<1> DEFINE place == IF WriteFiles(r) THEN "filed" ELSE "open"
           moved == [r EXCEPT !.at = place]
<1>1. r.at # place /\ Becomes(r, place) /\ moved.at = place /\ moved.kind = r.kind
  BY DEF WriteFiles, OpensFile, Reports
<1>2. report' \in [Reports -> Int] /\ \A x \in Reports : x # moved => report'[x] <= report[x]
  BY <1>1, BecomesKeeps
<1>3. WasWritten => WasWritten'
  BY DEF WasWritten, WriteFiles, OpensFile, Overwrites
<1>4. r.kind = "done" /\ place = "filed" => WasWritten'
  BY DEF WasWritten, WriteFiles, WithFiles, CarriesArtifact
<1> HIDE DEF moved, place
<1>5. \A x \in Reports : x.kind = "done" /\ x.at = "filed" /\ report'[x] > 0 => WasWritten'
  <2> SUFFICES ASSUME NEW x \in Reports, x.kind = "done", x.at = "filed", report'[x] > 0
               PROVE  WasWritten'
    OBVIOUS
  <2>1. CASE x = moved
    BY <1>1, <1>4, <2>1
  <2>2. CASE x # moved
    <3>1. report[x] \in Int /\ report'[x] \in Int
      BY <1>2 DEF JobInv
    <3>2. report[x] > 0
      BY <1>2, <2>2, <3>1
    <3>3. QED
      BY <1>3, <3>2 DEF JobInv
  <2>3. QED
    BY <2>1, <2>2
<1>6. UNCHANGED <<status, asked, shown>> /\ overwritten' \in BOOLEAN
  BY DEF WriteFiles, OpensFile, Overwrites
<1>7. DoneHasArtifact'
  BY <1>3, <1>6 DEF JobInv, DoneHasArtifact, WasWritten
<1>8. QED
  BY <1>2, <1>5, <1>6, <1>7 DEF JobInv

LEMMA UpdateKeeps ==
    ASSUME JobInv, NEW r \in Reports, UpdateProgress(r) \/ UpdateFinal(r)
    PROVE  JobInv'
<1>1. report' = [report EXCEPT ![r] = @ - 1] /\ UNCHANGED <<asked, file, overwritten>>
  BY DEF UpdateProgress, UpdateFinal
<1>2. report' \in [Reports -> Int] /\ \A x \in Reports : report'[x] <= report[x]
  BY <1>1, TakenKeeps
<1>3. \A x \in Reports : x.kind = "done" /\ x.at = "filed" /\ report'[x] > 0 => WasWritten'
  <2> SUFFICES ASSUME NEW x \in Reports, x.kind = "done", x.at = "filed", report'[x] > 0
               PROVE  WasWritten'
    OBVIOUS
  <2>1. report[x] \in Int /\ report'[x] \in Int
    BY <1>2 DEF JobInv
  <2>2. report[x] > 0
    BY <1>2, <2>1
  <2>3. QED
    BY <1>1, <2>2 DEF JobInv, WasWritten
<1>4. status' = "done" => shown' /\ WasWritten
  <2>1. CASE UpdateProgress(r)
    BY <2>1 DEF UpdateProgress, ProgressApplies, Unfinished, JobInv, DoneHasArtifact, WasWritten
  <2>2. CASE UpdateFinal(r)
    BY <2>2 DEF UpdateFinal, Handled, Shows, JobInv
  <2>3. QED
    BY <2>1, <2>2
<1>5. DoneHasArtifact'
  BY <1>1, <1>4 DEF DoneHasArtifact, WasWritten
<1>6. QED
  BY <1>1, <1>2, <1>3, <1>5 DEF JobInv

LEMMA OtherJobStepsKeep ==
    ASSUME JobInv,
           \/ Enqueue \/ Dispatch \/ DispatchFails \/ Import
           \/ \E a \in Attempts :
                \/ \E left \in 0..1 : Take(a, left)
                \/ GatePasses(a) \/ GateGivesUp(a) \/ \E k \in Finals : Computes(a, k)
                \/ Finishes(a) \/ FinalPostFails(a) \/ TimeLimitHits(a) \/ WorkerDies(a)
                \/ \E k \in {"progress", "partial"} : Reporting(a, k)
                \/ \E b \in Attempts : Redelivered(a, b)
           \/ \E r \in Reports : ReportLost(r)
    PROVE  JobInv'
<1>1. CASE Enqueue
  <2>1. status' = "queued" /\ asked' \in Nat
    BY <1>1 DEF Enqueue, EnqueueRender, EnqueuePair, EnqueueRun, RowQueued, JobInv
  <2>2. UNCHANGED <<report, file, shown, overwritten>>
    BY <1>1 DEF Enqueue, EnqueueRender, EnqueuePair, EnqueueRun, RowQueued
  <2>3. QED
    BY <2>1, <2>2 DEF JobInv, WasWritten, DoneHasArtifact
<1>2. CASE \E r \in Reports : ReportLost(r)
  <2>1. PICK r \in Reports : ReportLost(r)
    BY <1>2
  <2>2. report' = [report EXCEPT ![r] = @ - 1] /\ UNCHANGED <<status, asked, file, shown, overwritten>>
    BY <2>1 DEF ReportLost
  <2>3. QED
    BY <2>2, TakenKeeps, NothingFiled DEF JobInv
<1>3. CASE ~ Enqueue /\ ~ \E r \in Reports : ReportLost(r)
  <2>1. UNCHANGED <<status, file, shown, overwritten>> /\ asked' \in Nat
    BY <1>3 DEF Dispatch, DispatchFails, Import, Take, GatePasses, GateGivesUp, Computes, Proceeds,
                Finishes, FinalPostFails, TimeLimitHits, WorkerDies, Reporting, Redelivered, JobInv
  <2>2. report' = report \/ \E k : PutReport(k)
    BY <1>3 DEF Dispatch, DispatchFails, Import, Take, GatePasses, GateGivesUp, Computes, Proceeds,
                Finishes, FinalPostFails, TimeLimitHits, WorkerDies, Reporting, Redelivered
  <2>3. CASE report' = report
    BY <2>1, <2>3, NothingFiled DEF JobInv
  <2>4. CASE \E k : PutReport(k)
    BY <2>1, <2>4, PutReportKeeps, NothingFiled
  <2>5. QED
    BY <2>2, <2>3, <2>4
<1>4. QED
  BY <1>1, <1>2, <1>3

LEMMA JobInvariant == BenchSpec => []JobInv
<1>1. BenchInit => JobInv
  <2> SUFFICES ASSUME BenchInit PROVE JobInv
    OBVIOUS
  <2>1. report = [r \in Reports |-> 0] /\ asked = 0 /\ overwritten = FALSE /\ status = "none"
    BY DEF BenchInit
  <2>2. report \in [Reports -> Int] /\ \A r \in Reports : ~ (report[r] > 0)
    BY <2>1
  <2>3. QED
    BY <2>1, <2>2 DEF JobInv, DoneHasArtifact
<1>2. JobInv /\ [BenchNext]_benchVars => JobInv'
  <2> SUFFICES ASSUME JobInv, [BenchNext]_benchVars PROVE JobInv'
    OBVIOUS
  <2>1. CASE UNCHANGED benchVars
    BY <2>1, NothingFiled DEF benchVars, JobInv
  <2>2. CASE BenchNext
    BY <2>2, WriteFilesKeeps, UpdateKeeps, OtherJobStepsKeep DEF BenchNext, BenchProgress
  <2>3. QED
    BY <2>1, <2>2
<1>3. QED
  BY <1>1, <1>2, PTL DEF BenchSpec

\* A row that says done names an artifact that was written whole, for any
\* number of workers, redeliveries, enqueues and reports in flight.
THEOREM DoneHasItsArtifact == BenchSpec => []DoneHasArtifact
<1>1. JobInv => DoneHasArtifact
  BY DEF JobInv
<1>2. QED
  BY <1>1, JobInvariant, PTL

\* A finished job is opened again by nothing but a new enqueue.
THEOREM FinishedStaysFinished == BenchSpec => FinishedStays
<1> DEFINE Stays == status \in Finals => status' \in Finals \/ asked' > asked
<1>1. JobInv /\ BenchNext => Stays
  <2> SUFFICES ASSUME JobInv, BenchNext, status \in Finals
               PROVE  status' \in Finals \/ asked' > asked
    OBVIOUS
  <2>1. CASE Enqueue
    BY <2>1 DEF Enqueue, EnqueueRender, EnqueuePair, EnqueueRun, RowQueued, JobInv
  <2>2. CASE \E r \in Reports : UpdateProgress(r) \/ UpdateFinal(r)
    BY <2>2 DEF UpdateProgress, UpdateFinal, ProgressApplies, Unfinished
  <2>3. CASE status' = status
    BY <2>3
  <2>4. QED
    BY <2>1, <2>2, <2>3
       DEF BenchNext, BenchProgress, Dispatch, DispatchFails, Import, Take, GatePasses, GateGivesUp,
           Computes, Proceeds, Finishes, FinalPostFails, TimeLimitHits, WorkerDies, Reporting, Redelivered,
           OpensFile, WriteFiles, ReportLost
<1>2. JobInv /\ [BenchNext]_benchVars => [Stays]_benchVars
  BY <1>1
<1>3. QED
  BY <1>2, JobInvariant, PTL DEF BenchSpec, FinishedStays

-----------------------------------------------------------------------------
(* Transfers: the donor depicts at most one point of interest, and whatever *)
(* an acceptance has in hand or a clone depicts is that one.  A state with  *)
(* twins has no successor.                                                 *)

Acceptance == [at : {"idle", "read", "cloned", "found", "minting", "minted", "related"},
               target : Targets, id : Clones \cup {Unmade}, poi : Clones \cup {Unmade}]

\* What an acceptance knows at each of its places.
AcceptanceOk(r) ==
    /\ r \in Acceptance
    /\ r.at \notin {"idle", "read"} => r.id \in Clones
    /\ r.at = "minting" => r.poi \in Clones /\ PoisOf(Donor) = {}
    /\ r.at \in {"found", "minted", "related"} => r.poi \in PoisOf(Donor)
    /\ r.at = "related" => r.poi \in PoisOf(r.id)

DecisionOk(t) ==
    /\ t \in [status : {"open", "accepted"}, clone : Clones \cup {Unmade}]
    /\ t.status = "accepted" => t.clone \in Clones /\ PoisOf(t.clone) # {}

FactsOk ==
    /\ depicts \subseteq (Clones \cup {Donor}) \X Clones
    /\ \A p, q \in PoisOf(Donor) : p = q
    /\ \A x \in Clones : PoisOf(x) \subseteq PoisOf(Donor)

TransferInv ==
    /\ twins \in BOOLEAN
    /\ ~ twins =>
          /\ made.clones \in Nat /\ made.pois \in Nat
          /\ FactsOk
          /\ accept = [a \in Accepts |-> accept[a]]
          /\ \A a \in Accepts : AcceptanceOk(accept[a])
          /\ transfer = [t \in Targets |-> transfer[t]]
          /\ \A t \in Targets : DecisionOk(transfer[t])

LEMMA IdleIsOk == AcceptanceOk(IdleAccept)
<1>1. (CHOOSE t \in Targets : TRUE) \in Targets
  BY TransferAssumption
<1>2. QED
  BY <1>1 DEF IdleAccept, AcceptanceOk, Acceptance

\* A step of one acceptance that asserts nothing.
LEMMA AcceptanceGoesOn ==
    ASSUME TransferInv, ~ twins, UNCHANGED <<depicts, twins, transfer>>,
           made'.clones \in Nat, made'.pois \in Nat,
           NEW a \in Accepts, NEW r, AcceptanceOk(r), accept' = [accept EXCEPT ![a] = r]
    PROVE  TransferInv'
<1>1. \A x : PoisOf(x)' = PoisOf(x)
  BY DEF PoisOf
<1>2. accept' = [b \in Accepts |-> accept'[b]]
  BY DEF TransferInv
<1>3. \A b \in Accepts : accept'[b] = IF b = a THEN r ELSE accept[b]
  BY DEF TransferInv
<1>4. \A b \in Accepts : AcceptanceOk(accept[b])'
  BY <1>1, <1>3 DEF TransferInv, AcceptanceOk
<1>5. \A t \in Targets : DecisionOk(transfer[t])'
  BY <1>1 DEF TransferInv, DecisionOk
<1>6. FactsOk'
  BY <1>1 DEF TransferInv, FactsOk
<1>7. QED
  BY <1>2, <1>4, <1>5, <1>6 DEF TransferInv

\* A step of one acceptance that asserts a fact: of the donor, when nothing is
\* known of it and nobody else is about to, or of a clone what the donor has.
LEMMA FactAsserted ==
    ASSUME TransferInv, ~ twins, ~ twins', twins' \in BOOLEAN, UNCHANGED <<made, transfer>>,
           NEW x \in Clones \cup {Donor}, NEW p \in Clones, depicts' = depicts \cup {<<x, p>>},
           NEW a \in Accepts, NEW r, AcceptanceOk(r)', accept' = [accept EXCEPT ![a] = r],
           x = Donor => PoisOf(Donor) = {} /\ \A b \in Accepts \ {a} : accept[b].at # "minting",
           x \in Clones => p \in PoisOf(Donor)
    PROVE  TransferInv'
<1>1. \A y : PoisOf(y)' = IF y = x THEN PoisOf(y) \cup {p} ELSE PoisOf(y)
  BY DEF PoisOf
<1>2. x \in Clones => x # Donor
  BY DEF Clones, Donor
<1>3. Donor \notin Clones
  BY DEF Clones, Donor
<1>4. FactsOk'
  <2>1. depicts' \subseteq (Clones \cup {Donor}) \X Clones
    BY DEF TransferInv, FactsOk
  <2>2. \A m, n \in PoisOf(Donor)' : m = n
    BY <1>1, <1>2 DEF TransferInv, FactsOk
  <2>3. \A y \in Clones : PoisOf(y)' \subseteq PoisOf(Donor)'
    BY <1>1, <1>2, <1>3 DEF TransferInv, FactsOk
  <2>4. QED
    BY <2>1, <2>2, <2>3 DEF FactsOk
<1>5. \A b \in Accepts : accept'[b] = IF b = a THEN r ELSE accept[b]
  BY DEF TransferInv
<1>6. \A b \in Accepts : AcceptanceOk(accept[b])'
  <2> SUFFICES ASSUME NEW b \in Accepts, b # a PROVE AcceptanceOk(accept[b])'
    BY <1>5
  <2>1. accept'[b] = accept[b] /\ AcceptanceOk(accept[b])
    BY <1>5 DEF TransferInv
  <2>2. accept[b].at = "minting" => PoisOf(Donor)' = {}
    <3> SUFFICES ASSUME accept[b].at = "minting" PROVE PoisOf(Donor)' = {}
      OBVIOUS
    <3>1. PoisOf(Donor) = {}
      BY <2>1 DEF AcceptanceOk
    <3>2. x # Donor
      OBVIOUS
    <3>3. QED
      BY <1>1, <3>1, <3>2
  <2>3. PoisOf(Donor) \subseteq PoisOf(Donor)' /\ \A y : PoisOf(y) \subseteq PoisOf(y)'
    BY <1>1
  <2>4. QED
    BY <2>1, <2>2, <2>3 DEF AcceptanceOk
<1>7. \A t \in Targets : DecisionOk(transfer[t])'
  BY <1>1 DEF TransferInv, DecisionOk
<1>8. accept' = [b \in Accepts |-> accept'[b]]
  BY DEF TransferInv
<1>9. QED
  BY <1>4, <1>6, <1>7, <1>8 DEF TransferInv

LEMMA AcceptReadsKeeps ==
    ASSUME TransferInv, ~ twins, NEW a \in Accepts, NEW t \in Targets, AcceptReads(a, t)
    PROVE  TransferInv'
<1> DEFINE r == [IdleAccept EXCEPT !.at = "read", !.target = t, !.id = transfer[t].clone]
<1>1. transfer[t].clone \in Clones \cup {Unmade}
  BY DEF TransferInv, DecisionOk
<1>2. AcceptanceOk(r)
  BY <1>1, IdleIsOk DEF AcceptanceOk, Acceptance
<1>3. accept' = [accept EXCEPT ![a] = r]
  BY DEF AcceptReads
<1> HIDE DEF r
<1>4. QED
  BY <1>2, <1>3, AcceptanceGoesOn DEF AcceptReads, TransferInv

LEMMA ClonedKeeps ==
    ASSUME TransferInv, ~ twins, NEW a \in Accepts, Cloned(a)
    PROVE  TransferInv'
<1>1. AcceptanceOk(accept[a]) /\ accept[a].at = "read"
  BY DEF TransferInv, Cloned
<1>2. CASE accept[a].id # Unmade
  <2> DEFINE r == [accept[a] EXCEPT !.at = "cloned"]
  <2>1. AcceptanceOk(r)
    BY <1>1, <1>2 DEF AcceptanceOk, Acceptance
  <2>2. accept' = [accept EXCEPT ![a] = r]
    BY <1>2 DEF Cloned
  <2> HIDE DEF r
  <2>3. QED
    BY <1>2, <2>1, <2>2, AcceptanceGoesOn DEF Cloned, TransferInv
<1>3. CASE accept[a].id = Unmade
  <2> DEFINE new == made.clones + 1
             r == [accept[a] EXCEPT !.at = "cloned", !.id = new]
  <2>1. new \in Clones /\ made' = [made EXCEPT !.clones = new]
    BY <1>3 DEF Cloned
  <2>2. accept' = [accept EXCEPT ![a] = r]
    <3>1. accept' = [accept EXCEPT ![a].at = "cloned", ![a].id = new]
      BY <1>3 DEF Cloned
    <3>2. QED
      BY <3>1 DEF TransferInv
  <2>3. made'.clones \in Nat /\ made'.pois \in Nat
    <3>1. \A m \in Nat : [made EXCEPT !.clones = m].clones \in Nat \cup {made.clones}
      OBVIOUS
    <3>2. QED
      BY <2>1 DEF TransferInv, Clones
  <2> HIDE DEF new
  <2>4. AcceptanceOk(r)
    BY <1>1, <2>1 DEF AcceptanceOk, Acceptance
  <2> HIDE DEF r
  <2>5. QED
    BY <2>2, <2>3, <2>4, AcceptanceGoesOn DEF Cloned
<1>4. QED
  BY <1>2, <1>3

LEMMA FindsPoiKeeps ==
    ASSUME TransferInv, ~ twins, NEW a \in Accepts, FindsPoi(a)
    PROVE  TransferInv'
<1>1. AcceptanceOk(accept[a]) /\ accept[a].at = "cloned" /\ PoisOf(Donor) \subseteq Clones
  BY DEF TransferInv, FindsPoi, PoisOf
<1>2. CASE \E p \in PoisKnown(a) : /\ accept' = [accept EXCEPT ![a].at = "found", ![a].poi = p]
                                  /\ UNCHANGED made
  <2>1. PICK p \in PoisOf(Donor) :
           accept' = [accept EXCEPT ![a].at = "found", ![a].poi = p] /\ UNCHANGED made
    BY <1>2 DEF PoisKnown
  <2> DEFINE r == [accept[a] EXCEPT !.at = "found", !.poi = p]
  <2>2. accept' = [accept EXCEPT ![a] = r]
    BY <2>1 DEF TransferInv
  <2>3. AcceptanceOk(r)
    BY <1>1 DEF AcceptanceOk, Acceptance
  <2> HIDE DEF r
  <2>4. QED
    BY <2>1, <2>2, <2>3, AcceptanceGoesOn DEF FindsPoi, TransferInv
<1>3. CASE /\ PoisKnown(a) = {} /\ made.pois < MaxClones
           /\ made' = [made EXCEPT !.pois = @ + 1]
           /\ accept' = [accept EXCEPT ![a].at = "minting", ![a].poi = made.pois + 1]
  <2> DEFINE p == made.pois + 1
             r == [accept[a] EXCEPT !.at = "minting", !.poi = p]
  <2>1. p \in Clones /\ p \in Nat
    BY <1>3, TransferAssumption DEF TransferInv, Clones
  <2>2. accept' = [accept EXCEPT ![a] = r]
    BY <1>3 DEF TransferInv
  <2>3. made'.clones \in Nat /\ made'.pois \in Nat
    BY <1>3, <2>1 DEF TransferInv
  <2> HIDE DEF p
  <2>4. AcceptanceOk(r)
    BY <1>1, <1>3, <2>1 DEF AcceptanceOk, Acceptance, PoisKnown
  <2> HIDE DEF r
  <2>5. QED
    BY <2>2, <2>3, <2>4, AcceptanceGoesOn DEF FindsPoi
<1>4. QED
  BY <1>2, <1>3 DEF FindsPoi

LEMMA RelatesKeeps ==
    ASSUME TransferInv, ~ twins, NEW a \in Accepts, Relates(a) \/ MintsClone(a)
    PROVE  TransferInv'
<1>0. PICK x, p, r : /\ x = accept[a].id /\ p = accept[a].poi
                     /\ r = [accept[a] EXCEPT !.at = "related"]
  OBVIOUS
<1>1. AcceptanceOk(accept[a]) /\ accept[a].at \in {"found", "minted"}
  BY DEF TransferInv, Relates, MintsClone
<1>2. x \in Clones /\ p \in PoisOf(Donor) /\ p \in Clones
  BY <1>0, <1>1 DEF AcceptanceOk, PoisOf
<1>3. depicts' = depicts \cup {<<x, p>>} /\ UNCHANGED <<made, transfer, twins>>
  BY <1>0 DEF Relates, MintsClone
<1>4. accept' = [accept EXCEPT ![a] = r]
  BY <1>0 DEF Relates, MintsClone, TransferInv
<1>5. AcceptanceOk(r)'
  <2>1. p \in PoisOf(x)' /\ p \in PoisOf(Donor)'
    BY <1>2, <1>3 DEF PoisOf
  <2>2. r \in Acceptance /\ r.at = "related" /\ r.id = x /\ r.poi = p
    BY <1>0, <1>1 DEF AcceptanceOk, Acceptance
  <2>3. QED
    BY <1>2, <2>1, <2>2 DEF AcceptanceOk
<1>6. x # Donor
  BY <1>2 DEF Clones, Donor
<1>7. QED
  BY <1>2, <1>3, <1>4, <1>5, <1>6, FactAsserted DEF TransferInv

LEMMA MintsDonorKeeps ==
    ASSUME TransferInv, ~ twins, NEW a \in Accepts, MintsDonor(a)
    PROVE  TransferInv'
<1>0. PICK p, r : p = accept[a].poi /\ r = [accept[a] EXCEPT !.at = "minted"]
  OBVIOUS
<1>1. AcceptanceOk(accept[a]) /\ accept[a].at = "minting"
  BY DEF TransferInv, MintsDonor
<1>2. p \in Clones /\ PoisOf(Donor) = {}
  BY <1>0, <1>1 DEF AcceptanceOk
<1>3. depicts' = depicts \cup {<<Donor, p>>} /\ UNCHANGED <<made, transfer>>
  BY <1>0 DEF MintsDonor
<1>4. accept' = [accept EXCEPT ![a] = r]
  BY <1>0 DEF MintsDonor, TransferInv
<1>5. AcceptanceOk(r)'
  <2>1. p \in PoisOf(Donor)'
    BY <1>2, <1>3 DEF PoisOf
  <2>2. r \in Acceptance /\ r.at = "minted" /\ r.id = accept[a].id /\ r.poi = p
    BY <1>0, <1>1 DEF AcceptanceOk, Acceptance
  <2>3. QED
    BY <1>1, <2>1, <2>2 DEF AcceptanceOk
<1>6. twins' \in BOOLEAN
  BY DEF MintsDonor, TransferInv
<1>7. Donor \notin Clones
  BY DEF Clones, Donor
<1>8. ~ twins' => \A b \in Accepts \ {a} : accept[b].at # "minting"
  BY DEF MintsDonor
<1>9. CASE twins'
  BY <1>6, <1>9 DEF TransferInv
<1>10. CASE ~ twins'
  BY <1>2, <1>3, <1>4, <1>5, <1>6, <1>7, <1>8, <1>10, FactAsserted
<1>11. QED
  BY <1>9, <1>10

LEMMA AcceptanceEndsKeeps ==
    ASSUME TransferInv, ~ twins, NEW a \in Accepts, Concludes(a) \/ AcceptFails(a)
    PROVE  TransferInv'
<1>1. CASE AcceptFails(a)
  BY <1>1, IdleIsOk, AcceptanceGoesOn DEF AcceptFails, TransferInv
<1>2. CASE Concludes(a)
  <2> DEFINE d == [status |-> "accepted", clone |-> accept[a].id]
             t == accept[a].target
  <2>1. AcceptanceOk(accept[a]) /\ accept[a].at = "related"
    BY <1>2 DEF TransferInv, Concludes
  <2>2. d.status = "accepted" /\ d.clone \in Clones /\ PoisOf(d.clone) # {} /\ DecisionOk(d)
    BY <2>1 DEF AcceptanceOk, DecisionOk
  <2>3. /\ transfer' = [transfer EXCEPT ![t] = d] /\ accept' = [accept EXCEPT ![a] = IdleAccept]
        /\ UNCHANGED <<made, depicts, twins>>
    BY <1>2 DEF Concludes
  <2> HIDE DEF d, t
  <2>4. \A x : PoisOf(x)' = PoisOf(x)
    BY <2>3 DEF PoisOf
  <2>5. \A u \in Targets : transfer'[u] = IF u = t THEN d ELSE transfer[u]
    BY <2>3 DEF TransferInv
  <2>6. \A u \in Targets : DecisionOk(transfer[u])'
    BY <2>2, <2>4, <2>5 DEF TransferInv, DecisionOk
  <2>7. \A b \in Accepts : AcceptanceOk(accept[b])'
    <3>1. \A b \in Accepts : accept'[b] = IF b = a THEN IdleAccept ELSE accept[b]
      BY <2>3 DEF TransferInv
    <3>2. QED
      BY <2>4, <3>1, IdleIsOk DEF TransferInv, AcceptanceOk
  <2>8. FactsOk'
    BY <2>3, <2>4 DEF TransferInv, FactsOk
  <2>9. /\ transfer' = [u \in Targets |-> transfer'[u]] /\ accept' = [b \in Accepts |-> accept'[b]]
    BY <2>3 DEF TransferInv
  <2>10. QED
    BY <2>3, <2>6, <2>7, <2>8, <2>9 DEF TransferInv
<1>3. QED
  BY <1>1, <1>2

\* Steps that leave facts and acceptances alone.
LEMMA DecisionsKeep ==
    ASSUME TransferInv, UNCHANGED <<made, depicts, accept, twins>>,
           \/ UNCHANGED transfer
           \/ ~ twins /\ \E t \in Targets : transfer' = [transfer EXCEPT ![t].status = "open"]
    PROVE  TransferInv'
<1>1. \A x : PoisOf(x)' = PoisOf(x)
  BY DEF PoisOf
<1>2. FactsOk' <=> FactsOk
  BY <1>1 DEF FactsOk
<1>3. \A a \in Accepts : AcceptanceOk(accept[a]) => AcceptanceOk(accept[a])'
  BY <1>1 DEF AcceptanceOk
<1>4. \A d : DecisionOk(d)' <=> DecisionOk(d)
  BY <1>1 DEF DecisionOk
<1>5. CASE UNCHANGED transfer
  BY <1>2, <1>3, <1>4, <1>5 DEF TransferInv
<1>6. ASSUME ~ twins, NEW t \in Targets, transfer' = [transfer EXCEPT ![t].status = "open"]
      PROVE  TransferInv'
  <2>1. transfer = [u \in Targets |-> transfer[u]]
    BY <1>6 DEF TransferInv
  <2>2. \A u \in Targets : transfer'[u] = IF u = t THEN [transfer[t] EXCEPT !.status = "open"]
                                                 ELSE transfer[u]
    BY <1>6, <2>1
  <2>3. DecisionOk([transfer[t] EXCEPT !.status = "open"])
    BY <1>6 DEF TransferInv, DecisionOk
  <2>4. \A u \in Targets : DecisionOk(transfer'[u])
    BY <1>6, <2>2, <2>3 DEF TransferInv
  <2>5. transfer' = [u \in Targets |-> transfer'[u]]
    BY <1>6, <2>1
  <2>6. QED
    BY <1>2, <1>3, <1>4, <1>6, <2>4, <2>5 DEF TransferInv
<1>7. QED
  BY <1>5, <1>6

\* The donor and every accepted clone depict one point of interest, for any
\* number of panoramas, requests and failures.
THEOREM OnePoi == TransfersSpec => []OnePointOfInterest
<1>1. TransfersInit => TransferInv
  <2> SUFFICES ASSUME TransfersInit PROVE TransferInv
    OBVIOUS
  <2>1. FactsOk /\ made.clones \in Nat /\ made.pois \in Nat
    BY DEF TransfersInit, FactsOk, PoisOf
  <2>2. \A t \in Targets : DecisionOk(transfer[t])
    BY DEF TransfersInit, DecisionOk
  <2>3. QED
    BY <2>1, <2>2, IdleIsOk DEF TransfersInit, TransferInv
<1>2. TransferInv /\ [TransfersNext]_transferVars => TransferInv'
  <2> SUFFICES ASSUME TransferInv, [TransfersNext]_transferVars PROVE TransferInv'
    OBVIOUS
  <2>1. CASE UNCHANGED transferVars
    BY <2>1, DecisionsKeep DEF transferVars
  <2>2. ASSUME TransfersNext, NEW t \in Targets, reopen(t) PROVE TransferInv'
    BY <2>2, DecisionsKeep DEF reopen, TransfersNext
  <2>3. ASSUME NEW c \in Clones, CloneDeleted(c) PROVE TransferInv'
    BY <2>3, DecisionsKeep DEF CloneDeleted
  <2>4. CASE TransfersNext
    BY <2>2, <2>3, <2>4, AcceptReadsKeeps, ClonedKeeps, FindsPoiKeeps, RelatesKeeps,
       MintsDonorKeeps, AcceptanceEndsKeeps DEF TransfersNext
  <2>5. QED
    BY <2>1, <2>4
<1>3. TransferInv => OnePointOfInterest
  <2> SUFFICES ASSUME TransferInv, ~ twins, NEW t \in Targets, transfer[t].status = "accepted"
               PROVE  \E p \in Clones : PoisOf(Donor) = {p} /\ PoisOf(transfer[t].clone) = {p}
    BY DEF OnePointOfInterest
  <2>1. transfer[t].clone \in Clones /\ PoisOf(transfer[t].clone) # {}
    BY DEF TransferInv, DecisionOk
  <2>2. PICK p : p \in PoisOf(transfer[t].clone)
    BY <2>1
  <2>3. p \in Clones /\ p \in PoisOf(Donor)
    BY <2>1, <2>2 DEF TransferInv, FactsOk, PoisOf
  <2>4. \A q \in PoisOf(Donor) : q = p
    BY <2>3 DEF TransferInv, FactsOk
  <2>5. PoisOf(transfer[t].clone) \subseteq PoisOf(Donor)
    BY <2>1 DEF TransferInv, FactsOk
  <2>6. QED
    BY <2>2, <2>3, <2>4, <2>5
<1>4. QED
  BY <1>1, <1>2, <1>3, PTL DEF TransfersSpec

-----------------------------------------------------------------------------
(* Tiles: a task that runs, or whose callback has not run, is the one in    *)
(* the registry, and its tile is fresh once it has succeeded.              *)

TileInv ==
    /\ overtaken \in BOOLEAN
    /\ fetch \in [Fetches -> [at : {"new", "running", "ended", "gone"}, ok : BOOLEAN]]
    /\ ~ overtaken =>
          \A f \in Fetches :
             /\ fetch[f].at \in {"running", "ended"} => registered = f
             /\ fetch[f].at = "ended" /\ fetch[f].ok => cached = "fresh"

LEMMA AtMostOne ==
    ASSUME NEW S, \A x, y \in S : x = y
    PROVE  Cardinality(S) <= 1
<1>1. CASE S = {}
  BY <1>1, FS_EmptySet
<1>2. CASE S # {}
  <2>1. PICK x : x \in S
    BY <1>2
  <2>2. S = {x}
    BY <2>1
  <2>3. Cardinality(S) = 1
    BY <2>2, FS_Singleton
  <2>4. QED
    BY <2>3
<1>3. QED
  BY <1>1, <1>2

LEMMA StartKeeps ==
    ASSUME TileInv, NEW q \in Lookups, NEW f \in Fetches, Start(q, f)
    PROVE  TileInv'
<1>1. /\ fetch' = [fetch EXCEPT ![f].at = "running"] /\ registered' = f /\ cached' = cached
      /\ overtaken' = (overtaken \/ (registered # NoFetch /\ Failed(registered)))
      /\ cached # "fresh" /\ ~ UnderWay
  BY DEF Start, Missed, Joinable
<1>2. /\ fetch' \in [Fetches -> [at : {"new", "running", "ended", "gone"}, ok : BOOLEAN]]
      /\ \A g \in Fetches : g # f => fetch'[g] = fetch[g]
      /\ fetch'[f].at = "running"
  BY <1>1 DEF TileInv
<1>3. ASSUME ~ overtaken', NEW g \in Fetches, g # f
      PROVE  fetch[g].at \notin {"running", "ended"}
  <2> SUFFICES ASSUME fetch[g].at \in {"running", "ended"} PROVE FALSE
    OBVIOUS
  <2>1. ~ overtaken /\ registered = g /\ g # NoFetch
    BY <1>1, <1>3, PeakAssumption DEF TileInv, NoFetch
  <2>2. fetch[g].at = "ended" /\ fetch[g].ok
    BY <1>1, <1>3, <2>1 DEF UnderWay, Ended, Failed, TileInv
  <2>3. QED
    BY <1>1, <2>1, <2>2 DEF TileInv
<1>4. overtaken' \in BOOLEAN
  BY <1>1 DEF TileInv
<1>5. QED
  BY <1>1, <1>2, <1>3, <1>4 DEF TileInv

LEMMA FetchKeeps ==
    ASSUME TileInv, NEW f \in Fetches,
           PopCallback(f) \/ \E ok \in BOOLEAN : AttemptEnds(f, ok)
    PROVE  TileInv'
<1>1. CASE PopCallback(f)
  <2>1. /\ fetch' = [fetch EXCEPT ![f].at = "gone"] /\ UNCHANGED <<cached, overtaken>>
        /\ fetch[f].at = "ended"
    BY <1>1 DEF PopCallback
  <2>2. /\ fetch' \in [Fetches -> [at : {"new", "running", "ended", "gone"}, ok : BOOLEAN]]
        /\ \A g \in Fetches : g # f => fetch'[g] = fetch[g]
        /\ fetch'[f].at = "gone"
    BY <2>1 DEF TileInv
  <2>3. ~ overtaken => \A g \in Fetches : g # f => fetch[g].at \notin {"running", "ended"}
    BY <2>1 DEF TileInv
  <2>4. QED
    BY <2>1, <2>2, <2>3 DEF TileInv
<1>2. ASSUME NEW ok \in BOOLEAN, AttemptEnds(f, ok) PROVE TileInv'
  <2>1. /\ fetch' = [fetch EXCEPT ![f] = [at |-> "ended", ok |-> ok]]
        /\ cached' = IF ok THEN "fresh" ELSE cached
        /\ UNCHANGED <<registered, overtaken>> /\ fetch[f].at = "running"
    BY <1>2 DEF AttemptEnds
  <2>2. /\ fetch' \in [Fetches -> [at : {"new", "running", "ended", "gone"}, ok : BOOLEAN]]
        /\ \A g \in Fetches : g # f => fetch'[g] = fetch[g]
        /\ fetch'[f] = [at |-> "ended", ok |-> ok]
    BY <2>1 DEF TileInv
  <2>3. QED
    BY <2>1, <2>2 DEF TileInv
<1>3. QED
  BY <1>1, <1>2

\* A tile is fetched by one task at a time, for any number of requests and
\* tasks, unless a failed task was replaced before its callback ran.
THEOREM OneFetch == PeakSpec => []OneFetchPerTile
<1>1. PeakInit => TileInv
  <2> SUFFICES ASSUME PeakInit PROVE TileInv
    OBVIOUS
  <2>1. \A f \in Fetches : fetch[f].at = "new"
    BY DEF PeakInit
  <2>2. QED
    BY <2>1 DEF PeakInit, TileInv
<1>2. TileInv /\ [PeakNext]_peakVars => TileInv'
  <2> SUFFICES ASSUME TileInv, [PeakNext]_peakVars PROVE TileInv'
    OBVIOUS
  <2>1. CASE UNCHANGED peakVars
    BY <2>1 DEF peakVars, TileInv
  <2>2. ASSUME NEW q \in Lookups, Join(q) \/ Woken(q) \/ ClientLeaves(q) PROVE TileInv'
    BY <2>2 DEF Join, Woken, ClientLeaves, TileInv
  <2>3. CASE AttemptExpires
    BY <2>3 DEF AttemptExpires, TileInv
  <2>4. CASE PeakNext
    BY <2>2, <2>3, <2>4, StartKeeps, FetchKeeps DEF PeakNext
  <2>5. QED
    BY <2>1, <2>4
<1>3. TileInv => OneFetchPerTile
  <2> SUFFICES ASSUME TileInv, ~ overtaken
               PROVE  Cardinality({f \in Fetches : fetch[f].at = "running"}) <= 1
    BY DEF OneFetchPerTile
  <2>1. \A f, g \in {h \in Fetches : fetch[h].at = "running"} : f = g
    BY DEF TileInv
  <2>2. QED
    BY <2>1, AtMostOne
<1>4. QED
  BY <1>1, <1>2, <1>3, PTL DEF PeakSpec

-----------------------------------------------------------------------------
(* Graduation: one live copy of a native, and a sync that catches up.       *)

\* A row of any kind; only its flags are typed.
IsRow(r) ==
    r \in [there : BOOLEAN, source : {r.source}, of : {r.of}, current : BOOLEAN,
           event : {r.event}, next : {r.next}, suggested : BOOLEAN]

Copies(n) == {v \in Versions : version[v].of = n}

\* A native whose copies nobody has touched has one row at most, the one that
\* was put in for it; none while an application that found none is under way.
Untouched(n) ==
    /\ \A v, w \in Copies(n) : v = w
    /\ \A v \in Copies(n) : NotDeleted(v) /\ version[v].source = n
    /\ \A a \in Appliers : applying[a].native = n => Copies(n) = {}

GraduationInv ==
    /\ version \in [Versions -> {version[v] : v \in Versions}]
    /\ \A v \in Versions : IsRow(version[v])
    /\ versions \in 0..MaxVersions
    /\ applying \in [Appliers -> {applying[a] : a \in Appliers}]
    /\ \A n \in Natives \ unlinked : Untouched(n)

\* Applications begin and end, and none for a native that was not there.
ApplyingOnly ==
    /\ applying' \in [Appliers -> {applying'[a] : a \in Appliers}]
    /\ \A a \in Appliers : \/ applying'[a].native = applying[a].native
                           \/ applying'[a].native = NoNative

LEMMA NoNativeIsNone == NoNative \notin Natives
BY GraduationAssumption

LEMMA SomeVersions ==
    ASSUME versions \in 0..MaxVersions, versions < MaxVersions
    PROVE  versions + 1 \in Versions /\ versions + 1 \in 0..MaxVersions
<1>1. MaxVersions \in Nat
  BY GraduationAssumption
<1>2. QED
  BY <1>1 DEF Versions

LEMMA BlankRow == IsRow(NotThere) /\ NotThere.of = NoNative
BY DEF IsRow, NotThere

\* Rows change for natives that count as touched from then on, or go.
LEMMA RowsChange ==
    ASSUME GraduationInv,
           unlinked \subseteq unlinked',
           version' \in [Versions -> {version'[v] : v \in Versions}],
           \A v \in Versions : IsRow(version'[v]),
           versions' \in 0..MaxVersions,
           \A v \in Versions :
              \/ /\ version'[v].of = version[v].of /\ version'[v].source = version[v].source
                 /\ version'[v].there = version[v].there
                 /\ version'[v].current = version[v].current
                 /\ version'[v].event = version[v].event
              \/ version'[v].of \notin Natives \ unlinked',
           ApplyingOnly
    PROVE  GraduationInv'
<1> SUFFICES ASSUME NEW n \in Natives \ unlinked' PROVE Untouched(n)'
  BY DEF GraduationInv, ApplyingOnly
<1>1. Untouched(n)
  BY DEF GraduationInv
<1>2. Copies(n)' \subseteq Copies(n)
  BY DEF Copies
<1>3. \A v \in Copies(n)' : (NotDeleted(v) => NotDeleted(v)') /\ version'[v].source = version[v].source
  BY DEF Copies, NotDeleted
<1>4. n # NoNative
  BY NoNativeIsNone
<1>5. \A a \in Appliers : applying'[a].native = n => applying[a].native = n
  BY <1>4 DEF ApplyingOnly
<1>6. QED
  BY <1>1, <1>2, <1>3, <1>5 DEF Untouched

LEMMA NothingChanges ==
    ASSUME GraduationInv, UNCHANGED <<version, versions, unlinked>>,
           ApplyingOnly
    PROVE  GraduationInv'
<1>1. \A v \in Versions : IsRow(version'[v])
  BY DEF GraduationInv, IsRow
<1>2. version' \in [Versions -> {version'[v] : v \in Versions}] /\ versions' \in 0..MaxVersions
  BY DEF GraduationInv
<1>3. QED
  BY <1>1, <1>2, RowsChange

LEMMA SupersedingRow ==
    ASSUME NEW of, NEW b \in BOOLEAN, NEW event
    PROVE  LET r == [NotThere EXCEPT !.there = TRUE, !.current = TRUE, !.event = event,
                                     !.of = of, !.suggested = b]
           IN  IsRow(r) /\ r.of = of
<1>1. PICK r : r = [NotThere EXCEPT !.there = TRUE, !.current = TRUE, !.event = event,
                                    !.of = of, !.suggested = b]
  OBVIOUS
<1>2. NotThere \in [there : BOOLEAN, source : {NoNative}, of : {NoNative, of}, current : BOOLEAN,
                    event : {"created", event}, next : {NoVersion}, suggested : BOOLEAN]
  BY DEF NotThere
<1>3. r \in [there : BOOLEAN, source : {NoNative}, of : {NoNative, of}, current : BOOLEAN,
             event : {"created", event}, next : {NoVersion}, suggested : BOOLEAN] /\ r.of = of
  BY <1>1, <1>2
<1>4. QED
  BY <1>1, <1>3 DEF IsRow

LEMMA NewCopy ==
    ASSUME NEW n
    PROVE  LET r == [NotThere EXCEPT !.there = TRUE, !.current = TRUE, !.suggested = TRUE,
                                     !.source = n, !.of = n]
           IN  /\ IsRow(r) /\ r.of = n /\ r.source = n /\ r.there /\ r.current
               /\ r.event # "deleted"
<1>1. PICK r : r = [NotThere EXCEPT !.there = TRUE, !.current = TRUE, !.suggested = TRUE,
                                    !.source = n, !.of = n]
  OBVIOUS
<1>2. NotThere \in [there : BOOLEAN, source : {NoNative, n}, of : {NoNative, n}, current : BOOLEAN,
                    event : {"created"}, next : {NoVersion}, suggested : BOOLEAN]
  BY DEF NotThere
<1>3. r \in [there : BOOLEAN, source : {NoNative, n}, of : {NoNative, n}, current : BOOLEAN,
             event : {"created"}, next : {NoVersion}, suggested : BOOLEAN]
      /\ r.of = n /\ r.source = n /\ r.there /\ r.current
  BY <1>1, <1>2
<1>4. QED
  BY <1>1, <1>3 DEF IsRow

LEMMA Relinked ==
    ASSUME NEW r, IsRow(r), NEW n, NEW s, s = [r EXCEPT !.next = n]
    PROVE  /\ IsRow(s) /\ s.of = r.of /\ s.source = r.source /\ s.there = r.there
           /\ s.current = r.current /\ s.event = r.event
<1>1. r \in [there : BOOLEAN, source : {r.source}, of : {r.of}, current : BOOLEAN,
             event : {r.event}, next : {r.next, n}, suggested : BOOLEAN]
  BY DEF IsRow
<1>2. /\ s \in [there : BOOLEAN, source : {r.source}, of : {r.of}, current : BOOLEAN,
                event : {r.event}, next : {r.next, n}, suggested : BOOLEAN]
      /\ s.there = r.there /\ s.current = r.current
  BY <1>1
<1>3. QED
  BY <1>2 DEF IsRow

LEMMA Replaced ==
    ASSUME NEW r, IsRow(r), NEW n, NEW s, s = [r EXCEPT !.current = FALSE, !.next = n]
    PROVE  IsRow(s) /\ s.of = r.of
<1>1. r \in [there : BOOLEAN, source : {r.source}, of : {r.of}, current : BOOLEAN,
             event : {r.event}, next : {r.next, n}, suggested : BOOLEAN]
  BY DEF IsRow
<1>2. s \in [there : BOOLEAN, source : {r.source}, of : {r.of}, current : BOOLEAN,
             event : {r.event}, next : {r.next, n}, suggested : BOOLEAN]
  BY <1>1
<1>3. QED
  BY <1>2 DEF IsRow

LEMMA SupersedesKeeps ==
    ASSUME GraduationInv, NEW old, NEW event, NEW b \in BOOLEAN,
           versions < MaxVersions, versions' = versions + 1,
           version' = [version EXCEPT ![old] = Superseded(old, versions + 1),
                                      ![versions + 1] = Superseding(old, event, b)],
           unlinked' = unlinked \cup Lost(old),
           ApplyingOnly
    PROVE  GraduationInv'
<1> DEFINE new == versions + 1
<1>1. new \in Versions /\ versions' \in 0..MaxVersions
  BY SomeVersions DEF GraduationInv
<1>2. PICK r : r = Superseding(old, event, b)
  OBVIOUS
<1>3. IsRow(r) /\ r.of = version[old].of
  BY <1>2, SupersedingRow DEF Superseding
<1>4. PICK o : o = Superseded(old, new)
  OBVIOUS
<1>5. ASSUME old \in Versions PROVE IsRow(o) /\ o.of = version[old].of
  <2>1. PICK r0 : r0 = version[old]
    OBVIOUS
  <2>2. IsRow(r0)
    BY <1>5, <2>1 DEF GraduationInv
  <2>3. o = [r0 EXCEPT !.current = FALSE, !.next = new]
    BY <1>4, <2>1 DEF Superseded
  <2> HIDE DEF new
  <2>4. QED
    BY <2>1, <2>2, <2>3, Replaced
<1> HIDE DEF new
<1>6. version' = [version EXCEPT ![old] = o, ![new] = r]
  BY <1>2, <1>4 DEF new
<1>7. \A v \in Versions : version'[v] = IF v = new THEN r ELSE IF v = old THEN o ELSE version[v]
  BY <1>1, <1>6 DEF GraduationInv
<1>8. version' \in [Versions -> {version'[v] : v \in Versions}]
  BY <1>6 DEF GraduationInv
<1>9. version[old].of \notin Natives \ unlinked'
  BY NoNativeIsNone DEF Lost
<1>10. \A v \in Versions : IsRow(version'[v])
  BY <1>3, <1>5, <1>7 DEF GraduationInv
<1>11. unlinked \subseteq unlinked'
  OBVIOUS
<1>12. \A v \in Versions :
          \/ /\ version'[v].of = version[v].of /\ version'[v].source = version[v].source
             /\ version'[v].there = version[v].there
             /\ version'[v].current = version[v].current
             /\ version'[v].event = version[v].event
          \/ version'[v].of \notin Natives \ unlinked'
  BY <1>3, <1>5, <1>7, <1>9
<1>13. QED
  BY <1>1, <1>8, <1>10, <1>11, <1>12, RowsChange

LEMMA UserCreatesKeeps ==
    ASSUME GraduationInv, UserCreates
    PROVE  GraduationInv'
<1> DEFINE new == versions + 1
<1>1. new \in Versions /\ versions' \in 0..MaxVersions
  BY SomeVersions DEF GraduationInv, UserCreates
<1>2. PICK r : r = [NotThere EXCEPT !.there = TRUE, !.current = TRUE]
  OBVIOUS
<1>3. IsRow(r) /\ r.of = NoNative
  BY <1>2, BlankRow DEF IsRow
<1>4. version' = [version EXCEPT ![new] = r] /\ UNCHANGED <<unlinked, applying>>
  BY <1>2 DEF UserCreates, transport
<1> HIDE DEF new
<1>5. \A v \in Versions : version'[v] = IF v = new THEN r ELSE version[v]
  BY <1>1, <1>4 DEF GraduationInv
<1>6. version' \in [Versions -> {version'[v] : v \in Versions}]
  BY <1>4 DEF GraduationInv
<1>7. \A v \in Versions : IsRow(version'[v])
  BY <1>3, <1>5 DEF GraduationInv
<1>8. \A v \in Versions :
          \/ /\ version'[v].of = version[v].of /\ version'[v].source = version[v].source
             /\ version'[v].there = version[v].there
             /\ version'[v].current = version[v].current
             /\ version'[v].event = version[v].event
          \/ version'[v].of \notin Natives \ unlinked'
  BY <1>3, <1>5, NoNativeIsNone
<1>9. ApplyingOnly
  BY <1>4 DEF ApplyingOnly, GraduationInv
<1>10. QED
  BY <1>1, <1>4, <1>6, <1>7, <1>8, <1>9, RowsChange

LEMMA AuthorLeavesKeeps ==
    ASSUME GraduationInv, NEW v \in Versions, AuthorLeaves(v)
    PROVE  GraduationInv'
<1>1. /\ \A w \in Versions : version'[w] =
            IF w = v THEN NotThere
            ELSE [version[w] EXCEPT !.next = IF version[w].next = v THEN NoVersion ELSE version[w].next]
      /\ version' \in [Versions -> {version'[w] : w \in Versions}]
      /\ unlinked' = unlinked \cup Lost(v) /\ UNCHANGED <<versions, applying>>
  BY DEF AuthorLeaves, transport
<1>2. ASSUME NEW w \in Versions
      PROVE  /\ IsRow(version'[w])
             /\ \/ /\ version'[w].of = version[w].of /\ version'[w].source = version[w].source
                   /\ version'[w].there = version[w].there
                   /\ version'[w].current = version[w].current
                   /\ version'[w].event = version[w].event
                \/ version'[w].of \notin Natives \ unlinked'
  <2>1. CASE w = v
    BY <1>1, <2>1, BlankRow, NoNativeIsNone
  <2>2. CASE w # v
    <3>1. PICK n : n = IF version[w].next = v THEN NoVersion ELSE version[w].next
      OBVIOUS
    <3>2. version'[w] = [version[w] EXCEPT !.next = n]
      BY <1>1, <2>2, <3>1
    <3>3. PICK r : r = version[w]
      OBVIOUS
    <3>4. IsRow(r)
      BY <3>3 DEF GraduationInv
    <3>5. PICK s : s = version'[w]
      OBVIOUS
    <3>6. s = [r EXCEPT !.next = n]
      BY <3>2, <3>3, <3>5
    <3>7. /\ IsRow(s) /\ s.of = r.of /\ s.source = r.source /\ s.there = r.there
          /\ s.current = r.current /\ s.event = r.event
      BY <3>4, <3>6, Relinked
    <3>8. QED
      BY <3>3, <3>5, <3>7
  <2>3. QED
    BY <2>1, <2>2
<1>3. versions' \in 0..MaxVersions
  BY <1>1 DEF GraduationInv
<1>4. ApplyingOnly
  BY <1>1 DEF ApplyingOnly, GraduationInv
<1>5. QED
  BY <1>1, <1>2, <1>3, <1>4, RowsChange

LEMMA ApplyReadsKeeps ==
    ASSUME GraduationInv, NEW a \in Appliers, NEW k \in Packages, ApplyReads(a, k)
    PROVE  GraduationInv'
<1>1. UNCHANGED <<version, versions, unlinked>>
  BY DEF ApplyReads, hillview
<1>2. PICK op : /\ applying' = [applying EXCEPT ![a] = op]
                /\ op.native = NoNative \/ NeedsCopy(op.native)
  <2>1. \A n, e : /\ [NoApply EXCEPT !.of = k, !.at = "read", !.native = n].native = n
                  /\ [NoApply EXCEPT !.of = k, !.at = "read", !.head = e].native = NoNative
                  /\ [NoApply EXCEPT !.of = k, !.at = "committed"].native = NoNative
    BY DEF NoApply
  <2>2. PICK op : /\ applying' = [applying EXCEPT ![a] = op]
                  /\ \/ \E n : NeedsCopy(n) /\ op = [NoApply EXCEPT !.of = k, !.at = "read", !.native = n]
                     \/ \E e : op = [NoApply EXCEPT !.of = k, !.at = "read", !.head = e]
                     \/ op = [NoApply EXCEPT !.of = k, !.at = "committed"]
    BY DEF ApplyReads
  <2>3. op.native = NoNative \/ NeedsCopy(op.native)
    <3>1. CASE \E n : NeedsCopy(n) /\ op = [NoApply EXCEPT !.of = k, !.at = "read", !.native = n]
      <4>1. PICK n : NeedsCopy(n) /\ op = [NoApply EXCEPT !.of = k, !.at = "read", !.native = n]
        BY <3>1
      <4>2. op.native = n
        BY <2>1, <4>1
      <4>3. QED
        BY <4>1, <4>2
    <3>2. CASE ~ \E n : NeedsCopy(n) /\ op = [NoApply EXCEPT !.of = k, !.at = "read", !.native = n]
      BY <2>1, <2>2, <3>2
    <3>3. QED
      BY <3>1, <3>2
  <2>4. QED
    BY <2>2, <2>3
<1>3. ASSUME NEW n \in Natives \ unlinked PROVE Untouched(n)'
  <2>1. Untouched(n) /\ n # NoNative
    BY NoNativeIsNone DEF GraduationInv
  <2>2. Copies(n)' = Copies(n) /\ \A v \in Versions : NotDeleted(v)' = NotDeleted(v)
    BY <1>1 DEF Copies, NotDeleted
  <2>3. NeedsCopy(n) => Copies(n) = {}
    BY <2>1 DEF NeedsCopy, Absent, _find_by_source, Untouched, Copies
  <2>4. \A b \in Appliers : applying'[b].native = n => applying[b].native = n \/ NeedsCopy(n)
    BY <1>2, <2>1 DEF GraduationInv
  <2>5. \A v \in Copies(n)' : NotDeleted(v)' /\ version'[v].source = n
    BY <1>1, <2>1, <2>2 DEF Untouched, Copies
  <2>6. QED
    BY <2>1, <2>2, <2>3, <2>4, <2>5 DEF Untouched
<1>4. applying' \in [Appliers -> {applying'[b] : b \in Appliers}]
  BY <1>2 DEF GraduationInv
<1>5. QED
  BY <1>1, <1>3, <1>4 DEF GraduationInv, IsRow

LEMMA ApplyCommitsKeeps ==
    ASSUME GraduationInv, NEW a \in Appliers, ApplyCommits(a)
    PROVE  GraduationInv'
<1>0. PICK new : new = versions + 1
  OBVIOUS
<1>1. /\ versions < MaxVersions /\ versions' = new
      /\ applying' = [applying EXCEPT ![a] = [NoApply EXCEPT !.of = applying[a].of, !.at = "committed"]]
  BY <1>0 DEF ApplyCommits
<1>2. /\ \A b \in Appliers : IF b = a THEN applying'[b].native = NoNative
                                      ELSE applying'[b] = applying[b]
      /\ applying' \in [Appliers -> {applying'[b] : b \in Appliers}]
  <2>1. PICK op : op = [NoApply EXCEPT !.of = applying[a].of, !.at = "committed"]
    OBVIOUS
  <2>2. op.native = NoNative
    BY <2>1 DEF NoApply
  <2>3. applying' = [applying EXCEPT ![a] = op]
    BY <1>1, <2>1
  <2>4. QED
    BY <2>2, <2>3 DEF GraduationInv
<1>3. CASE /\ version' = [version EXCEPT ![applying[a].head] = Superseded(applying[a].head, new),
                                        ![new] = Superseding(applying[a].head, "updated", TRUE)]
           /\ unlinked' = unlinked \cup Lost(applying[a].head)
  <2>1. ApplyingOnly
    BY <1>2 DEF ApplyingOnly
  <2>2. QED
    BY <1>0, <1>1, <1>3, <2>1, SupersedesKeeps
<1>4. ASSUME NEW n, n = applying[a].native, n # NoNative,
             version' = [version EXCEPT ![new] =
                [NotThere EXCEPT !.there = TRUE, !.current = TRUE, !.suggested = TRUE,
                                 !.source = n, !.of = n]],
             unlinked' = unlinked \cup
                {m \in {n} : \E b \in Appliers \ {a} : applying[b].native = m}
      PROVE  GraduationInv'
  <2>1. new \in Versions /\ versions' \in 0..MaxVersions
    BY <1>0, <1>1, SomeVersions DEF GraduationInv
  <2>2. PICK r : r = [NotThere EXCEPT !.there = TRUE, !.current = TRUE, !.suggested = TRUE,
                                      !.source = n, !.of = n]
    OBVIOUS
  <2>3. /\ IsRow(r) /\ r.of = n /\ r.source = n /\ r.there /\ r.current /\ r.event # "deleted"
    BY <2>2, NewCopy
  <2>4. version' = [version EXCEPT ![new] = r]
    BY <1>4, <2>2
  <2>5. /\ \A v \in Versions : version'[v] = IF v = new THEN r ELSE version[v]
        /\ version' \in [Versions -> {version'[v] : v \in Versions}]
    BY <2>1, <2>4 DEF GraduationInv
  <2>6. \A v \in Versions : IsRow(version'[v])
    BY <2>3, <2>5 DEF GraduationInv
  <2>7. ASSUME NEW m \in Natives \ unlinked' PROVE Untouched(m)'
    <3>1. Untouched(m) /\ m # NoNative
      BY <1>4, <2>7, NoNativeIsNone DEF GraduationInv
    <3>2. CASE m = n
      <4>1. Copies(n) = {}
        BY <1>4, <3>1, <3>2 DEF Untouched
      <4>2. Copies(n)' = {new}
        BY <2>1, <2>3, <2>5, <4>1 DEF Copies
      <4>3. NotDeleted(new)' /\ version'[new].source = n
        BY <2>1, <2>3, <2>5 DEF NotDeleted
      <4>4. \A b \in Appliers : applying'[b].native # n
        BY <1>2, <1>4, <3>2, <2>7
      <4>5. QED
        BY <3>2, <4>2, <4>3, <4>4 DEF Untouched
    <3>3. CASE m # n
      <4>1. Copies(m)' \subseteq Copies(m)
        BY <2>3, <2>5, <3>3 DEF Copies
      <4>2. \A v \in Copies(m)' : version'[v] = version[v]
        BY <2>3, <2>5, <3>3 DEF Copies
      <4>3. \A v \in Copies(m)' : NotDeleted(v) => NotDeleted(v)'
        BY <4>2 DEF NotDeleted
      <4>4. \A b \in Appliers : applying'[b].native = m => applying[b].native = m
        BY <1>2, <3>1
      <4>5. QED
        BY <3>1, <4>1, <4>2, <4>3, <4>4 DEF Untouched
    <3>4. QED
      BY <3>2, <3>3
  <2>8. QED
    BY <1>2, <2>1, <2>5, <2>6, <2>7 DEF GraduationInv
<1>5. QED
  BY <1>0, <1>3, <1>4 DEF ApplyCommits

\* However many packages carry a native annotation and however often and by
\* whom they are applied, it has one live copy at most.
THEOREM CopiedOnce == GraduationSpec => []OneCopy
<1>1. GraduationInit => GraduationInv
  <2> SUFFICES ASSUME GraduationInit PROVE GraduationInv
    OBVIOUS
  <2>1. \A v \in Versions : version[v] = NotThere
    BY DEF GraduationInit
  <2>2. \A n \in Natives : Copies(n) = {}
    BY <2>1, BlankRow, NoNativeIsNone DEF Copies
  <2>3. versions \in 0..MaxVersions
    <3>1. MaxVersions \in Nat
      BY GraduationAssumption
    <3>2. QED
      BY <3>1 DEF GraduationInit
  <2>4. /\ version \in [Versions -> {version[v] : v \in Versions}]
        /\ applying \in [Appliers -> {applying[a] : a \in Appliers}]
    BY DEF GraduationInit
  <2>5. QED
    BY <2>1, <2>2, <2>3, <2>4, BlankRow DEF GraduationInv, Untouched
<1>2. GraduationInv /\ [GraduationNext]_graduationVars => GraduationInv'
  <2> SUFFICES ASSUME GraduationInv, [GraduationNext]_graduationVars PROVE GraduationInv'
    OBVIOUS
  <2>1. ASSUME NEW v \in Versions, NEW event \in {"updated", "deleted"}, UserChanges(v, event)
        PROVE  GraduationInv'
    <3>1. ApplyingOnly
      BY <2>1 DEF UserChanges, transport, ApplyingOnly, GraduationInv
    <3>2. QED
      BY <2>1, <3>1, SupersedesKeeps DEF UserChanges
  <2>2. ASSUME NEW a \in Appliers, ApplyFails(a) \/ ApplyArchives(a) PROVE GraduationInv'
    <3>1. NoApply.native = NoNative
      BY DEF NoApply
    <3>2. applying' = [applying EXCEPT ![a] = NoApply] /\ UNCHANGED <<version, versions, unlinked>>
      BY <2>2 DEF ApplyFails, ApplyArchives, hillview
    <3>3. ApplyingOnly
      BY <3>1, <3>2 DEF ApplyingOnly, GraduationInv
    <3>4. QED
      BY <3>2, <3>3, NothingChanges
  <2>3. CASE DumpRestored \/ SyncReads \/ SyncWrites \/ SyncStamps \/ SyncFails
             \/ \E k \in Packages : export(k)
    <3>1. UNCHANGED <<version, versions, unlinked, applying>>
      BY <2>3 DEF DumpRestored, SyncReads, SyncWrites, SyncStamps, SyncFails, export,
                  hillview, transport
    <3>2. ApplyingOnly
      BY <3>1 DEF ApplyingOnly, GraduationInv
    <3>3. QED
      BY <3>1, <3>2, NothingChanges
  <2>4. CASE UNCHANGED graduationVars
    <3>1. ApplyingOnly
      BY <2>4 DEF graduationVars, ApplyingOnly, GraduationInv
    <3>2. QED
      BY <2>4, <3>1, NothingChanges DEF graduationVars
  <2>5. QED
    BY <2>1, <2>2, <2>3, <2>4, UserCreatesKeeps, AuthorLeavesKeeps, ApplyReadsKeeps, ApplyCommitsKeeps
       DEF GraduationNext
<1>3. GraduationInv => OneCopy
  <2> SUFFICES ASSUME GraduationInv, NEW n \in Natives \ unlinked
               PROVE  Cardinality({v \in Versions : NotDeleted(v) /\ version[v].of = n}) <= 1
    BY DEF OneCopy
  <2>1. Copies(n) = {v \in Versions : NotDeleted(v) /\ version[v].of = n}
    BY DEF GraduationInv, Untouched, Copies
  <2>2. Copies(n) = {} \/ \E v \in Versions : Copies(n) = {v}
    BY DEF GraduationInv, Untouched, Copies
  <2>3. Cardinality(Copies(n)) \in {0, 1}
    BY <2>2, FS_EmptySet, FS_Singleton
  <2>4. QED
    BY <2>1, <2>3
<1>4. QED
  BY <1>1, <1>2, <1>3, PTL DEF GraduationSpec

-----------------------------------------------------------------------------
(* Graduation: a sync that no new dump disturbs catches up.                 *)

MirrorTyped ==
    /\ mirror \in [Versions -> {mirror[v] : v \in Versions}]
    /\ \A v \in Versions :
          mirror[v] \in [has : BOOLEAN, row : {mirror[v].row}, missing : BOOLEAN]

SyncTyped ==
    sync \in [at : {"idle", "read", "written"}, quiet : BOOLEAN, changed : {sync.changed},
              missing : {sync.missing}, reappeared : {sync.reappeared}]

\* The mirror has the row the dump has; a stale stamp is about to be lifted.
InStep(v) ==
    /\ mirror[v].has /\ mirror[v].row = dump[v]
    /\ mirror[v].missing => v \in sync.reappeared

\* What the sync found is still what is to be done: a row of the dump is in
\* step or about to be written, and a row that is gone is stamped or listed.
Followed ==
    /\ \A v \in InDump : v \notin sync.missing
    /\ sync.reappeared \subseteq InDump
    /\ \A v \in InDump : (sync.at = "read" /\ v \in sync.changed) \/ InStep(v)
    /\ \A v \in Versions \ InDump : mirror[v].has => mirror[v].missing \/ v \in sync.missing

SyncInv ==
    /\ MirrorTyped
    /\ SyncTyped
    /\ sync.quiet /\ sync.at # "idle" => Followed

LEMMA SyncInvBegins == GraduationInit => SyncInv
<1>1. ASSUME GraduationInit PROVE MirrorTyped
  BY <1>1 DEF GraduationInit, MirrorTyped, NotMirrored, NotThere
<1>2. ASSUME GraduationInit PROVE SyncTyped /\ sync.at = "idle"
  BY <1>2 DEF GraduationInit, SyncTyped, NoSync
<1>3. QED
  BY <1>1, <1>2 DEF SyncInv

\* The users of Hillview, the export and the application touch neither side.
LEMMA OthersKeepSync ==
    ASSUME SyncInv, UNCHANGED <<dump, mirror, sync>>
    PROVE  SyncInv'
BY DEF SyncInv, MirrorTyped, SyncTyped, Followed, InStep, InDump

LEMMA DumpEndsQuiet ==
    ASSUME SyncInv, DumpRestored
    PROVE  SyncInv'
<1>1. MirrorTyped'
  BY DEF SyncInv, MirrorTyped, DumpRestored
<1>2. SyncTyped' /\ sync'.quiet = FALSE
  BY DEF SyncInv, SyncTyped, DumpRestored
<1>3. QED
  BY <1>1, <1>2 DEF SyncInv

LEMMA ReadsKeep ==
    ASSUME SyncInv, SyncReads
    PROVE  SyncInv'
<1>1. MirrorTyped'
  BY DEF SyncInv, MirrorTyped, SyncReads
<1>2. SyncTyped'
  BY DEF SyncTyped, SyncReads
<1>3. /\ sync'.changed = {v \in InDump : Changed(v)}
      /\ sync'.missing = {v \in Versions \ InDump : Mirrored(v) /\ ~ mirror[v].missing}
      /\ sync'.reappeared = {v \in InDump : mirror[v].missing /\ ~ Changed(v)}
      /\ sync'.at = "read" /\ UNCHANGED <<dump, mirror>>
  BY DEF SyncReads
<1>4. InDump' = InDump /\ InDump \subseteq Versions
  BY <1>3 DEF InDump
<1>5. Followed'
  <2>1. ASSUME NEW v \in InDump PROVE v \notin sync'.missing
    BY <1>3, <2>1
  <2>5. sync'.reappeared \subseteq InDump
    BY <1>3
  <2>2. ASSUME NEW v \in InDump, v \notin sync'.changed PROVE InStep(v)'
    BY <1>3, <2>2 DEF InStep, Changed, Differs, Mirrored
  <2>3. ASSUME NEW v \in Versions \ InDump, mirror[v].has
        PROVE  mirror[v].missing \/ v \in sync'.missing
    BY <1>3, <2>3 DEF Mirrored
  <2>4. QED
    BY <1>3, <1>4, <2>1, <2>2, <2>3, <2>5 DEF Followed
<1>6. QED
  BY <1>1, <1>2, <1>5 DEF SyncInv

LEMMA WritesKeep ==
    ASSUME SyncInv, SyncWrites
    PROVE  SyncInv'
<1>1. /\ \A v \in Versions : mirror'[v] = IF v \in sync.changed \cap InDump
            THEN [has |-> TRUE, row |-> dump[v], missing |-> FALSE] ELSE mirror[v]
      /\ mirror' = [v \in Versions |-> mirror'[v]] /\ UNCHANGED dump
  BY DEF SyncWrites
<1>2. MirrorTyped'
  <2>1. ASSUME NEW v \in Versions
        PROVE  mirror'[v] \in [has : BOOLEAN, row : {mirror'[v].row}, missing : BOOLEAN]
    <3>1. CASE v \in sync.changed \cap InDump
      <4>1. PICK row : row = dump[v]
        OBVIOUS
      <4>2. mirror'[v] = [has |-> TRUE, row |-> row, missing |-> FALSE]
        BY <1>1, <3>1, <4>1
      <4>3. mirror'[v].row = row
        BY <4>2
      <4>4. QED
        BY <4>2, <4>3
    <3>2. CASE v \notin sync.changed \cap InDump
      <4>1. mirror'[v] = mirror[v]
        BY <1>1, <3>2
      <4>2. mirror[v] \in [has : BOOLEAN, row : {mirror[v].row}, missing : BOOLEAN]
        BY DEF SyncInv, MirrorTyped
      <4>3. QED
        BY <4>1, <4>2
    <3>3. QED
      BY <3>1, <3>2
  <2>2. QED
    BY <1>1, <2>1 DEF MirrorTyped
<1>3. /\ sync' = [sync EXCEPT !.at = "written"] /\ SyncTyped' /\ sync'.at = "written"
      /\ sync'.missing = sync.missing /\ sync'.reappeared = sync.reappeared
      /\ sync'.quiet = sync.quiet
  BY DEF SyncInv, SyncTyped, SyncWrites
<1>4. InDump' = InDump /\ InDump \subseteq Versions
  BY <1>1 DEF InDump
<1>5. ASSUME Followed PROVE Followed'
  <2>1. ASSUME NEW v \in InDump PROVE InStep(v)'
    <3>1. CASE v \in sync.changed
      BY <1>1, <1>4, <3>1 DEF InStep
    <3>2. CASE v \notin sync.changed
      BY <1>1, <1>3, <1>4, <1>5, <3>2 DEF InStep, Followed
    <3>3. QED
      BY <3>1, <3>2
  <2>2. \A v \in Versions \ InDump : mirror'[v] = mirror[v]
    BY <1>1
  <2>3. QED
    BY <1>3, <1>4, <1>5, <2>1, <2>2 DEF Followed
<1>6. QED
  BY <1>2, <1>3, <1>5 DEF SyncInv, SyncWrites

LEMMA StampsKeep ==
    ASSUME SyncInv, SyncStamps
    PROVE  SyncInv'
<1>1. /\ \A v \in Versions : \E missing \in BOOLEAN :
            mirror'[v] = [has |-> mirror[v].has, row |-> mirror[v].row, missing |-> missing]
      /\ mirror' = [v \in Versions |-> mirror'[v]]
  BY DEF SyncInv, MirrorTyped, SyncStamps
<1>2. \A v \in Versions :
        mirror'[v] \in [has : BOOLEAN, row : {mirror'[v].row}, missing : BOOLEAN]
  BY <1>1 DEF SyncInv, MirrorTyped
<1>3. MirrorTyped'
  BY <1>1, <1>2 DEF MirrorTyped
<1>4. SyncTyped' /\ sync'.quiet = FALSE
  BY DEF SyncTyped, SyncStamps, NoSync
<1>5. QED
  BY <1>3, <1>4 DEF SyncInv

LEMMA SyncInvKept == SyncInv /\ [GraduationNext]_graduationVars => SyncInv'
<1>1. SUFFICES ASSUME SyncInv, [GraduationNext]_graduationVars PROVE SyncInv'
  OBVIOUS
<1>2. CASE UserCreates
  BY <1>1, <1>2, OthersKeepSync DEF UserCreates, workbench
<1>3. CASE \E v \in Versions : \/ UserChanges(v, "updated") \/ UserChanges(v, "deleted")
                               \/ AuthorLeaves(v)
  BY <1>1, <1>3, OthersKeepSync DEF UserChanges, AuthorLeaves, workbench
<1>4. CASE DumpRestored
  BY <1>1, <1>4, DumpEndsQuiet
<1>5. CASE \E k \in Packages : export(k)
  BY <1>1, <1>5, OthersKeepSync DEF export, workbench
<1>6. CASE \E a \in Appliers : \/ \E k \in Packages : ApplyReads(a, k)
                               \/ ApplyCommits(a) \/ ApplyFails(a) \/ ApplyArchives(a)
  <2>1. UNCHANGED <<dump, mirror, sync>>
    BY <1>6 DEF ApplyReads, ApplyCommits, ApplyFails, ApplyArchives, workbench
  <2>2. QED
    BY <1>1, <2>1, OthersKeepSync
<1>7. CASE SyncReads
  BY <1>1, <1>7, ReadsKeep
<1>8. CASE SyncWrites
  BY <1>1, <1>8, WritesKeep
<1>9. CASE SyncStamps
  BY <1>1, <1>9, StampsKeep
<1>10. CASE SyncFails
  <2>1. MirrorTyped'
    BY <1>1, <1>10 DEF SyncInv, MirrorTyped, SyncFails
  <2>2. SyncTyped' /\ sync'.quiet = FALSE
    BY <1>10 DEF SyncTyped, SyncFails, NoSync
  <2>3. QED
    BY <2>1, <2>2 DEF SyncInv
<1>11. CASE UNCHANGED graduationVars
  BY <1>1, <1>11, OthersKeepSync DEF graduationVars
<1>12. QED
  BY <1>1, <1>2, <1>3, <1>4, <1>5, <1>6, <1>7, <1>8, <1>9, <1>10, <1>11 DEF GraduationNext

\* The last step of a sync that was not disturbed leaves each row in step.
LEMMA StampsCatchUp ==
    ASSUME SyncInv, SyncStamps, sync.quiet, NEW v \in Versions
    PROVE  IF dump[v].there
             THEN mirror'[v] = [has |-> TRUE, row |-> dump[v], missing |-> FALSE]
             ELSE Mirrored(v) => mirror'[v].missing
<1>1. Followed /\ sync.at = "written"
  BY DEF SyncInv, SyncStamps
<1>2. /\ mirror[v] \in [has : BOOLEAN, row : {mirror[v].row}, missing : BOOLEAN]
      /\ mirror'[v] = IF v \in sync.missing THEN [mirror[v] EXCEPT !.missing = TRUE]
                      ELSE IF v \in sync.reappeared THEN [mirror[v] EXCEPT !.missing = FALSE]
                      ELSE mirror[v]
  BY DEF SyncInv, MirrorTyped, SyncStamps
<1>3. CASE dump[v].there
  <2>1. v \in InDump
    BY <1>3 DEF InDump
  <2>2. v \notin sync.missing /\ InStep(v)
    BY <1>1, <2>1 DEF Followed
  <2>3. QED
    BY <1>2, <1>3, <2>2 DEF InStep
<1>4. CASE ~ dump[v].there
  <2>1. v \in Versions \ InDump
    BY <1>4 DEF InDump
  <2>2. /\ mirror[v].has => mirror[v].missing \/ v \in sync.missing
        /\ v \notin sync.reappeared
    BY <1>1, <2>1 DEF Followed
  <2>3. ASSUME mirror[v].has PROVE mirror'[v].missing
    <3>1. CASE v \in sync.missing
      BY <1>2, <3>1
    <3>2. CASE v \notin sync.missing
      BY <1>1, <1>2, <2>2, <2>3, <3>2
    <3>3. QED
      BY <3>1, <3>2
  <2>4. QED
    BY <1>4, <2>3 DEF Mirrored
<1>5. QED
  BY <1>3, <1>4

\* A sync during which no new dump was restored leaves the mirror equal to the
\* dump, and every mirrored row that is gone stamped missing.
THEOREM UndisturbedSync == GraduationSpec => SyncCatchesUp
<1>1. GraduationSpec => []SyncInv
  BY SyncInvBegins, SyncInvKept, PTL DEF GraduationSpec
<1>2. SyncInv /\ [GraduationNext]_graduationVars =>
        [SyncStamps /\ sync.quiet =>
           \A v \in Versions :
              IF dump[v].there THEN mirror'[v] = [has |-> TRUE, row |-> dump[v], missing |-> FALSE]
              ELSE Mirrored(v) => mirror'[v].missing]_graduationVars
  BY StampsCatchUp
<1>3. QED
  BY <1>1, <1>2, PTL DEF GraduationSpec, SyncCatchesUp

-----------------------------------------------------------------------------
(* Curation                                                                *)

\* Facts that pages find by their link, not by their subject alone.
ByLink == aspect \notin {"anchor", "depicted", "proto", "calibration"}
Stored(f) == f \in loaded /\ (ByLink => f \in linked)

Progressed(a) ==
    /\ verb[a].at \in Writing \cup {"succeeded"} => verb[a].fact \in Meanings
    /\ verb[a].at \in {"loaded", "linked", "decided", "succeeded"} => verb[a].fact \in loaded
    /\ verb[a].at \in {"linked", "decided", "succeeded"} => verb[a].fact \in linked
    /\ \A f \in verb[a].prior : f # verb[a].fact /\ Stored(f)

\* What an edit has still to demote is what else is approved, as long as
\* nobody else has decided.
OwnsDecisions(a) ==
    /\ verb[a].at \in Writing
    /\ verb[a].way = "edit" =>
         /\ verb[a].to = "approved" /\ verb[a].prior = Approved \ {verb[a].fact}
         /\ verb[a].at = "decided" => verb[a].fact \in Approved

AnswerInv ==
    /\ answer.at \notin {"none", "search"} =>
         answer.fact \in Approved \/ (Approved = {} /\ answer.fact = Unsaid)
    /\ answer.at = "pending" => subject.says # answer.fact
    /\ answer.at = "landed" => subject.says = answer.fact
    /\ answer.at = "search" => answer.fact \in loaded /\ decision[answer.fact] # "rejected"

CurationInv ==
    /\ CurationTypeOK
    /\ \A f \in Meanings : decision[f] # "proposed" => Stored(f)
    /\ \A a \in Verbs : Progressed(a)
    /\ \A a \in undisturbed : OwnsDecisions(a)
    /\ EditStands
    /\ AnswerInv

LEMMA CurationBegins == CurationInit => CurationInv
<1>1. SUFFICES ASSUME CurationInit PROVE CurationInv
  OBVIOUS
<1>2. subject \in [origin : {"none", "hillview", "workbench", "deleted"}, current : BOOLEAN,
                   says : Sayings]
  <2>1. subject = NoSubject
        \/ subject \in [origin : {"hillview"}, current : {TRUE}, says : Sayings]
    BY <1>1 DEF CurationInit
  <2>2. NoSubject \in [origin : {"none", "hillview", "workbench", "deleted"}, current : BOOLEAN,
                       says : Sayings]
    BY DEF NoSubject, Sayings
  <2>3. TRUE \in BOOLEAN
    OBVIOUS
  <2>4. [origin : {"hillview"}, current : {TRUE}, says : Sayings]
          \subseteq [origin : {"none", "hillview", "workbench", "deleted"}, current : BOOLEAN,
                     says : Sayings]
    BY <2>3
  <2>5. QED
    BY <2>1, <2>2, <2>4
<1>3. /\ IdleVerb.at = "idle" /\ IdleVerb.prior = {}
      /\ IdleVerb \in [way : {"edit", "approve", "load", "verdict"},
                       at : Writing \cup {"idle", "succeeded", "stopped"},
                       fact : Sayings, prior : SUBSET Meanings, to : Decisions]
  BY DEF IdleVerb, Sayings, Decisions
<1>4. CurationTypeOK
  BY <1>1, <1>2, <1>3 DEF CurationInit, CurationTypeOK, NoAnswer, Sayings, Decisions
<1>5. \A a \in Verbs : verb[a] = IdleVerb
  BY <1>1 DEF CurationInit
<1>6. \A a \in Verbs : Progressed(a)
  BY <1>3, <1>5 DEF Progressed, Writing
<1>7. AnswerInv /\ EditStands
  BY <1>1 DEF CurationInit, AnswerInv, EditStands, NoAnswer
<1>8. QED
  BY <1>1, <1>4, <1>6, <1>7 DEF CurationInit, CurationInv

\* Of an annotation only what its body says matters, and to whom has read it.
LEMMA RowChangesKeep == ASSUME CurationInv, RowChanges PROVE CurationInv'
<1>1. subject' \in [origin : {"none", "hillview", "workbench", "deleted"}, current : BOOLEAN,
                    says : Sayings]
  <2>1. subject \in [origin : {"none", "hillview", "workbench", "deleted"}, current : BOOLEAN,
                     says : Sayings]
    BY DEF CurationInv, CurationTypeOK
  <2>2. CASE Draw
    BY <2>2 DEF Draw
  <2>3. CASE Redraw \/ SyncRow
    BY <2>1, <2>3 DEF Redraw, SyncRow
  <2>4. CASE Erase
    BY <2>4 DEF Erase, NoSubject, Sayings
  <2>5. QED
    BY <2>2, <2>3, <2>4 DEF RowChanges
<1>2. /\ answer' = IF answer.at \in {"read", "search"} THEN answer ELSE NoAnswer
      /\ UNCHANGED <<aspect, loaded, linked, decision, verb, undisturbed, standing>>
  BY DEF RowChanges
<1>3. AnswerInv'
  BY <1>2 DEF AnswerInv, CurationInv, NoAnswer, Approved
<1>4. CurationTypeOK'
  BY <1>1, <1>2 DEF CurationInv, CurationTypeOK, NoAnswer, Sayings
<1>5. QED
  BY <1>2, <1>3, <1>4 DEF CurationInv, Progressed, OwnsDecisions, EditStands, Approved, Stored,
                          ByLink

LEMMA BeginKeeps ==
    ASSUME CurationInv, NEW a \in Verbs, NEW way \in {"edit", "approve", "load", "verdict"},
           NEW f \in Meanings, NEW prior, NEW to \in Decisions,
           way = "edit" => to = "approved" /\ prior = Prior(f),
           way # "edit" => prior = {},
           Begin(a, way, f, prior, to)
    PROVE  CurationInv'
<1> DEFINE new == [way |-> way, at |-> "ready", fact |-> f, prior |-> prior, to |-> to]
<1>1. /\ verb' = [verb EXCEPT ![a] = new] /\ undisturbed' = undisturbed \cup {a}
      /\ verb[a].at = "idle"
      /\ UNCHANGED <<aspect, subject, loaded, linked, decision, answer, standing>>
  BY DEF Begin
<1>2. prior \subseteq Approved /\ prior \subseteq Meanings /\ f \notin prior
  BY DEF Prior, Approved
<1>3. /\ DOMAIN verb = Verbs /\ verb'[a] = new
      /\ \A b \in Verbs \ {a} : verb'[b] = verb[b]
  BY <1>1 DEF CurationInv, CurationTypeOK
<1>4. CurationTypeOK'
  BY <1>1, <1>2 DEF CurationInv, CurationTypeOK, Writing, Sayings
<1>5. \A b \in Verbs : Progressed(b)'
  BY <1>1, <1>2, <1>3 DEF CurationInv, Progressed, Stored, ByLink, Approved, Writing
<1>6. \A b \in undisturbed' : OwnsDecisions(b)'
  BY <1>1, <1>2, <1>3 DEF CurationInv, CurationTypeOK, OwnsDecisions, Approved, Writing, Prior
<1>7. QED
  BY <1>1, <1>4, <1>5, <1>6 DEF CurationInv, EditStands, AnswerInv, Approved, Stored, ByLink

LEMMA AsksKeep == ASSUME CurationInv, NEW a \in Verbs, AsksToWrite(a) PROVE CurationInv'
<1>1. CASE ParseRun(a)
  <2>1. subject.says \in Meanings /\ Begin(a, "load", subject.says, {}, "proposed")
    BY <1>1 DEF ParseRun, CurationInv, CurationTypeOK, Sayings
  <2>2. QED
    BY <2>1, BeginKeeps DEF Decisions
<1>2. ASSUME NEW f \in Meanings, SetLabel(a, f) \/ SetGeometry(a, f) PROVE CurationInv'
  BY <1>2, BeginKeeps DEF SetLabel, SetGeometry, Decisions
<1>3. ASSUME NEW f \in Meanings, PinAnchor(a, f) \/ GeocodeRun(a, f) \/ PlacePoi(a, f)
                              \/ AcceptCalibration(a, f)
      PROVE  CurationInv'
  BY <1>3, BeginKeeps DEF PinAnchor, GeocodeRun, PlacePoi, AcceptCalibration, Decisions
<1>4. ASSUME NEW f \in Meanings, AttachWikipedia(a, f) PROVE CurationInv'
  BY <1>4, BeginKeeps DEF AttachWikipedia, Decisions
<1>5. ASSUME NEW f \in Meanings, NEW to \in Decisions, Verdict(a, f, to) PROVE CurationInv'
  BY <1>5, BeginKeeps DEF Verdict
<1>6. QED
  BY <1>1, <1>2, <1>3, <1>4, <1>5 DEF AsksToWrite

LEMMA LoadsKeep ==
    ASSUME CurationInv, NEW a \in Verbs, LoadFact(a) \/ LoadMeta(a)
    PROVE  CurationInv'
<1>1. /\ verb[a].at \in {"ready", "loaded"}
      /\ verb' = [verb EXCEPT ![a].at = IF verb[a].at = "ready" THEN "loaded" ELSE "linked"]
      /\ loaded' = IF verb[a].at = "ready" THEN loaded \cup {verb[a].fact} ELSE loaded
      /\ linked' = IF verb[a].at = "ready" THEN linked ELSE linked \cup {verb[a].fact}
      /\ UNCHANGED <<aspect, subject, decision, answer, undisturbed, standing>>
  BY DEF LoadFact, LoadMeta, MovesTo
<1>2. verb[a].fact \in Meanings
  BY <1>1 DEF CurationInv, Progressed, Writing
<1>3. loaded \subseteq loaded' /\ linked \subseteq linked'
  BY <1>1
<1>4. CurationTypeOK'
  BY <1>1, <1>2 DEF CurationInv, CurationTypeOK, Writing
<1>5. \A b \in Verbs : Progressed(b)'
  <2>1. SUFFICES ASSUME NEW b \in Verbs PROVE Progressed(b)'
    OBVIOUS
  <2>2. verb'[b] = IF b = a THEN [verb[a] EXCEPT !.at = IF verb[a].at = "ready" THEN "loaded"
                                                        ELSE "linked"]
                   ELSE verb[b]
    BY <1>1 DEF CurationInv, CurationTypeOK
  <2>3. verb[a] \in [way : {"edit", "approve", "load", "verdict"},
                     at : Writing \cup {"idle", "succeeded", "stopped"},
                     fact : Sayings, prior : SUBSET Meanings, to : Decisions]
    BY DEF CurationInv, CurationTypeOK
  <2>4. Progressed(b) /\ Progressed(a)
    BY DEF CurationInv
  <2>5. \A f : Stored(f) => Stored(f)'
    BY <1>1, <1>3 DEF Stored, ByLink
  <2>6. QED
    BY <1>1, <1>2, <1>3, <2>2, <2>3, <2>4, <2>5 DEF Progressed, Writing
<1>6. \A b \in undisturbed' : OwnsDecisions(b)'
  BY <1>1 DEF CurationInv, CurationTypeOK, OwnsDecisions, Approved, Writing
<1>7. AnswerInv'
  BY <1>1, <1>3 DEF CurationInv, AnswerInv, Approved
<1>8. QED
  BY <1>1, <1>3, <1>4, <1>5, <1>6, <1>7 DEF CurationInv, EditStands, Approved, Stored, ByLink

\* A decision about a stored fact leaves nothing to be said of an edit but
\* of the one that takes it.
LEMMA CurateUpdateKeeps ==
    ASSUME CurationInv, NEW f \in Meanings, NEW to \in Decisions, NEW by, Stored(f),
           CurateUpdate(f, to, by),
           verb' \in [Verbs -> [way : {"edit", "approve", "load", "verdict"},
                                at : Writing \cup {"idle", "succeeded", "stopped"},
                                fact : Sayings, prior : SUBSET Meanings, to : Decisions]],
           \A a \in Verbs : Progressed(a)',
           \A a \in undisturbed \cap by : OwnsDecisions(a)'
    PROVE  CurationInv'
<1>1. /\ decision' = [decision EXCEPT ![f] = to] /\ undisturbed' = undisturbed \cap by
      /\ standing' = Unsaid /\ answer' = NoAnswer
      /\ UNCHANGED <<aspect, subject, loaded, linked>>
  BY DEF CurateUpdate
<1>2. CurationTypeOK'
  BY <1>1 DEF CurationInv, CurationTypeOK, NoAnswer, Sayings
<1>3. AnswerInv' /\ EditStands'
  BY <1>1 DEF AnswerInv, NoAnswer, EditStands
<1>4. \A g \in Meanings : decision'[g] # "proposed" => Stored(g)'
  BY <1>1 DEF CurationInv, CurationTypeOK, Stored, ByLink
<1>5. QED
  BY <1>1, <1>2, <1>3, <1>4 DEF CurationInv

LEMMA DecideKeeps == ASSUME CurationInv, NEW a \in Verbs, Decide(a) PROVE CurationInv'
<1> DEFINE v == verb[a]
<1>1. /\ v.at = "linked" /\ verb' = [verb EXCEPT ![a].at = "decided"]
      /\ CurateUpdate(v.fact, v.to, {a})
      /\ decision' = [decision EXCEPT ![v.fact] = v.to]
      /\ UNCHANGED <<aspect, subject, loaded, linked>>
  BY DEF Decide, MovesTo, CurateUpdate
<1>2. /\ v \in [way : {"edit", "approve", "load", "verdict"},
                at : Writing \cup {"idle", "succeeded", "stopped"},
                fact : Sayings, prior : SUBSET Meanings, to : Decisions]
      /\ Progressed(a)
  BY DEF CurationInv, CurationTypeOK
<1>3. v.fact \in Meanings /\ Stored(v.fact)
  BY <1>1, <1>2 DEF Progressed, Writing, Stored
<1>4. verb' \in [Verbs -> [way : {"edit", "approve", "load", "verdict"},
                           at : Writing \cup {"idle", "succeeded", "stopped"},
                           fact : Sayings, prior : SUBSET Meanings, to : Decisions]]
  BY <1>1 DEF CurationInv, CurationTypeOK, Writing
<1>5. ASSUME NEW b \in Verbs PROVE Progressed(b)'
  <2>1. verb'[b] = IF b = a THEN [v EXCEPT !.at = "decided"] ELSE verb[b]
    BY <1>1 DEF CurationInv, CurationTypeOK
  <2>2. Progressed(b)
    BY DEF CurationInv
  <2>3. QED
    BY <1>1, <1>2, <1>3, <2>1, <2>2 DEF Progressed, Stored, ByLink, Writing
<1>6. ASSUME a \in undisturbed PROVE OwnsDecisions(a)'
  <2>1. verb'[a] = [v EXCEPT !.at = "decided"]
    BY <1>1 DEF CurationInv, CurationTypeOK
  <2>2. OwnsDecisions(a)
    BY <1>6 DEF CurationInv
  <2>3. v.way = "edit" => Approved' = Approved \cup {v.fact}
    BY <1>1, <1>3, <2>2 DEF CurationInv, CurationTypeOK, Approved, OwnsDecisions
  <2>4. QED
    BY <1>2, <2>1, <2>2, <2>3 DEF OwnsDecisions, Writing
<1>7. QED
  BY <1>1, <1>2, <1>3, <1>4, <1>5, <1>6, CurateUpdateKeeps

LEMMA DemoteKeeps ==
    ASSUME CurationInv, NEW a \in Verbs, NEW f \in Meanings, Demote(a, f)
    PROVE  CurationInv'
<1> DEFINE v == verb[a]
<1>1. /\ v.at = "decided" /\ f \in v.prior /\ verb' = [verb EXCEPT ![a].prior = @ \ {f}]
      /\ CurateUpdate(f, "rejected", {a})
      /\ decision' = [decision EXCEPT ![f] = "rejected"]
      /\ UNCHANGED <<aspect, subject, loaded, linked>>
  BY DEF Demote, CurateUpdate
<1>2. /\ v \in [way : {"edit", "approve", "load", "verdict"},
                at : Writing \cup {"idle", "succeeded", "stopped"},
                fact : Sayings, prior : SUBSET Meanings, to : Decisions]
      /\ Progressed(a)
  BY DEF CurationInv, CurationTypeOK
<1>3. Stored(f) /\ f # v.fact
  BY <1>1, <1>2 DEF Progressed
<1>4. verb' \in [Verbs -> [way : {"edit", "approve", "load", "verdict"},
                           at : Writing \cup {"idle", "succeeded", "stopped"},
                           fact : Sayings, prior : SUBSET Meanings, to : Decisions]]
  BY <1>1 DEF CurationInv, CurationTypeOK
<1>5. ASSUME NEW b \in Verbs PROVE Progressed(b)'
  <2>1. verb'[b] = IF b = a THEN [v EXCEPT !.prior = v.prior \ {f}] ELSE verb[b]
    BY <1>1 DEF CurationInv, CurationTypeOK
  <2>2. Progressed(b)
    BY DEF CurationInv
  <2>3. QED
    BY <1>1, <1>2, <2>1, <2>2 DEF Progressed, Stored, ByLink, Writing
<1>6. ASSUME a \in undisturbed PROVE OwnsDecisions(a)'
  <2>1. verb'[a] = [v EXCEPT !.prior = v.prior \ {f}]
    BY <1>1 DEF CurationInv, CurationTypeOK
  <2>2. OwnsDecisions(a)
    BY <1>6 DEF CurationInv
  <2>3. Approved' = Approved \ {f}
    BY <1>1 DEF CurationInv, CurationTypeOK, Approved
  <2>4. QED
    BY <1>2, <1>3, <2>1, <2>2, <2>3 DEF OwnsDecisions
<1>7. QED
  BY <1>1, <1>3, <1>4, <1>5, <1>6, CurateUpdateKeeps DEF Decisions

LEMMA EndsKeep ==
    ASSUME CurationInv, NEW a \in Verbs, FinishRun(a) \/ Stops(a)
    PROVE  CurationInv'
<1>1. /\ undisturbed' = undisturbed \ {a}
      /\ UNCHANGED <<aspect, subject, loaded, linked, decision, answer>>
  BY DEF FinishRun, Stops
<1>2. PICK new \in [way : {"load"}, at : {"succeeded", "stopped"}, fact : Sayings,
                    prior : {{}}, to : {"proposed"}] :
         /\ verb' = [verb EXCEPT ![a] = new]
         /\ new.at = "succeeded" => /\ new.fact = verb[a].fact
                                    /\ verb[a].at \in {"linked", "decided"}
  <2> DEFINE ended == [way : {"load"}, at : {"succeeded", "stopped"}, fact : Sayings,
                       prior : {{}}, to : {"proposed"}]
  <2>1. CASE FinishRun(a)
    <3>1. verb[a].fact \in Sayings
      BY DEF CurationInv, CurationTypeOK
    <3>2. [IdleVerb EXCEPT !.at = "succeeded", !.fact = verb[a].fact] \in ended
      BY <3>1 DEF IdleVerb
    <3>3. [IdleVerb EXCEPT !.at = "succeeded", !.fact = verb[a].fact].fact = verb[a].fact
      BY DEF IdleVerb
    <3>4. QED
      BY <2>1, <3>2, <3>3 DEF FinishRun
  <2>2. CASE Stops(a)
    <3>1. /\ [IdleVerb EXCEPT !.at = "stopped"] \in ended
          /\ [IdleVerb EXCEPT !.at = "stopped"].at = "stopped"
      BY DEF IdleVerb, Sayings
    <3>2. QED
      BY <2>2, <3>1 DEF Stops
  <2>3. QED
    BY <2>1, <2>2
<1>3. CurationTypeOK'
  <2>1. standing' \in Sayings
    BY DEF FinishRun, Stops, CurationInv, CurationTypeOK
  <2>2. new \in [way : {"edit", "approve", "load", "verdict"},
                 at : Writing \cup {"idle", "succeeded", "stopped"},
                 fact : Sayings, prior : SUBSET Meanings, to : Decisions]
    BY <1>2 DEF Decisions
  <2>3. verb' \in [Verbs -> [way : {"edit", "approve", "load", "verdict"},
                             at : Writing \cup {"idle", "succeeded", "stopped"},
                             fact : Sayings, prior : SUBSET Meanings, to : Decisions]]
    BY <1>2, <2>2 DEF CurationInv, CurationTypeOK
  <2>4. QED
    BY <1>1, <2>1, <2>3 DEF CurationInv, CurationTypeOK
<1>4. ASSUME NEW b \in Verbs PROVE Progressed(b)'
  <2>1. verb'[b] = IF b = a THEN new ELSE verb[b]
    BY <1>2 DEF CurationInv, CurationTypeOK
  <2>2. Progressed(b) /\ Progressed(a)
    BY DEF CurationInv
  <2>3. QED
    BY <1>1, <1>2, <2>1, <2>2 DEF Progressed, Stored, ByLink, Writing
<1>5. ASSUME NEW b \in undisturbed' PROVE OwnsDecisions(b)'
  <2>1. b \in undisturbed /\ b # a /\ b \in Verbs
    BY <1>1, <1>5 DEF CurationInv, CurationTypeOK
  <2>2. verb'[b] = verb[b] /\ OwnsDecisions(b)
    BY <1>2, <2>1 DEF CurationInv, CurationTypeOK
  <2>3. QED
    BY <1>1, <2>2 DEF OwnsDecisions, Approved
<1>6. EditStands'
  <2>1. CASE standing' = standing
    BY <1>1, <2>1 DEF CurationInv, EditStands, Approved
  <2>2. CASE standing' # standing
    <3>1. /\ FinishRun(a) /\ verb[a].way = "edit" /\ a \in undisturbed
          /\ standing' = verb[a].fact
      BY <2>2 DEF FinishRun, Stops
    <3>2. verb[a].at = "decided" /\ verb[a].prior = {} /\ OwnsDecisions(a)
      BY <3>1 DEF FinishRun, CurationInv
    <3>3. Approved = {verb[a].fact}
      BY <3>1, <3>2 DEF OwnsDecisions
    <3>4. QED
      BY <1>1, <3>1, <3>3 DEF EditStands, Approved
  <2>3. QED
    BY <2>1, <2>2
<1>7. QED
  BY <1>1, <1>3, <1>4, <1>5, <1>6 DEF CurationInv, AnswerInv, Approved, Stored, ByLink

\* What is shown where decisions are taken is stored.
LEMMA CurateKeeps == ASSUME CurationInv, Curate PROVE CurationInv'
<1>1. PICK f \in ShownFacts, to \in Decisions : CurateUpdate(f, to, {})
  BY DEF Curate
<1>2. verb' = verb
  BY DEF Curate
<1>3. f \in loaded /\ Stored(f)
  BY DEF ShownFacts, Candidates, OnPages, FactsAbout, VerdictsFor, Protos, PhotoFacts, Stored,
         ByLink
<1>4. f \in Meanings
  BY <1>3 DEF CurationInv, CurationTypeOK
<1>5. UNCHANGED <<aspect, loaded, linked>>
  BY <1>1 DEF CurateUpdate
<1>6. \A a \in Verbs : Progressed(a)'
  BY <1>2, <1>5 DEF CurationInv, Progressed, Stored, ByLink
<1>7. verb' \in [Verbs -> [way : {"edit", "approve", "load", "verdict"},
                           at : Writing \cup {"idle", "succeeded", "stopped"},
                           fact : Sayings, prior : SUBSET Meanings, to : Decisions]]
  BY <1>2 DEF CurationInv, CurationTypeOK
<1>8. QED
  BY <1>1, <1>3, <1>4, <1>6, <1>7, CurateUpdateKeeps

LEMMA ReadersKeep ==
    ASSUME CurationInv, ReadApproved \/ ReadRows \/ Search
    PROVE  CurationInv'
<1>1. UNCHANGED <<aspect, subject, loaded, linked, decision, verb, undisturbed, standing>>
  BY DEF ReadApproved, ReadRows, Search
<1>2. /\ answer' \in [at : {"none", "read", "landed", "pending", "create", "search"},
                      fact : Sayings]
      /\ AnswerInv'
  <2>1. CASE ReadApproved
    BY <1>1, <2>1 DEF ReadApproved, AnswerInv, Approved, Sayings
  <2>2. CASE ReadRows
    BY <1>1, <2>2 DEF ReadRows, Item, SuggestsBody, NoAnswer, AnswerInv, CurationInv, CurationTypeOK, Approved,
                      Sayings
  <2>3. CASE Search
    BY <1>1, <2>3 DEF Search, LabelsFromGraph, AnswerInv, CurationInv, CurationTypeOK, Sayings
  <2>4. QED
    BY <2>1, <2>2, <2>3
<1>3. QED
  BY <1>1, <1>2 DEF CurationInv, CurationTypeOK, Progressed, OwnsDecisions, EditStands, Approved,
                    Stored, ByLink

LEMMA CurationInvKept == CurationInv /\ [CurationNext]_curationVars => CurationInv'
<1>1. SUFFICES ASSUME CurationInv, [CurationNext]_curationVars PROVE CurationInv'
  OBVIOUS
<1>2. CASE UNCHANGED curationVars
  BY <1>1, <1>2 DEF curationVars, CurationInv, CurationTypeOK, Progressed, OwnsDecisions,
                    EditStands, AnswerInv, Approved, Stored, ByLink
<1>3. QED
  BY <1>1, <1>2, RowChangesKeep, AsksKeep, LoadsKeep, DecideKeeps, DemoteKeeps, EndsKeep,
     CurateKeeps, ReadersKeep DEF CurationNext

\* For any number of facts and of requests, of any kind, that overlap, fail
\* half way or never end: after an edit during which nobody else decided, its
\* fact alone is approved until the next decision; what is read for graduation
\* meanwhile is that fact, and pending just while the body says another; and
\* what is decided, or reported as succeeded, is stored (set_label,
\* set_geometry, curate_update, _compute_suggestions).
THEOREM DecisionsAreKept == CurationSpec => []DecisionsHold
<1>1. CurationInv => DecisionsHold
  <2>1. SUFFICES ASSUME CurationInv PROVE DecisionsHold
    OBVIOUS
  <2>2. EditStands
    BY <2>1 DEF CurationInv
  <2>3. SuggestionFollows
    BY <2>1, <2>2 DEF CurationInv, AnswerInv, SuggestionFollows, EditStands
  <2>4. LookupFollows
    <3>1. SUFFICES ASSUME standing # Unsaid, answer.at = "search",
                          \A f \in loaded : decision[f] # "proposed"
                   PROVE  answer.fact = standing
      BY DEF LookupFollows
    <3>2. answer.fact \in loaded /\ decision[answer.fact] \in {"approved"}
      BY <2>1, <3>1 DEF CurationInv, AnswerInv, CurationTypeOK, Decisions
    <3>3. answer.fact \in Approved
      BY <2>1, <3>2 DEF CurationInv, CurationTypeOK, Approved
    <3>4. QED
      BY <2>2, <3>1, <3>3 DEF EditStands
  <2>5. DecisionsHaveFacts
    BY <2>1 DEF CurationInv, DecisionsHaveFacts, Stored, ByLink, Progressed
  <2>6. QED
    BY <2>2, <2>3, <2>4, <2>5 DEF DecisionsHold
<1>2. QED
  BY <1>1, CurationBegins, CurationInvKept, PTL DEF CurationSpec

\* The variables of the curation graph and of what reads it keep their types.
THEOREM CurationIsTyped == CurationSpec => []CurationTypeOK
<1>1. CurationInv => CurationTypeOK
  BY DEF CurationInv
<1>2. QED
  BY <1>1, CurationBegins, CurationInvKept, PTL DEF CurationSpec

=============================================================================
