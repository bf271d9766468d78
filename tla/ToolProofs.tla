------------------------------ MODULE ToolProofs ------------------------------
(***************************************************************************)
(* Theorems about the scripts that are run by hand, and are stopped and    *)
(* run again: the panorama pipeline (PanoPipeline) and the patching of the *)
(* generated Android project (GenPatches).                                 *)
(***************************************************************************)
EXTENDS PanoPipeline, GenPatches, TLAPS

-----------------------------------------------------------------------------
(* The panorama pipeline: what it delivers is current.                     *)

\* What can be in the place of each phase.
Kept(i) ==
    CASE i \in 1..6 -> {"none", "unusable", "part", "whole"}
      [] i = 7 -> {"none", "unusable", "part", "whole", "gamma", "untagged"}
      [] i = 8 -> {"none", "unusable", "part", "whole", "untagged", "wrong"}
      [] i = 9 -> {"none", "unusable", "part", "wrong", "whole"}

PanoPast == [hands : Nat, accepted : BOOLEAN, gap : BOOLEAN, edited : BOOLEAN,
             warned : BOOLEAN, torn : BOOLEAN]

PanoShape ==
    /\ out \in [Indices -> Outputs] /\ staging \in [Indices -> Outputs]
    /\ outdated \in [Indices -> BOOLEAN]
    /\ stage \in 0..9 /\ redoing \in 0..9 /\ suffix \in {"none", "tmp"} /\ stopAfter \in 0..9
    /\ past \in PanoPast

OfKind == \A i \in Indices : out[i] \in Kept(i) /\ staging[i] \in Kept(i)

Fresh == \A i \in Indices : ~ outdated[i]

\* What there is as long as nothing was accepted.
Plain == {"none", "unusable", "part", "whole"}

\* Why something is missing from an output, and why it can be worse than that.
Lacking == past.accepted \/ past.warned \/ past.torn

Unaccepted ==
    /\ ~ Lacking => \A i \in Indices : out[i] \in {"none", "whole"}
    /\ ~ past.accepted => \A i \in Indices : out[i] \in Plain
    /\ ~ past.torn => out[9] # "unusable" /\ staging[9] # "unusable"

\* Nothing runs over directories with a gap, and --redo is the first thing a run does.
RunsOnWhole ==
    /\ stage > 0 => ~ past.gap
    /\ redoing > 0 => stage = 1
    /\ suffix = "tmp" => redoing > 0 /\ out[redoing] = "none"

\* What --redo has not reached yet is not looked at.
Reached(j) == redoing = 0 \/ j < redoing

\* Behind a missing output there is nothing.
Contiguous ==
    ~ past.gap =>
        \A i, j \in Indices :
            i < j /\ out[i] = "none" /\ Reached(j) => out[j] = "none" /\ staging[j] = "none"

\* Wrong tones come from a picture that is not linear, which is still there
\* unless --redo has removed it, or a part of it.
WrongComesFrom(i, j, source) ==
    out[j] = "wrong" \/ staging[j] = "wrong" =>
        out[i] = source \/ (redoing \in {i, j} /\ out[i] = "none")

WrongExplained ==
    ~ past.gap /\ ~ past.torn => WrongComesFrom(7, 8, "gamma") /\ WrongComesFrom(8, 9, "wrong")

\* A run has everything before the phase it is at.
MadeSoFar == stage > 0 /\ redoing = 0 => \A i \in Indices : i < stage => out[i] # "none"

DoneIsSound ==
    exitCode = "done" =>
        stage = 0 /\ redoing = 0 /\ out[9] # "none" /\ out[7] \notin {"gamma", "untagged"}

PanoInv ==
    /\ PanoShape /\ OfKind /\ Fresh /\ Unaccepted /\ RunsOnWhole /\ Contiguous
    /\ WrongExplained /\ MadeSoFar /\ DoneIsSound
    /\ past.edited => xmp = "edited"

LEMMA Phases ==
    /\ Indices = 1..9 /\ LastPhase = 9
    /\ Number("stitch") = 7 /\ Number("render") = 8
<1>1. Indices = 1..9 /\ LastPhase = 9
  BY DEF Indices, LastPhase, PhaseNames
<1>2. \A i \in Indices : PhaseNames[i] = "stitch" <=> i = 7
  BY DEF Indices, PhaseNames
<1>3. \A i \in Indices : PhaseNames[i] = "render" <=> i = 8
  BY DEF Indices, PhaseNames
<1>4. QED
  BY <1>1, <1>2, <1>3 DEF Number

\* What a phase makes of its input.
LEMMA Bodies ==
    ASSUME NEW i \in Indices, NEW input \in Outputs, NEW product \in PhaseBody(i, input)
    PROVE  /\ i = 1 => product = "whole"
           /\ i = 2 => product \in {input, "part", "unusable"}
           /\ i \in 3..7 => product = input /\ product # "unusable"
           /\ i = 8 => \/ product = "wrong" /\ input = "gamma"
                       \/ product = "whole" /\ input = "untagged"
                       \/ product = input /\ input \notin {"unusable", "gamma", "untagged"}
           /\ i = 9 => product = input /\ product \notin {"unusable", "untagged"}
<1>1. i \in 1..9
  BY Phases
<1>2. CASE i = 1
  <2>1. PhaseNames[i] = "tiff"
    BY <1>2 DEF PhaseNames
  <2>2. QED
    BY <1>2, <2>1 DEF PhaseBody, _tiff
<1>3. CASE i \in 3..7
  <2>1. PhaseNames[i] \in {"pto", "topmost", "baseline", "optimize", "stitch"}
    BY <1>3 DEF PhaseNames
  <2>2. PhaseBody(i, input) = Handed(input)
    BY <2>1 DEF PhaseBody, _pto, pto_cp_topmost, pto_horizontal_baseline, pto_optvars,
                _stitch, pto_stitch_exr
  <2>3. QED
    BY <1>3, <2>2 DEF Handed
<1>7. CASE i = 2
  <2>1. PhaseNames[i] = "fused"
    BY <1>7 DEF PhaseNames
  <2>2. product \in UNION {{k, "part", "unusable"} : k \in Handed(input)}
    BY <2>1 DEF PhaseBody, _fused
  <2>3. PICK k \in Handed(input) : product \in {k, "part", "unusable"}
    BY <2>2
  <2>4. QED
    BY <1>7, <2>3 DEF Handed
<1>4. CASE i = 8
  <2>1. PhaseNames[i] = "render"
    BY <1>4 DEF PhaseNames
  <2>2. QED
    BY <1>4, <2>1 DEF PhaseBody, _render, Handed
<1>5. CASE i = 9
  <2>1. PhaseNames[i] = "pyramid"
    BY <1>5 DEF PhaseNames
  <2>2. QED
    BY <1>5, <2>1 DEF PhaseBody, _pyramid, exr_to_webp_pyramid, Handed
<1>6. QED
  BY <1>1, <1>2, <1>3, <1>4, <1>5, <1>7

LEMMA Partly == PartlyUsable = {1, 2, 6}
<1>1. \A i \in Indices : PhaseNames[i] = "tiff" <=> i = 1
  BY DEF Indices, PhaseNames
<1>2. \A i \in Indices : PhaseNames[i] = "fused" <=> i = 2
  BY DEF Indices, PhaseNames
<1>3. \A i \in Indices : PhaseNames[i] = "optimize" <=> i = 6
  BY DEF Indices, PhaseNames
<1>4. Number("tiff") = 1 /\ Number("fused") = 2 /\ Number("optimize") = 6
  BY Phases, <1>1, <1>2, <1>3 DEF Number
<1>5. QED
  BY <1>4 DEF PartlyUsable

\* What a phase leaves behind that does not get to its end.
LEMMA Leftovers ==
    ASSUME NEW i \in Indices, NEW left \in LeftBehind(i)
    PROVE  left \in Kept(i) \ {"none", "wrong"} /\ (i = 9 => left = "part")
<1>1. i \in 1..9
  BY Phases
<1>2. CASE i \in 1..6
  <2>1. PhaseNames[i] \notin {"stitch", "render", "pyramid"}
    BY <1>2 DEF PhaseNames
  <2>2. left \in {"unusable", "part"}
    BY <2>1 DEF LeftBehind
  <2>3. QED
    BY <1>2, <2>2 DEF Kept
<1>3. CASE i = 7
  <2>1. PhaseNames[i] = "stitch"
    BY <1>3 DEF PhaseNames
  <2>2. QED
    BY <1>3, <2>1 DEF LeftBehind, linearize, Kept
<1>4. CASE i = 8
  <2>1. PhaseNames[i] = "render"
    BY <1>4 DEF PhaseNames
  <2>2. QED
    BY <1>4, <2>1 DEF LeftBehind, set_encoding, Kept
<1>5. CASE i = 9
  <2>1. PhaseNames[i] = "pyramid"
    BY <1>5 DEF PhaseNames
  <2>2. left = "part"
    BY <1>5, <2>1, Partly DEF LeftBehind
  <2>3. "part" \in Kept(9)
    BY DEF Kept
  <2>4. QED
    BY <1>5, <2>2, <2>3
<1>6. QED
  BY <1>1, <1>2, <1>3, <1>4, <1>5

LEMMA KeptIsOutput ==
    \A i \in Indices :
        Kept(i) \subseteq Outputs /\ {"none", "unusable", "part", "whole"} \subseteq Kept(i)
  BY Phases DEF Kept, Outputs

LEMMA PanoBegins == PanoInit => PanoInv
  BY Phases, KeptIsOutput, PanoAssumption
     DEF PanoInit, PanoInv, PanoShape, PanoPast, OfKind, Fresh, Unaccepted, Plain, RunsOnWhole, Contiguous,
         Reached, WrongExplained, WrongComesFrom, MadeSoFar, DoneIsSound, Outputs

\* What goes on to the next phase, or ends the run.
LEMMA OnwardMoves ==
    ASSUME PanoShape, stage > 0, redoing = 0, suffix = "none", Onward
    PROVE  /\ redoing' = 0 /\ suffix' = "none" /\ stage' \in 0..9 /\ stopAfter' \in 0..9
           /\ stage' > 0 => stage' = stage + 1 /\ exitCode' = exitCode
           /\ stage' = 0 /\ exitCode' = "done" => stage = 9 /\ Sound
<1>1. stage \in 0..9 /\ stopAfter \in 0..9 /\ LastPhase = 9
  BY Phases DEF PanoShape
<1>2. CASE stage = stopAfter
  BY <1>1, <1>2 DEF Onward, ExitsWith
<1>3. CASE stage # stopAfter /\ stage = LastPhase
  BY <1>1, <1>3 DEF Onward, ExitsWith
<1>4. CASE stage # stopAfter /\ stage # LastPhase
  BY <1>1, <1>4 DEF Onward
<1>5. QED
  BY <1>2, <1>3, <1>4

LEMMA StartPipelineKeeps ==
    ASSUME PanoInv, StartPipeline
    PROVE  PanoInv'
<1>1. /\ stage' = 1 /\ exitCode' = "none" /\ redoing' \in 0..9 /\ suffix' = "none" /\ stopAfter' \in 0..9
      /\ stage = 0 /\ ~ past.gap /\ redoing = 0
      /\ UNCHANGED <<out, staging, outdated, xmp, past>>
  BY Phases, PanoAssumption DEF StartPipeline, PanoInv, PanoShape, RunsOnWhole
<1>2. (PanoShape /\ OfKind /\ Fresh /\ Unaccepted)'
  BY <1>1 DEF PanoInv, PanoShape, OfKind, Fresh, Unaccepted, Lacking
<1>3. (RunsOnWhole /\ MadeSoFar /\ DoneIsSound)'
  BY <1>1, Phases DEF RunsOnWhole, MadeSoFar, DoneIsSound
<1>4. (Contiguous /\ WrongExplained)'
  BY <1>1 DEF PanoInv, Contiguous, WrongExplained, WrongComesFrom, Reached
<1>5. QED
  BY <1>1, <1>2, <1>3, <1>4 DEF PanoInv

LEMMA RedoFinalKeeps ==
    ASSUME PanoInv, RedoFinal
    PROVE  PanoInv'
<1>1. PICK r \in 1..9 : r = redoing /\ r \in Indices
  BY Phases DEF PanoInv, PanoShape, RedoFinal
<1>2. /\ out' = [out EXCEPT ![r] = "none"] /\ outdated' = [outdated EXCEPT ![r] = FALSE]
      /\ suffix' = "tmp"
      /\ UNCHANGED <<staging, stage, redoing, stopAfter, xmp, exitCode, past>>
  BY <1>1, Phases DEF RedoFinal
<1>3. /\ \A i \in Indices : out'[i] = IF i = r THEN "none" ELSE out[i]
      /\ \A i \in Indices : ~ outdated'[i]
  BY <1>1, <1>2 DEF PanoInv, PanoShape, Fresh
<1>4. PanoShape'
  <2>1. "none" \in Outputs
    BY DEF Outputs
  <2>2. out' \in [Indices -> Outputs] /\ outdated' \in [Indices -> BOOLEAN]
    BY <1>1, <1>2, <2>1 DEF PanoInv, PanoShape
  <2>3. QED
    BY <1>2, <2>2 DEF PanoInv, PanoShape
<1>5. (OfKind /\ Fresh /\ Unaccepted)'
  BY <1>2, <1>3, KeptIsOutput, Phases DEF PanoInv, OfKind, Fresh, Unaccepted, Lacking, Plain
<1>6. stage = 1 /\ ~ past.gap
  BY <1>1 DEF PanoInv, RunsOnWhole
<1>7. (RunsOnWhole /\ MadeSoFar /\ DoneIsSound)'
  BY <1>1, <1>2, <1>3, <1>6, Phases DEF PanoInv, RunsOnWhole, MadeSoFar, DoneIsSound
<1>8. Contiguous'
  <2>1. SUFFICES ASSUME NEW i \in Indices, NEW j \in Indices, i < j, out'[i] = "none", Reached(j)'
                 PROVE  out'[j] = "none" /\ staging'[j] = "none"
    BY DEF Contiguous
  <2>2. Reached(j) /\ i # r /\ j # r
    BY <1>1, <1>2, <2>1, Phases DEF Reached
  <2>3. QED
    BY <1>2, <1>3, <1>6, <2>1, <2>2 DEF PanoInv, Contiguous
<1>9. WrongExplained'
  <2>1. ASSUME NEW i \in Indices, NEW j \in Indices, NEW source, j = i + 1,
               WrongComesFrom(i, j, source)
        PROVE  WrongComesFrom(i, j, source)'
    BY <1>1, <1>2, <1>3, <2>1 DEF WrongComesFrom
  <2>2. QED
    BY <1>2, <2>1, Phases DEF PanoInv, WrongExplained
<1>10. QED
  BY <1>2, <1>4, <1>5, <1>7, <1>8, <1>9 DEF PanoInv

LEMMA RedoStagingKeeps ==
    ASSUME PanoInv, RedoStaging
    PROVE  PanoInv'
<1>1. PICK r \in 1..9 : r = redoing /\ r \in Indices
  BY Phases DEF PanoInv, PanoShape, RedoStaging
<1>2. /\ staging' = [staging EXCEPT ![r] = "none"] /\ suffix' = "none" /\ suffix = "tmp"
      /\ redoing' = IF r = 9 THEN 0 ELSE r + 1
      /\ UNCHANGED <<out, outdated, stage, stopAfter, xmp, exitCode, past>>
  BY <1>1, Phases DEF RedoStaging
<1>3. /\ \A i \in Indices : staging'[i] = IF i = r THEN "none" ELSE staging[i]
      /\ out[r] = "none"
  BY <1>1, <1>2 DEF PanoInv, PanoShape, RunsOnWhole
<1>4. PanoShape'
  <2>1. "none" \in Outputs
    BY DEF Outputs
  <2>2. staging' \in [Indices -> Outputs]
    BY <1>1, <1>2, <2>1 DEF PanoInv, PanoShape
  <2>3. redoing' \in 0..9
    BY <1>1, <1>2
  <2>4. QED
    BY <1>2, <2>2, <2>3 DEF PanoInv, PanoShape
<1>5. (OfKind /\ Fresh /\ Unaccepted)'
  BY <1>2, <1>3, KeptIsOutput, Phases DEF PanoInv, OfKind, Fresh, Unaccepted, Lacking
<1>6. stage = 1 /\ ~ past.gap
  BY <1>1 DEF PanoInv, RunsOnWhole
<1>7. (RunsOnWhole /\ MadeSoFar /\ DoneIsSound)'
  BY <1>2, <1>6, Phases DEF PanoInv, RunsOnWhole, MadeSoFar, DoneIsSound
<1>8. \A j \in Indices : Reached(j)' => j = r \/ Reached(j)
  BY <1>1, <1>2, Phases DEF Reached
<1>9. Contiguous'
  <2>1. SUFFICES ASSUME NEW i \in Indices, NEW j \in Indices, i < j, out'[i] = "none", Reached(j)'
                 PROVE  out'[j] = "none" /\ staging'[j] = "none"
    BY DEF Contiguous
  <2>2. CASE j = r
    BY <1>2, <1>3, <2>2
  <2>3. CASE j # r
    <3>1. Reached(j) /\ i # r
      BY <1>1, <1>8, <2>1, <2>3, Phases DEF Reached
    <3>2. QED
      BY <1>2, <1>3, <1>6, <2>1, <2>3, <3>1 DEF PanoInv, Contiguous
  <2>4. QED
    BY <2>2, <2>3
<1>10. WrongExplained'
  <2>1. ASSUME NEW i \in Indices, NEW j \in Indices, NEW source, j = i + 1,
               WrongComesFrom(i, j, source)
        PROVE  WrongComesFrom(i, j, source)'
    <3>1. CASE j = r
      <4>1. out'[j] = "none" /\ staging'[j] = "none"
        BY <1>2, <1>3, <3>1
      <4>2. QED
        BY <4>1 DEF WrongComesFrom
    <3>2. CASE i = r
      <4>1. redoing' = j /\ out'[i] = "none"
        BY <1>1, <1>2, <1>3, <2>1, <3>2, Phases
      <4>2. QED
        BY <4>1 DEF WrongComesFrom
    <3>3. CASE i # r /\ j # r
      BY <1>1, <1>2, <1>3, <2>1, <3>3 DEF WrongComesFrom
    <3>4. QED
      BY <3>1, <3>2, <3>3
  <2>2. QED
    BY <1>2, <2>1, Phases DEF PanoInv, WrongExplained
<1>11. QED
  BY <1>2, <1>4, <1>5, <1>7, <1>9, <1>10 DEF PanoInv

\* Outside of --redo nothing is half removed.
LEMMA NotHalfRemoved == ASSUME PanoInv, redoing = 0 PROVE suffix = "none"
  BY DEF PanoInv, PanoShape, RunsOnWhole

LEMMA SkipPhaseKeeps ==
    ASSUME PanoInv, SkipPhase
    PROVE  PanoInv'
<1>1. /\ stage > 0 /\ redoing = 0 /\ out[stage] # "none" /\ stage \in 1..9
      /\ UNCHANGED <<out, staging, outdated, xmp, past>>
  BY DEF PanoInv, PanoShape, SkipPhase
<1>2. /\ redoing' = 0 /\ suffix' = "none" /\ stage' \in 0..9 /\ stopAfter' \in 0..9
      /\ stage' > 0 => stage' = stage + 1 /\ exitCode' = exitCode
      /\ stage' = 0 /\ exitCode' = "done" => stage = 9 /\ Sound
  BY <1>1, OnwardMoves, NotHalfRemoved DEF PanoInv, SkipPhase
<1>3. (PanoShape /\ OfKind /\ Fresh /\ Unaccepted)'
  BY <1>1, <1>2 DEF PanoInv, PanoShape, OfKind, Fresh, Unaccepted, Lacking
<1>4. RunsOnWhole' /\ MadeSoFar'
  BY <1>1, <1>2, Phases DEF PanoInv, RunsOnWhole, MadeSoFar
<1>5. DoneIsSound'
  BY <1>1, <1>2, Phases DEF PanoInv, DoneIsSound, Sound
<1>6. (Contiguous /\ WrongExplained)'
  BY <1>1, <1>2 DEF PanoInv, Contiguous, WrongExplained, WrongComesFrom, Reached
<1>7. QED
  BY <1>1, <1>3, <1>4, <1>5, <1>6 DEF PanoInv

\* What has happened to the directories, but for editing.
PastSince == [hands : Nat, accepted : {past.accepted}, gap : {past.gap}, edited : BOOLEAN,
              warned : {past.warned}, torn : {past.torn}]

\* A step that ends the run, or is taken while none runs, and leaves the outputs.
LEMMA AtRestKeeps ==
    ASSUME PanoInv, stage' = 0, redoing' = 0, suffix' = "none", stopAfter' \in 0..9, exitCode' # "done",
           redoing = 0,
           UNCHANGED <<out, outdated>>,
           staging' \in [Indices -> Outputs], \A i \in Indices : staging'[i] \in Kept(i),
           past' \in PastSince, past'.edited => xmp' = "edited",
           staging'[9] = "unusable" => staging[9] = "unusable",
           \A i \in Indices : staging'[i] \notin {staging[i], "none"} =>
               /\ \A j \in Indices : j < i => out[j] # "none"
               /\ staging'[i] = "wrong" => (i = 8 => out[7] = "gamma") /\ (i = 9 => out[8] = "wrong")
    PROVE  PanoInv'
<1>0. /\ past' \in PanoPast /\ past'.gap = past.gap /\ past'.accepted = past.accepted
      /\ past'.warned = past.warned /\ past'.torn = past.torn
  BY DEF PanoInv, PanoShape, PanoPast, PastSince
<1>1. (PanoShape /\ OfKind /\ Fresh /\ Unaccepted)'
  BY <1>0 DEF PanoInv, PanoShape, OfKind, Fresh, Unaccepted, Lacking
<1>2. (RunsOnWhole /\ MadeSoFar /\ DoneIsSound)'
  BY DEF RunsOnWhole, MadeSoFar, DoneIsSound
<1>3. Contiguous'
  BY <1>0 DEF PanoInv, Contiguous, Reached
<1>5. WrongExplained'
  <2>1. SUFFICES ASSUME ~ past.gap, ~ past.torn
                 PROVE  (WrongComesFrom(7, 8, "gamma") /\ WrongComesFrom(8, 9, "wrong"))'
    BY <1>0 DEF WrongExplained
  <2>2. /\ out[8] = "wrong" \/ staging[8] = "wrong" => out[7] = "gamma"
        /\ out[9] = "wrong" \/ staging[9] = "wrong" => out[8] = "wrong"
    BY <2>1 DEF PanoInv, WrongExplained, WrongComesFrom
  <2>3. staging'[8] = "wrong" => out[7] = "gamma"
    BY <2>2, Phases
  <2>4. staging'[9] = "wrong" => out[8] = "wrong"
    BY <2>2, Phases
  <2>5. WrongComesFrom(7, 8, "gamma")'
    BY <2>2, <2>3 DEF WrongComesFrom
  <2>6. WrongComesFrom(8, 9, "wrong")'
    BY <2>2, <2>4 DEF WrongComesFrom
  <2>7. QED
    BY <2>5, <2>6
<1>6. QED
  BY <1>1, <1>2, <1>3, <1>5 DEF PanoInv

LEMMA RefusePhaseKeeps ==
    ASSUME PanoInv, RefusePhase
    PROVE  PanoInv'
<1>1. past' \in PastSince
  BY DEF RefusePhase, PanoInv, PanoShape, PanoPast, PastSince
<1>2. QED
  BY <1>1, AtRestKeeps DEF RefusePhase, ExitsWith, PanoInv, PanoShape, OfKind

LEMMA EditXmpKeeps ==
    ASSUME PanoInv, EditXmp
    PROVE  PanoInv'
<1>1. past' = [past EXCEPT !.edited = TRUE] /\ xmp' = "edited"
  BY DEF EditXmp
<1>2. past' \in PastSince
  BY <1>1 DEF PanoInv, PanoShape, PanoPast, PastSince
<1>3. redoing = 0 /\ stage = 0 /\ suffix = "none"
  BY DEF EditXmp, PanoInv, PanoShape, RunsOnWhole
<1>4. QED
  BY <1>1, <1>2, <1>3, AtRestKeeps DEF EditXmp, PanoInv, PanoShape, OfKind

LEMMA RetryKeeps ==
    ASSUME PanoInv, NEW i \in Indices, Retry(i)
    PROVE  PanoInv'
<1>1. \A j \in Indices : staging'[j] = IF j = i THEN "none" ELSE staging[j]
  BY DEF Retry, PanoInv, PanoShape
<1>2. staging' \in [Indices -> Outputs] /\ \A j \in Indices : staging'[j] \in Kept(j)
  BY <1>1, KeptIsOutput DEF Retry, PanoInv, PanoShape, OfKind
<1>3. redoing = 0 /\ stage = 0 /\ suffix = "none"
  BY DEF Retry, PanoInv, PanoShape, RunsOnWhole
<1>4. past' \in PastSince
  BY DEF Retry, PanoInv, PanoShape, PanoPast, PastSince
<1>5. QED
  BY <1>1, <1>2, <1>3, <1>4, AtRestKeeps, Phases DEF Retry, PanoInv, PanoShape

\* What the phase at hand is given: there, and of the kind that it can be.
LEMMA InputIsThere ==
    ASSUME PanoInv, Works
    PROVE  /\ stage \in Indices /\ redoing = 0 /\ ~ past.gap
           /\ out[stage] = "none" /\ staging[stage] = "none"
           /\ Input(stage) \in Outputs \ {"none"}
           /\ stage = 1 => Input(stage) = "whole"
           /\ stage > 1 => stage - 1 \in Indices /\ Input(stage) = out[stage - 1]
                           /\ Input(stage) \in Kept(stage - 1)
           /\ past.edited => xmp' = "edited"
<1>1. /\ stage \in Indices /\ redoing = 0 /\ ~ past.gap /\ stage \in 1..9
      /\ out[stage] = "none" /\ staging[stage] = "none"
  BY Phases DEF Works, PanoInv, PanoShape, RunsOnWhole
<1>2. past.edited => xmp' = "edited"
  BY DEF Works, PanoInv, _ensure_render_workspace
<1>3. CASE stage = 1
  BY <1>1, <1>2, <1>3 DEF Input, Outputs
<1>4. CASE stage # 1
  <2>1. stage - 1 \in Indices /\ Input(stage) = out[stage - 1] /\ out[stage - 1] # "none"
    BY <1>1, <1>4, Phases DEF Input, PanoInv, MadeSoFar
  <2>2. QED
    BY <1>1, <1>2, <1>4, <2>1 DEF PanoInv, PanoShape, OfKind
<1>5. QED
  BY <1>3, <1>4

\* What the phase at hand makes is of its kind, and wrong for one reason.
LEMMA ProductFits ==
    ASSUME PanoInv, Works, NEW product \in PhaseBody(stage, Input(stage))
    PROVE  /\ product \in Kept(stage) \ {"none"}
           /\ product = "wrong" => (stage = 8 => out[7] = "gamma") /\ (stage = 9 => out[8] = "wrong")
           /\ (stage > 1 => Input(stage) = "whole") => product = "whole" \/ stage = 2
           /\ stage > 1 /\ Input(stage) \in Plain => product \in Plain
           /\ stage = 1 => product \in Plain
           /\ stage = 9 => product # "unusable"
<1>1. PICK i \in 1..9, input \in Outputs \ {"none"} : i = stage /\ input = Input(stage)
  BY InputIsThere, Phases
<1>2. /\ i \in Indices
      /\ i = 1 => input = "whole"
      /\ i > 1 => i - 1 \in Indices /\ input = out[i - 1] /\ input \in Kept(i - 1)
  BY <1>1, InputIsThere
<1>3. /\ i = 1 => product = "whole"
      /\ i = 2 => product \in {input, "part", "unusable"}
      /\ i \in 3..7 => product = input /\ product # "unusable"
      /\ i = 8 => \/ product = "wrong" /\ input = "gamma"
                  \/ product = "whole" /\ input = "untagged"
                  \/ product = input /\ input \notin {"unusable", "gamma", "untagged"}
      /\ i = 9 => product = input /\ product \notin {"unusable", "untagged"}
  BY <1>1, <1>2, Bodies
<1>4. CASE i = 1
  BY <1>1, <1>3, <1>4 DEF Kept, Plain
<1>5. CASE i \in 2..7
  <2>1. product \in {"unusable", "part", "whole"}
    BY <1>1, <1>2, <1>3, <1>5 DEF Kept
  <2>2. QED
    BY <1>1, <1>3, <1>5, <2>1 DEF Kept, Plain
<1>6. CASE i = 8
  <2>1. input \in {"unusable", "part", "whole", "gamma", "untagged"} /\ input = out[7]
    BY <1>1, <1>2, <1>6 DEF Kept
  <2>2. product \in {"part", "whole", "wrong"} /\ (product = "wrong" => out[7] = "gamma")
    BY <1>3, <1>6, <2>1
  <2>3. QED
    BY <1>1, <1>3, <1>6, <2>1, <2>2 DEF Kept, Plain
<1>7. CASE i = 9
  <2>1. input \in {"unusable", "part", "whole", "untagged", "wrong"} /\ input = out[8]
    BY <1>1, <1>2, <1>7 DEF Kept
  <2>2. product \in {"part", "whole", "wrong"} /\ (product = "wrong" => out[8] = "wrong")
    BY <1>3, <1>7, <2>1
  <2>3. QED
    BY <1>1, <1>3, <1>7, <2>1, <2>2 DEF Kept, Plain
<1>8. QED
  BY <1>4, <1>5, <1>6, <1>7

LEMMA BodyFailsKeeps ==
    ASSUME PanoInv, BodyFails
    PROVE  PanoInv'
<1>1. PICK left \in LeftBehind(stage) \cup PhaseBody(stage, Input(stage)) :
          staging' = [staging EXCEPT ![stage] = left]
  BY DEF BodyFails
<1>2. Works /\ stage' = 0 /\ redoing' = 0 /\ suffix' = "none" /\ stopAfter' = 0 /\ exitCode' = "failed"
      /\ UNCHANGED <<out, outdated, past>>
  BY DEF BodyFails, ExitsWith
<1>3. stage \in Indices /\ redoing = 0
  BY <1>2, InputIsThere
<1>4. /\ left \in Kept(stage)
      /\ left = "wrong" => (stage = 8 => out[7] = "gamma") /\ (stage = 9 => out[8] = "wrong")
      /\ stage = 9 => left # "unusable"
  BY <1>1, <1>2, <1>3, Leftovers, ProductFits
<1>5. \A j \in Indices : staging'[j] = IF j = stage THEN left ELSE staging[j]
  BY <1>1 DEF PanoInv, PanoShape
<1>6. staging' \in [Indices -> Outputs] /\ \A j \in Indices : staging'[j] \in Kept(j)
  BY <1>1, <1>3, <1>4, <1>5, KeptIsOutput DEF PanoInv, PanoShape, OfKind
<1>7. \A j \in Indices : j < stage => out[j] # "none"
  BY <1>2 DEF Works, PanoInv, MadeSoFar
<1>8. past.edited => xmp' = "edited"
  BY <1>2, InputIsThere
<1>9. past' \in PastSince
  BY <1>2 DEF PanoInv, PanoShape, PanoPast, PastSince
<1>10. QED
  <2>1. staging'[9] = "unusable" => staging[9] = "unusable"
    BY <1>4, <1>5, Phases
  <2>2. QED
    BY <1>2, <1>3, <1>4, <1>5, <1>6, <1>7, <1>8, <1>9, <2>1, AtRestKeeps

LEMMA CommitPhaseKeeps ==
    ASSUME PanoInv, CommitPhase
    PROVE  PanoInv'
<1>1. PICK product \in PhaseBody(stage, Input(stage)) :
          /\ out' = [out EXCEPT ![stage] = product]
          /\ past' = [past EXCEPT !.warned =
                        @ \/ (PhaseNames[stage] = "fused" /\ product # Input(stage))]
  BY DEF CommitPhase
<1>2. /\ stage \in Indices /\ redoing = 0 /\ ~ past.gap /\ stage \in 1..9
      /\ out[stage] = "none" /\ staging[stage] = "none"
      /\ past.edited => xmp' = "edited"
  BY InputIsThere, Phases DEF CommitPhase
<1>3. /\ product \in Kept(stage) \ {"none"}
      /\ product = "wrong" => (stage = 8 => out[7] = "gamma") /\ (stage = 9 => out[8] = "wrong")
      /\ (stage > 1 => Input(stage) = "whole") => product = "whole" \/ stage = 2
      /\ stage > 1 /\ Input(stage) \in Plain => product \in Plain
      /\ stage = 1 => product \in Plain
      /\ stage = 9 => product # "unusable"
  BY ProductFits DEF CommitPhase
<1>4. \A i \in Indices : out'[i] = IF i = stage THEN product ELSE out[i]
  BY <1>1 DEF PanoInv, PanoShape
<1>5. \A i \in Indices : i > stage => out[i] = "none" /\ staging[i] = "none"
  BY <1>2 DEF PanoInv, Contiguous, Reached
<1>6. /\ redoing' = 0 /\ suffix' = "none" /\ stage' \in 0..9 /\ stopAfter' \in 0..9
      /\ stage' > 0 => stage' = stage + 1 /\ exitCode' = exitCode
      /\ stage' = 0 /\ exitCode' = "done" => stage = 9 /\ Sound
  BY <1>2, OnwardMoves, NotHalfRemoved DEF PanoInv, CommitPhase
<1>7. /\ staging' = staging
      /\ past' \in PanoPast /\ past'.gap = past.gap /\ past'.accepted = past.accepted
      /\ past'.torn = past.torn /\ past'.edited = past.edited
      /\ (past'.warned <=> past.warned \/ (stage = 2 /\ product # Input(stage)))
  <2>1. PhaseNames[stage] = "fused" <=> stage = 2
    BY <1>2 DEF PhaseNames
  <2>2. PICK h \in Nat, a \in BOOLEAN, g \in BOOLEAN, e \in BOOLEAN, w \in BOOLEAN, t \in BOOLEAN,
             v \in BOOLEAN :
            /\ past = [hands |-> h, accepted |-> a, gap |-> g, edited |-> e, warned |-> w, torn |-> t]
            /\ v <=> w \/ (stage = 2 /\ product # Input(stage))
    BY DEF PanoInv, PanoShape, PanoPast
  <2>3. past' = [hands |-> h, accepted |-> a, gap |-> g, edited |-> e, warned |-> v, torn |-> t]
    BY <1>1, <2>1, <2>2
  <2>4. staging' = staging
    BY DEF CommitPhase
  <2>5. QED
    BY <2>2, <2>3, <2>4 DEF PanoPast
<1>8. outdated' \in [Indices -> BOOLEAN] /\ Fresh'
  <2>1. outdated' = [j \in Indices |-> \/ j > stage /\ out[j] # "none"
                                       \/ j = stage /\ j > 1 /\ outdated[j - 1]
                                       \/ j < stage /\ outdated[j]]
    BY DEF CommitPhase
  <2>2. \A j \in Indices : ~ outdated[j] /\ (j > 1 => ~ outdated[j - 1])
    BY Phases DEF PanoInv, Fresh
  <2>3. \A j \in Indices : ~ (\/ j > stage /\ out[j] # "none"
                              \/ j = stage /\ j > 1 /\ outdated[j - 1]
                              \/ j < stage /\ outdated[j])
    BY <1>5, <2>2
  <2>4. QED
    BY <2>1, <2>3 DEF Fresh
<1>9. PanoShape' /\ OfKind'
  <2>1. out' \in [Indices -> Outputs] /\ \A i \in Indices : out'[i] \in Kept(i)
    BY <1>1, <1>2, <1>3, <1>4, KeptIsOutput DEF PanoInv, PanoShape, OfKind
  <2>2. QED
    BY <1>6, <1>7, <1>8, <2>1 DEF PanoInv, PanoShape, OfKind
<1>10. Unaccepted'
  <2>1. ~ Lacking' => ~ Lacking /\ (stage = 2 => product = Input(stage))
    BY <1>7 DEF Lacking
  <2>2. ~ Lacking /\ stage > 1 => Input(stage) = "whole"
    BY <1>2, InputIsThere, Phases DEF PanoInv, Unaccepted, CommitPhase
  <2>3. ~ past.accepted /\ stage > 1 => Input(stage) \in Plain
    BY <1>2, InputIsThere, Phases DEF PanoInv, Unaccepted, CommitPhase
  <2>4. ~ Lacking' => product = "whole"
    BY <1>2, <1>3, <2>1, <2>2
  <2>5. ~ past.accepted => product \in Plain
    BY <1>2, <1>3, <2>3
  <2>6. /\ ~ Lacking' => \A i \in Indices : out'[i] \in {"none", "whole"}
        /\ ~ past.accepted => \A i \in Indices : out'[i] \in Plain
    BY <1>4, <2>1, <2>4, <2>5 DEF PanoInv, Unaccepted
  <2>7. ~ past.torn => out'[9] # "unusable" /\ staging'[9] # "unusable"
    BY <1>3, <1>4, <1>7, Phases DEF PanoInv, Unaccepted
  <2>8. QED
    BY <1>7, <2>6, <2>7 DEF Unaccepted
<1>11. RunsOnWhole' /\ MadeSoFar'
  BY <1>2, <1>3, <1>4, <1>6, <1>7, Phases DEF PanoInv, RunsOnWhole, MadeSoFar
<1>12. DoneIsSound'
  <2>1. exitCode # "done"
    BY <1>2 DEF PanoInv, DoneIsSound
  <2>2. CASE exitCode' = "done"
    <3>1. stage = 9 /\ Sound /\ stage' = 0
      BY <1>6, <2>1, <2>2
    <3>2. out'[9] # "none" /\ out'[7] \notin {"gamma", "untagged"}
      BY <1>3, <1>4, <3>1, Phases DEF Sound
    <3>3. QED
      BY <1>6, <3>1, <3>2 DEF DoneIsSound
  <2>3. QED
    BY <2>2 DEF DoneIsSound
<1>13. Contiguous'
  <2>1. \A i \in Indices : i < stage => out[i] # "none"
    BY <1>2 DEF PanoInv, MadeSoFar
  <2>2. \A i, j \in Indices : i < j /\ out'[i] = "none" => i > stage
    BY <1>2, <1>3, <1>4, <2>1, Phases
  <2>3. QED
    BY <1>4, <1>5, <1>7, <1>2, <2>2, Phases DEF Contiguous
<1>14. WrongExplained'
  <2>0. SUFFICES ASSUME ~ past.torn PROVE (WrongComesFrom(7, 8, "gamma") /\ WrongComesFrom(8, 9, "wrong"))'
    BY <1>7 DEF WrongExplained
  <2>1. /\ out[8] = "wrong" \/ staging[8] = "wrong" => out[7] = "gamma"
        /\ out[9] = "wrong" \/ staging[9] = "wrong" => out[8] = "wrong"
    BY <1>2, <2>0 DEF PanoInv, WrongExplained, WrongComesFrom
  <2>2. /\ out'[7] = IF 7 = stage THEN product ELSE out[7]
        /\ out'[8] = IF 8 = stage THEN product ELSE out[8]
        /\ out'[9] = IF 9 = stage THEN product ELSE out[9]
        /\ staging'[8] = staging[8] /\ staging'[9] = staging[9]
    BY <1>4, <1>7, Phases
  <2>3. /\ stage < 8 => out[8] # "wrong" /\ staging[8] # "wrong"
        /\ stage < 9 => out[9] # "wrong" /\ staging[9] # "wrong"
        /\ staging[stage] # "wrong"
    BY <1>2, <1>5, Phases
  <2>4. out'[8] = "wrong" \/ staging'[8] = "wrong" => out'[7] = "gamma"
    BY <1>2, <1>3, <2>1, <2>2, <2>3
  <2>5. out'[9] = "wrong" \/ staging'[9] = "wrong" => out'[8] = "wrong"
    BY <1>2, <1>3, <2>1, <2>2, <2>3
  <2>6. WrongComesFrom(7, 8, "gamma")' /\ WrongComesFrom(8, 9, "wrong")'
    BY <2>4, <2>5 DEF WrongComesFrom
  <2>7. QED
    BY <2>6
<1>15. QED
  BY <1>2, <1>7, <1>8, <1>9, <1>10, <1>11, <1>12, <1>13, <1>14 DEF PanoInv

\* What takes the user's hand, or stops --redo, and looks whether there is a gap.
LEMMA LookedOverKeeps ==
    ASSUME PanoInv, stage' = 0, redoing' = 0, suffix' = "none", stopAfter' \in 0..9, exitCode' # "done",
           xmp' = xmp, past' \in PanoPast,
           past'.gap <=> past.gap \/ Gap(out', staging'),
           past'.accepted = past.accepted, past'.warned = past.warned, past'.edited = past.edited,
           past.torn => past'.torn,
           out' \in [Indices -> Outputs], \A i \in Indices : out'[i] \in Kept(i),
           staging' \in [Indices -> Outputs], \A i \in Indices : staging'[i] \in Kept(i),
           \A i \in Indices : out'[i] \in {out[i], "none", "unusable", "part"},
           ~ past'.torn => staging' = staging /\ \A i \in Indices : out'[i] \in {out[i], "none"},
           outdated' \in [Indices -> BOOLEAN], \A i \in Indices : ~ outdated'[i]
    PROVE  PanoInv'
<1>1. (PanoShape /\ OfKind /\ Fresh)'
  BY DEF PanoInv, PanoShape, OfKind, Fresh
<1>2. Unaccepted'
  <2>1. ~ Lacking' => ~ Lacking /\ ~ past'.torn
    BY DEF Lacking
  <2>2. ~ Lacking' => \A i \in Indices : out'[i] \in {"none", "whole"}
    BY <2>1 DEF PanoInv, Unaccepted
  <2>3. ~ past.accepted => \A i \in Indices : out'[i] \in Plain
    BY DEF PanoInv, Unaccepted, Plain
  <2>4. ~ past'.torn => out'[9] # "unusable" /\ staging'[9] # "unusable"
    BY Phases DEF PanoInv, Unaccepted
  <2>5. QED
    BY <2>2, <2>3, <2>4 DEF Unaccepted
<1>4. (RunsOnWhole /\ MadeSoFar /\ DoneIsSound)'
  BY DEF RunsOnWhole, MadeSoFar, DoneIsSound
<1>5. Contiguous'
  BY DEF Contiguous, Gap
<1>6. WrongExplained'
  <2>1. SUFFICES ASSUME ~ past.gap, ~ Gap(out', staging'), ~ past'.torn
                 PROVE  WrongComesFrom(7, 8, "gamma")' /\ WrongComesFrom(8, 9, "wrong")'
    BY DEF WrongExplained
  <2>2. WrongComesFrom(7, 8, "gamma") /\ WrongComesFrom(8, 9, "wrong") /\ staging' = staging
    BY <2>1 DEF PanoInv, WrongExplained
  <2>3. /\ out'[7] \in {out[7], "none"} /\ out'[8] \in {out[8], "none"}
        /\ out'[9] \in {out[9], "none"}
        /\ out'[7] = "none" => out'[8] = "none" /\ staging[8] = "none"
        /\ out'[8] = "none" => out'[9] = "none" /\ staging[9] = "none"
    BY <2>1, <2>2, Phases DEF Gap
  <2>4. WrongComesFrom(7, 8, "gamma")'
    BY <2>2, <2>3 DEF WrongComesFrom
  <2>5. WrongComesFrom(8, 9, "wrong")'
    BY <2>2, <2>3 DEF WrongComesFrom
  <2>6. QED
    BY <2>4, <2>5
<1>7. (past.edited => xmp = "edited")'
  BY DEF PanoInv
<1>8. QED
  BY <1>1, <1>2, <1>4, <1>5, <1>6, <1>7 DEF PanoInv

\* What a removal leaves is less than what was there.
LEMMA RemnantsAreLess ==
    ASSUME NEW i \in Indices, NEW was \in Kept(i), NEW left \in Remnants(i, was)
    PROVE  left \in {was, "unusable", "part"} /\ left \in Kept(i)
<1>1. left \in {was, "unusable", "part"} /\ (was = "none" => left = "none")
  BY DEF Remnants
<1>2. QED
  BY <1>1, KeptIsOutput

LEMMA InterruptedKeeps ==
    ASSUME PanoInv, Interrupted
    PROVE  PanoInv'
<1>1. PICK r \in Indices : r = redoing
  BY Phases DEF PanoInv, PanoShape, Interrupted
<1>2. PICK left \in Remnants(r, IF suffix = "none" THEN out[r] ELSE staging[r]) :
          /\ out' = IF suffix = "none" THEN [out EXCEPT ![r] = left] ELSE out
          /\ staging' = IF suffix = "none" THEN staging ELSE [staging EXCEPT ![r] = left]
  BY <1>1 DEF Interrupted
<1>3. /\ stage' = 0 /\ redoing' = 0 /\ suffix' = "none" /\ stopAfter' \in 0..9 /\ exitCode' # "done"
      /\ xmp' = xmp /\ outdated' = outdated
  BY DEF Interrupted, ExitsWith
<1>4. /\ past' \in PanoPast /\ (past'.gap <=> past.gap \/ Gap(out', staging'))
      /\ (past'.torn <=> past.torn \/ <<out, staging>>' # <<out, staging>>)
      /\ past'.accepted = past.accepted /\ past'.warned = past.warned /\ past'.edited = past.edited
  <2>1. PICK h \in Nat, a \in BOOLEAN, g \in BOOLEAN, e \in BOOLEAN, w \in BOOLEAN, t \in BOOLEAN,
             f \in BOOLEAN, u \in BOOLEAN :
            /\ past = [hands |-> h, accepted |-> a, gap |-> g, edited |-> e, warned |-> w, torn |-> t]
            /\ f <=> g \/ Gap(out', staging')
            /\ u <=> t \/ <<out, staging>>' # <<out, staging>>
    BY DEF PanoInv, PanoShape, PanoPast, Gap
  <2>2. past' = [past EXCEPT !.hands = @ + 1, !.gap = @ \/ Gap(out', staging'),
                             !.torn = @ \/ <<out, staging>>' # <<out, staging>>]
    BY DEF Interrupted
  <2>3. past' = [hands |-> h + 1, accepted |-> a, gap |-> f, edited |-> e, warned |-> w, torn |-> u]
    BY <2>1, <2>2
  <2>4. QED
    BY <2>1, <2>3 DEF PanoPast
<1>5. CASE suffix = "none"
  <2>1. out[r] \in Kept(r) /\ left \in Remnants(r, out[r])
    BY <1>2, <1>5 DEF PanoInv, OfKind
  <2>2. left \in {out[r], "unusable", "part"} /\ left \in Kept(r)
    BY <2>1, RemnantsAreLess
  <2>3. /\ \A i \in Indices : out'[i] = IF i = r THEN left ELSE out[i]
        /\ out' \in [Indices -> Outputs] /\ staging' = staging
    BY <1>2, <1>5, <2>2, KeptIsOutput DEF PanoInv, PanoShape
  <2>4. ~ past'.torn => out' = out
    BY <1>4
  <2>5. /\ \A i \in Indices : out'[i] \in Kept(i) /\ staging'[i] \in Kept(i)
        /\ \A i \in Indices : out'[i] \in {out[i], "none", "unusable", "part"}
        /\ staging' \in [Indices -> Outputs]
    BY <2>2, <2>3 DEF PanoInv, PanoShape, OfKind
  <2>6. outdated' \in [Indices -> BOOLEAN] /\ \A i \in Indices : ~ outdated'[i]
    BY <1>3 DEF PanoInv, PanoShape, Fresh
  <2>7. QED
    BY <1>3, <1>4, <2>3, <2>4, <2>5, <2>6, LookedOverKeeps
<1>6. CASE suffix # "none"
  <2>1. staging[r] \in Kept(r) /\ left \in Remnants(r, staging[r])
    BY <1>2, <1>6 DEF PanoInv, OfKind
  <2>2. left \in Kept(r)
    BY <2>1, RemnantsAreLess
  <2>3. /\ \A i \in Indices : staging'[i] = IF i = r THEN left ELSE staging[i]
        /\ staging' \in [Indices -> Outputs] /\ out' = out
    BY <1>2, <1>6, <2>2, KeptIsOutput DEF PanoInv, PanoShape
  <2>4. ~ past'.torn => staging' = staging
    BY <1>4
  <2>5. \A i \in Indices : out'[i] \in Kept(i) /\ staging'[i] \in Kept(i)
    BY <2>2, <2>3 DEF PanoInv, OfKind
  <2>6. /\ outdated' \in [Indices -> BOOLEAN] /\ \A i \in Indices : ~ outdated'[i]
        /\ out' \in [Indices -> Outputs]
    BY <1>3, <2>3 DEF PanoInv, PanoShape, Fresh
  <2>7. QED
    BY <1>3, <1>4, <2>3, <2>4, <2>5, <2>6, LookedOverKeeps
<1>7. QED
  BY <1>5, <1>6

LEMMA RemovePhaseKeeps ==
    ASSUME PanoInv, NEW i \in Indices, RemovePhase(i)
    PROVE  PanoInv'
<1>1. /\ out' = [out EXCEPT ![i] = "none"] /\ outdated' = [outdated EXCEPT ![i] = FALSE]
      /\ past' = [past EXCEPT !.hands = @ + 1, !.gap = @ \/ Gap(out', staging)]
      /\ staging' = staging /\ xmp' = xmp
  BY DEF RemovePhase
<1>2. stage' = 0 /\ redoing' = 0 /\ suffix' = "none" /\ stopAfter' \in 0..9 /\ exitCode' # "done"
  BY DEF RemovePhase, ByHand, PanoInv, PanoShape, RunsOnWhole
<1>3. /\ out' \in [Indices -> Outputs] /\ \A j \in Indices : out'[j] \in {out[j], "none"}
      /\ \A j \in Indices : out'[j] \in Kept(j) /\ staging'[j] \in Kept(j)
      /\ staging' \in [Indices -> Outputs]
  BY <1>1, KeptIsOutput DEF PanoInv, PanoShape, OfKind
<1>4. outdated' \in [Indices -> BOOLEAN] /\ \A j \in Indices : ~ outdated'[j]
  BY <1>1 DEF PanoInv, PanoShape, Fresh
<1>5. /\ past' \in PanoPast /\ (past'.gap <=> past.gap \/ Gap(out', staging'))
      /\ past'.torn = past.torn
      /\ past'.accepted = past.accepted /\ past'.warned = past.warned /\ past'.edited = past.edited
  <2>1. PICK h \in Nat, a \in BOOLEAN, g \in BOOLEAN, e \in BOOLEAN, w \in BOOLEAN, t \in BOOLEAN,
             f \in BOOLEAN :
            /\ past = [hands |-> h, accepted |-> a, gap |-> g, edited |-> e, warned |-> w, torn |-> t]
            /\ f <=> g \/ Gap(out', staging)
    BY DEF PanoInv, PanoShape, PanoPast, Gap
  <2>2. past' = [hands |-> h + 1, accepted |-> a, gap |-> f, edited |-> e, warned |-> w, torn |-> t]
    BY <1>1, <2>1
  <2>3. QED
    BY <1>1, <2>1, <2>2 DEF PanoPast
<1>6. QED
  BY <1>1, <1>2, <1>3, <1>4, <1>5, LookedOverKeeps

LEMMA AcceptKeeps ==
    ASSUME PanoInv, NEW i \in Indices, Accept(i)
    PROVE  PanoInv'
<1>1. /\ staging[i] # "none" /\ out[i] = "none" /\ xmp' = xmp
      /\ out' = [out EXCEPT ![i] = staging[i]] /\ staging' = [staging EXCEPT ![i] = "none"]
  BY DEF Accept
<1>2. /\ stage' = 0 /\ redoing' = 0 /\ suffix' = "none" /\ stopAfter' \in 0..9 /\ exitCode' # "done"
      /\ stage = 0 /\ redoing = 0
  BY DEF Accept, ByHand, PanoInv, PanoShape, RunsOnWhole
<1>3. /\ past' \in PanoPast /\ past'.gap = past.gap /\ past'.accepted
      /\ past'.edited = past.edited /\ past'.torn = past.torn
  <2>1. past' = [past EXCEPT !.hands = @ + 1, !.accepted = TRUE]
    BY DEF Accept
  <2>2. PICK h \in Nat, a \in BOOLEAN, g \in BOOLEAN, e \in BOOLEAN, w \in BOOLEAN, t \in BOOLEAN :
            past = [hands |-> h, accepted |-> a, gap |-> g, edited |-> e, warned |-> w, torn |-> t]
    BY DEF PanoInv, PanoShape, PanoPast
  <2>3. past' = [hands |-> h + 1, accepted |-> TRUE, gap |-> g, edited |-> e, warned |-> w, torn |-> t]
    BY <2>1, <2>2
  <2>4. QED
    BY <2>2, <2>3 DEF PanoPast
<1>4. /\ \A j \in Indices : out'[j] = IF j = i THEN staging[i] ELSE out[j]
      /\ \A j \in Indices : staging'[j] = IF j = i THEN "none" ELSE staging[j]
  BY <1>1 DEF PanoInv, PanoShape
<1>5. outdated' \in [Indices -> BOOLEAN] /\ Fresh'
  <2>1. outdated' = [outdated EXCEPT ![i] = i > 1 /\ outdated[i - 1]]
    BY DEF Accept
  <2>2. ~ (i > 1 /\ outdated[i - 1])
    BY Phases DEF PanoInv, Fresh
  <2>3. QED
    BY <2>1, <2>2 DEF PanoInv, PanoShape, Fresh
<1>6. PanoShape' /\ OfKind'
  <2>1. /\ out' \in [Indices -> Outputs] /\ staging' \in [Indices -> Outputs]
        /\ \A j \in Indices : out'[j] \in Kept(j) /\ staging'[j] \in Kept(j)
    BY <1>1, <1>4, KeptIsOutput DEF PanoInv, PanoShape, OfKind
  <2>2. QED
    BY <1>2, <1>3, <1>5, <2>1 DEF PanoShape, OfKind
<1>7. (RunsOnWhole /\ MadeSoFar /\ DoneIsSound)' /\ Unaccepted'
  <2>1. ~ past.torn => out'[9] # "unusable" /\ staging'[9] # "unusable"
    BY <1>4, Phases DEF PanoInv, Unaccepted
  <2>2. QED
    BY <1>2, <1>3, <2>1 DEF RunsOnWhole, MadeSoFar, DoneIsSound, Unaccepted, Lacking
<1>8. Contiguous'
  BY <1>1, <1>2, <1>3, <1>4 DEF PanoInv, Contiguous, Reached
<1>9. WrongExplained'
  <2>1. SUFFICES ASSUME ~ past.gap, ~ past.torn
                 PROVE  WrongComesFrom(7, 8, "gamma")' /\ WrongComesFrom(8, 9, "wrong")'
    BY <1>3 DEF WrongExplained
  <2>2. /\ out[8] = "wrong" \/ staging[8] = "wrong" => out[7] = "gamma"
        /\ out[9] = "wrong" \/ staging[9] = "wrong" => out[8] = "wrong"
    BY <1>2, <2>1 DEF PanoInv, WrongExplained, WrongComesFrom
  <2>3. \A j \in Indices : j < i => out[j] # "none"
    BY <1>1, <1>2, <2>1 DEF PanoInv, Contiguous, Reached
  <2>4. \A j \in Indices : j > i => out[j] = "none" /\ staging[j] = "none"
    BY <1>1, <1>2, <2>1 DEF PanoInv, Contiguous, Reached
  <2>5. out'[8] = "wrong" \/ staging'[8] = "wrong" => out'[7] = "gamma"
    BY <1>4, <2>2, <2>4, Phases
  <2>6. out'[9] = "wrong" \/ staging'[9] = "wrong" => out'[8] = "wrong"
    BY <1>4, <2>2, <2>4, Phases
  <2>7. WrongComesFrom(7, 8, "gamma")'
    BY <2>5 DEF WrongComesFrom
  <2>8. WrongComesFrom(8, 9, "wrong")'
    BY <2>6 DEF WrongComesFrom
  <2>9. QED
    BY <2>7, <2>8
<1>10. QED
  BY <1>1, <1>3, <1>5, <1>6, <1>7, <1>8, <1>9 DEF PanoInv

\* A run of the pipeline that reports success has a pyramid of the pictures as
\* they are now, however often runs were stopped, retried, redone or accepted half
\* done before; what it may lack, and after what, is what DeliversCurrent says; and
\* the user's recipe is never lost.
THEOREM SuccessIsCurrent == PanoSpec => []DeliversCurrent
<1>1. PanoInv /\ [PanoNext]_panoVars => PanoInv'
  <2>1. SUFFICES ASSUME PanoInv, [PanoNext]_panoVars PROVE PanoInv'
    OBVIOUS
  <2>2. CASE UNCHANGED panoVars
    BY <2>1, <2>2
       DEF panoVars, PanoInv, PanoShape, OfKind, Fresh, Unaccepted, Lacking, RunsOnWhole, Contiguous,
           WrongExplained, WrongComesFrom, Reached, MadeSoFar, DoneIsSound
  <2>3. CASE StartPipeline
    BY <2>1, <2>3, StartPipelineKeeps
  <2>4. CASE RedoFinal \/ RedoStaging
    BY <2>1, <2>4, RedoFinalKeeps, RedoStagingKeeps
  <2>5. CASE SkipPhase
    BY <2>1, <2>5, SkipPhaseKeeps
  <2>6. CASE RefusePhase
    BY <2>1, <2>6, RefusePhaseKeeps
  <2>7. CASE CommitPhase
    BY <2>1, <2>7, CommitPhaseKeeps
  <2>8. CASE BodyFails
    BY <2>1, <2>8, BodyFailsKeeps
  <2>9. CASE Interrupted
    BY <2>1, <2>9, InterruptedKeeps
  <2>10. CASE EditXmp
    BY <2>1, <2>10, EditXmpKeeps
  <2>11. ASSUME NEW i \in Indices, Accept(i) \/ Retry(i) \/ RemovePhase(i) PROVE PanoInv'
    BY <2>1, <2>11, AcceptKeeps, RetryKeeps, RemovePhaseKeeps
  <2>12. QED
    BY <2>1, <2>2, <2>3, <2>4, <2>5, <2>6, <2>7, <2>8, <2>9, <2>10, <2>11 DEF PanoNext
<1>2. PanoInv => DeliversCurrent
  <2>1. SUFFICES ASSUME PanoInv, exitCode = "done", ~ past.gap
                 PROVE  /\ ~ outdated[9]
                        /\ \/ out[9] = "whole"
                           \/ out[9] = "part" /\ (past.accepted \/ past.warned \/ past.torn)
                           \/ out[9] = "unusable" /\ past.torn
                           \/ out[9] = "wrong" /\ past.torn /\ past.accepted
    BY Phases DEF PanoInv, DeliversCurrent
  <2>2. out[9] \in {"unusable", "part", "wrong", "whole"}
    BY <2>1, Phases DEF PanoInv, DoneIsSound, OfKind, Kept
  <2>3. out[9] = "wrong" => past.torn /\ past.accepted
    <3>1. out[9] = "wrong" => past.torn
      BY <2>1 DEF PanoInv, DoneIsSound, WrongExplained, WrongComesFrom
    <3>2. out[9] = "wrong" => past.accepted
      BY <2>1, Phases DEF PanoInv, Unaccepted, Plain
    <3>3. QED
      BY <3>1, <3>2
  <2>4. /\ out[9] = "unusable" => past.torn
        /\ out[9] = "part" => past.accepted \/ past.warned \/ past.torn
    BY <2>1, Phases DEF PanoInv, Unaccepted, Lacking
  <2>5. QED
    BY <2>1, <2>2, <2>3, <2>4, Phases DEF PanoInv, Fresh
<1>3. QED
  BY <1>1, <1>2, PanoBegins, PTL DEF PanoSpec

-----------------------------------------------------------------------------
(* The generated Android project: a run leaves it patched.                 *)

SigningBlock == Insertion("signingBlock", "defaultConfig", {"signingBlock", "signingUse"})

\* What an insertion of a step can be.
WellFormed(step, i) ==
    /\ \/ i.seen = {i.mark}
       \/ i.mark = "googleClasspath" /\ i.seen = {}
       \/ i = SigningBlock
    /\ i.mark = "signingBlock" => i = SigningBlock
    /\ i.mark = "signingUse" => i.anchor = "release" /\ SigningBlock \in step.insertions

LEMMA StepsAreWellFormed ==
    ASSUME NEW dev \in BOOLEAN
    PROVE  /\ Len(Steps(dev)) = 13 /\ DOMAIN Steps(dev) = 1..13
           /\ Steps(dev)[12] = _patch_16kb_alignment
           /\ \A k \in 1..13 : \A i \in Steps(dev)[k].insertions : WellFormed(Steps(dev)[k], i)
           /\ \E k \in 1..13 : Steps(dev)[k] = configure_build_gradle
<1> DEFINE AllSteps == {fix_android_manifest(dev), configure_build_gradle, patch_colors_xml,
                        _fix_root_build_gradle, _fix_buildsrc_build_gradle,
                        _add_google_services_to_root, _fix_gradle_properties,
                        _fix_app_build_gradle, _fix_plugin_build_gradle, _set_compile_sdk,
                        _set_target_sdk, _patch_16kb_alignment, copy_google_services_json}
<1>1. /\ Len(Steps(dev)) = 13 /\ DOMAIN Steps(dev) = 1..13
      /\ Steps(dev)[12] = _patch_16kb_alignment /\ Steps(dev)[2] = configure_build_gradle
      /\ \A k \in 1..13 : Steps(dev)[k] \in AllSteps
  BY DEF Steps, fix_kotlin_versions
<1>2. ASSUME NEW step \in AllSteps, NEW i \in step.insertions
      PROVE  WellFormed(step, i)
  <2>1. CASE step = fix_android_manifest(dev)
    <3>1. i \in {Mark("namespaces", "manifest"), Mark("permissions", "manifest"),
                 Mark("replace", "application"), _add_deep_link_intent_filters(dev),
                 _add_push_services}
      BY <1>2, <2>1 DEF fix_android_manifest, PatchStep
    <3>2. i.seen = {i.mark} /\ i.mark \notin {"signingBlock", "signingUse"}
      BY <3>1 DEF Mark, Insertion, _add_deep_link_intent_filters, _add_push_services, SchemeOf
    <3>3. QED
      BY <3>2 DEF WellFormed
  <2>2. CASE step = configure_build_gradle
    <3>1. step.insertions = {Mark("streamImport", "import"), SigningBlock,
                             Mark("signingUse", "release")}
      BY <2>2 DEF configure_build_gradle, PatchStep, SigningBlock
    <3>2. CASE i = SigningBlock
      BY <3>1, <3>2 DEF WellFormed, SigningBlock, Insertion
    <3>3. CASE i # SigningBlock
      <4>1. i.seen = {i.mark} /\ i.mark # "signingBlock" /\ (i.mark = "signingUse" => i.anchor = "release")
        BY <1>2, <3>1, <3>3 DEF Mark, Insertion
      <4>2. QED
        BY <3>1, <4>1 DEF WellFormed
    <3>4. QED
      BY <3>2, <3>3
  <2>3. CASE step = _add_google_services_to_root
    <3>1. i = Insertion("googleClasspath", "kotlinClasspath", {})
      BY <1>2, <2>3 DEF _add_google_services_to_root, PatchStep
    <3>2. QED
      BY <3>1 DEF WellFormed, Insertion
  <2>4. CASE step \in AllSteps \ {fix_android_manifest(dev), configure_build_gradle,
                                  _add_google_services_to_root}
    <3>1. i \in {Mark("ourColors", "colors"), Mark("kotlinVersion", "kotlinClasspath"),
                 Mark("kotlinPlugin", "androidPlugin"), Mark("suppressions", "properties"),
                 Mark("versionForcing", "rust"), Mark("jvmTarget", "compileOptions"),
                 Mark("googlePlugin", "app"), Mark("firebase", "unifiedPush"),
                 Mark("pluginOptions", "pluginCompileOptions"),
                 Mark("compileSdk36", "compileSdk"), Mark("targetSdk36", "targetSdk"),
                 Mark("alignment", "compileSdk")}
      BY <1>2, <2>4
         DEF patch_colors_xml, _fix_root_build_gradle, _fix_buildsrc_build_gradle,
             _fix_gradle_properties, _fix_app_build_gradle, _fix_plugin_build_gradle,
             _set_compile_sdk, _set_target_sdk, _patch_16kb_alignment,
             copy_google_services_json, PatchStep
    <3>2. i.seen = {i.mark} /\ i.mark \notin {"signingBlock", "signingUse"}
      BY <3>1 DEF Mark, Insertion
    <3>3. QED
      BY <3>2 DEF WellFormed
  <2>5. QED
    BY <1>2, <2>1, <2>2, <2>3, <2>4
<1>3. QED
  BY <1>1, <1>2

LEMMA MarksAreKnown ==
    /\ \A dev \in BOOLEAN : \A k \in 1..13 : \A i \in Steps(dev)[k].insertions :
          i \in InsertionsOf(dev) /\ i \in AllInsertions /\ i.mark \in InsertedMarks
    /\ \A dev \in BOOLEAN : \A i \in InsertionsOf(dev) :
          \E k \in 1..13 : i \in Steps(dev)[k].insertions
    /\ \A i \in AllInsertions : \E dev \in BOOLEAN : i \in InsertionsOf(dev)
    /\ {"signingBlock", "signingUse", "alignment"} \subseteq InsertedMarks
<1>1. ASSUME NEW dev \in BOOLEAN, NEW k \in 1..13, NEW i \in Steps(dev)[k].insertions
      PROVE  i \in InsertionsOf(dev) /\ i \in AllInsertions /\ i.mark \in InsertedMarks
  <2>1. i \in InsertionsOf(dev)
    BY <1>1, StepsAreWellFormed DEF InsertionsOf
  <2>2. i \in AllInsertions
    BY <1>1, <2>1 DEF AllInsertions
  <2>3. QED
    BY <2>1, <2>2 DEF InsertedMarks
<1>2. ASSUME NEW dev \in BOOLEAN, NEW i \in InsertionsOf(dev)
      PROVE  \E k \in 1..13 : i \in Steps(dev)[k].insertions
  BY <1>2, StepsAreWellFormed DEF InsertionsOf
<1>3. \A i \in AllInsertions : \E dev \in BOOLEAN : i \in InsertionsOf(dev)
  BY DEF AllInsertions
<1>4. PICK dev \in BOOLEAN : TRUE
  OBVIOUS
<1>5. PICK k \in 1..13 : Steps(dev)[k] = configure_build_gradle
  BY StepsAreWellFormed
<1>6. SigningBlock \in Steps(dev)[k].insertions /\ Mark("signingUse", "release") \in Steps(dev)[k].insertions
  <2>1. configure_build_gradle.insertions = {Mark("streamImport", "import"), SigningBlock,
                                             Mark("signingUse", "release")}
    BY DEF configure_build_gradle, PatchStep, SigningBlock
  <2>2. QED
    BY <1>5, <2>1
<1>7. SigningBlock.mark = "signingBlock" /\ Mark("signingUse", "release").mark = "signingUse"
      /\ Mark("alignment", "compileSdk").mark = "alignment"
  BY DEF SigningBlock, Mark, Insertion
<1>8. Mark("alignment", "compileSdk") \in Steps(dev)[12].insertions
  <2>1. _patch_16kb_alignment.insertions = {Mark("alignment", "compileSdk")}
    BY DEF _patch_16kb_alignment, PatchStep
  <2>2. QED
    BY <2>1, StepsAreWellFormed
<1>9. "signingBlock" \in InsertedMarks /\ "signingUse" \in InsertedMarks
  BY <1>1, <1>6, <1>7
<1>10. "alignment" \in InsertedMarks
  <2>1. Mark("alignment", "compileSdk").mark \in InsertedMarks
    <3>1. \A n \in 1..13 : \A i \in Steps(dev)[n].insertions : i.mark \in InsertedMarks
      BY <1>1
    <3>2. 12 \in 1..13
      OBVIOUS
    <3>3. QED
      BY <1>8, <3>1, <3>2
  <2>2. QED
    BY <1>7, <2>1
<1>11. QED
  BY <1>1, <1>2, <1>3, <1>9, <1>10

\* Every insertion is one that a step of this or of the other variant makes.
LEMMA InsertionKinds ==
    ASSUME NEW i \in AllInsertions
    PROVE  \E dev \in BOOLEAN : \E k \in 1..13 :
               i \in Steps(dev)[k].insertions /\ WellFormed(Steps(dev)[k], i)
<1>1. PICK dev \in BOOLEAN, k \in 1..13 : i \in Steps(dev)[k].insertions
  BY MarksAreKnown
<1>2. QED
  BY <1>1, StepsAreWellFormed

\* A release that is signed has something to sign it with.
SigningTogether ==
    inserted["signingUse"] > 0 /\ "defaultConfig" \in anchors => inserted["signingBlock"] > 0

\* What the steps taken so far insert is there.
PatchedSoFar ==
    patching > 0 =>
        \A k \in 1..13 : \A i \in Steps(devMode)[k].insertions :
            k < patching /\ i.anchor \in anchors => inserted[i.mark] > 0

Once == \A m \in InsertedMarks \ {"googleClasspath"} : inserted[m] <= 1

Everything ==
    verdict \in {"succeeded", "failed"} =>
        \A i \in InsertionsOf(devMode) : i.anchor \in anchors => inserted[i.mark] > 0

GenInv ==
    /\ inserted \in [InsertedMarks -> 0..MaxCopies]
    /\ devMode \in BOOLEAN /\ wentWrong \in BOOLEAN /\ patching \in 0..13
    /\ SigningTogether /\ PatchedSoFar /\ Once /\ Everything
    /\ patching > 0 => verdict = "none"
    /\ patching > 12 /\ ~ wentWrong => inserted["alignment"] = 1
    /\ verdict = "succeeded" => inserted["alignment"] = 1

\* What becomes of the marks when a step has been taken.
LEMMA StepPatches ==
    ASSUME GenInv, patching > 0, inserted' = Patched(CurrentStep), anchors' = anchors
    PROVE  /\ inserted' \in [InsertedMarks -> 0..MaxCopies]
           /\ \A m \in InsertedMarks : inserted'[m] >= inserted[m]
           /\ \A i \in Steps(devMode)[patching].insertions :
                 i.anchor \in anchors => inserted'[i.mark] > 0
           /\ Once' /\ SigningTogether'
<1> DEFINE step == Steps(devMode)[patching]
           added(m) == /\ inserted[m] < MaxCopies
                       /\ \E i \in step.insertions : i.mark = m /\ InsertPatch(i)
<1>1. /\ devMode \in BOOLEAN /\ patching \in 1..13 /\ MaxCopies \in Nat /\ MaxCopies >= 2
      /\ inserted \in [InsertedMarks -> 0..MaxCopies]
  BY GenPatchesAssumption DEF GenInv
<1>2. inserted' = [m \in InsertedMarks |-> IF added(m) THEN inserted[m] + 1 ELSE inserted[m]]
  BY DEF Patched, CurrentStep
<1> HIDE DEF added
<1>3. \A m \in InsertedMarks : inserted[m] \in 0..MaxCopies /\ (added(m) => inserted[m] < MaxCopies)
  BY <1>1 DEF added
<1>4. \A m \in InsertedMarks : inserted'[m] = IF added(m) THEN inserted[m] + 1 ELSE inserted[m]
  BY <1>2
<1>5. inserted' \in [InsertedMarks -> 0..MaxCopies] /\ \A m \in InsertedMarks : inserted'[m] >= inserted[m]
  BY <1>1, <1>2, <1>3, <1>4
<1>6. ASSUME NEW i \in step.insertions
      PROVE  WellFormed(step, i) /\ i.mark \in InsertedMarks
  BY <1>1, <1>6, StepsAreWellFormed, MarksAreKnown
<1>7. ASSUME NEW i \in step.insertions, InsertPatch(i)
      PROVE  inserted'[i.mark] > 0
  <2>1. i.mark \in InsertedMarks
    BY <1>7, <1>6
  <2>2. CASE inserted[i.mark] < MaxCopies
    <3>1. added(i.mark)
      BY <1>7, <2>2 DEF added
    <3>2. QED
      BY <1>3, <1>4, <2>1, <3>1
  <2>3. CASE ~ inserted[i.mark] < MaxCopies
    BY <1>1, <1>3, <1>4, <2>1, <2>3
  <2>4. QED
    BY <2>2, <2>3
<1>8. ASSUME NEW i \in step.insertions, i.anchor \in anchors
      PROVE  inserted'[i.mark] > 0
  <2>1. CASE InsertPatch(i)
    BY <1>8, <1>7, <2>1
  <2>2. CASE ~ InsertPatch(i)
    <3>1. PICK m \in i.seen : inserted[m] # 0
      BY <1>8, <2>2 DEF InsertPatch
    <3>2. WellFormed(step, i) /\ i.mark \in InsertedMarks
      BY <1>8, <1>6
    <3>3. CASE m = i.mark
      BY <1>3, <1>5, <3>1, <3>2, <3>3
    <3>4. CASE m # i.mark
      <4>1. i = SigningBlock
        BY <3>1, <3>2, <3>4 DEF WellFormed
      <4>2. i.mark = "signingBlock" /\ i.anchor = "defaultConfig" /\ m = "signingUse"
        BY <4>1, <3>1, <3>4 DEF SigningBlock, Insertion
      <4>3. inserted["signingUse"] > 0
        BY <1>3, <3>1, <4>2, MarksAreKnown
      <4>4. inserted["signingBlock"] > 0
        BY <1>8, <4>2, <4>3 DEF GenInv, SigningTogether
      <4>5. QED
        BY <1>3, <1>5, <3>2, <4>2, <4>4
    <3>5. QED
      BY <3>3, <3>4
  <2>3. QED
    BY <2>1, <2>2
<1>9. Once'
  <2>1. SUFFICES ASSUME NEW m \in InsertedMarks, m # "googleClasspath"
                 PROVE  inserted'[m] <= 1
    BY DEF Once
  <2>2. CASE added(m)
    <3>1. PICK i \in step.insertions : i.mark = m /\ InsertPatch(i)
      BY <2>2 DEF added
    <3>2. WellFormed(step, i)
      BY <3>1, <1>6
    <3>3. m \in i.seen
      BY <2>1, <3>1, <3>2 DEF WellFormed, SigningBlock, Insertion
    <3>4. inserted[m] = 0
      BY <3>1, <3>3 DEF InsertPatch
    <3>5. QED
      BY <1>4, <2>1, <3>4
  <2>3. CASE ~ added(m)
    BY <1>4, <2>1, <2>3 DEF GenInv, Once
  <2>4. QED
    BY <2>2, <2>3
<1>10. SigningTogether'
  <2>1. SUFFICES ASSUME inserted'["signingUse"] > 0, "defaultConfig" \in anchors
                 PROVE  inserted'["signingBlock"] > 0
    BY DEF SigningTogether
  <2>2. CASE added("signingUse")
    <3>1. PICK i \in step.insertions : i.mark = "signingUse"
      BY <2>2 DEF added
    <3>2. SigningBlock \in step.insertions
      BY <3>1, <1>6 DEF WellFormed
    <3>3. SigningBlock.anchor = "defaultConfig" /\ SigningBlock.mark = "signingBlock"
      BY DEF SigningBlock, Insertion
    <3>4. QED
      BY <1>8, <2>1, <3>2, <3>3
  <2>3. CASE ~ added("signingUse")
    <3>1. inserted["signingUse"] > 0
      BY <1>4, <2>1, <2>3, MarksAreKnown
    <3>2. inserted["signingBlock"] > 0
      BY <2>1, <3>1 DEF GenInv, SigningTogether
    <3>3. QED
      BY <1>3, <1>5, <3>2, MarksAreKnown
  <2>4. QED
    BY <2>2, <2>3
<1>11. QED
  BY <1>5, <1>8, <1>9, <1>10

LEMMA RunStepKeeps ==
    ASSUME GenInv, RunStep
    PROVE  GenInv'
<1>1. /\ patching > 0 /\ patching \in 1..13 /\ inserted' = Patched(CurrentStep) /\ verdict = "none"
      /\ UNCHANGED <<generated, anchors, devMode>>
      /\ Len(Steps(devMode)) = 13
      /\ devMode \in BOOLEAN /\ wentWrong \in BOOLEAN
  BY StepsAreWellFormed DEF RunStep, GenInv
<1>2. /\ inserted' \in [InsertedMarks -> 0..MaxCopies]
      /\ \A m \in InsertedMarks : inserted'[m] >= inserted[m]
      /\ \A i \in Steps(devMode)[patching].insertions :
            i.anchor \in anchors => inserted'[i.mark] > 0
      /\ Once' /\ SigningTogether'
  BY <1>1, StepPatches
<1>3. \A k \in 1..13 : \A i \in Steps(devMode)[k].insertions :
          k <= patching /\ i.anchor \in anchors => inserted'[i.mark] > 0
  <2>1. SUFFICES ASSUME NEW k \in 1..13, NEW i \in Steps(devMode)[k].insertions,
                        k < patching, i.anchor \in anchors
                 PROVE  inserted'[i.mark] > 0
    BY <1>1, <1>2
  <2>2. inserted[i.mark] > 0 /\ i.mark \in InsertedMarks
    BY <1>1, <2>1, MarksAreKnown DEF GenInv, PatchedSoFar
  <2>3. inserted[i.mark] \in Int /\ inserted'[i.mark] \in Int
    BY <1>2, <2>2, GenPatchesAssumption DEF GenInv
  <2>4. QED
    BY <1>2, <2>2, <2>3
<1>4. /\ "alignment" \in InsertedMarks /\ "alignment" # "googleClasspath"
      /\ inserted["alignment"] \in Nat /\ inserted'["alignment"] \in {0, 1}
      /\ inserted'["alignment"] >= inserted["alignment"]
  <2>1. "alignment" \in InsertedMarks
    BY MarksAreKnown
  <2>2. inserted["alignment"] \in Nat /\ inserted'["alignment"] \in Nat
    BY <1>2, <2>1, GenPatchesAssumption DEF GenInv
  <2>3. inserted'["alignment"] <= 1
    BY <1>2, <2>1 DEF Once
  <2>4. QED
    BY <1>2, <2>1, <2>2, <2>3
<1>5. patching = 12 /\ ~ StepFails(CurrentStep) => inserted'["alignment"] = 1
  <2>1. SUFFICES ASSUME patching = 12, ~ StepFails(CurrentStep)
                 PROVE  inserted'["alignment"] = 1
    OBVIOUS
  <2>2. CurrentStep = _patch_16kb_alignment
    BY <1>1, <2>1, StepsAreWellFormed DEF CurrentStep
  <2>3. CurrentStep.name = "alignment" /\ CurrentStep.insertions = {Mark("alignment", "compileSdk")}
    BY <2>2 DEF _patch_16kb_alignment, PatchStep
  <2>4. "compileSdk" \in anchors \/ inserted["alignment"] # 0
    BY <2>1, <2>3 DEF StepFails
  <2>5. CASE inserted["alignment"] # 0
    BY <1>4, <2>5
  <2>6. CASE "compileSdk" \in anchors
    <3>1. inserted'[Mark("alignment", "compileSdk").mark] > 0
      BY <1>2, <2>3, <2>6 DEF CurrentStep, Mark, Insertion
    <3>2. QED
      BY <1>4, <3>1 DEF Mark, Insertion
  <2>7. QED
    BY <2>4, <2>5, <2>6
<1>9. inserted' \in [InsertedMarks -> 0..MaxCopies] /\ Once' /\ SigningTogether'
  BY <1>2
<1>6. CASE patching < 13
  <2>1. patching' = patching + 1 /\ verdict' = "none" /\ (wentWrong' <=> wentWrong \/ StepFails(CurrentStep))
        /\ wentWrong' \in BOOLEAN
    BY <1>1, <1>6 DEF RunStep, StepFails
  <2>2. PatchedSoFar'
    BY <1>1, <1>3, <2>1 DEF PatchedSoFar
  <2>3. patching' > 12 /\ ~ wentWrong' => inserted'["alignment"] = 1
    BY <1>1, <1>5, <1>6, <2>1
  <2>4. Everything' /\ patching' \in 0..13 /\ devMode' \in BOOLEAN /\ wentWrong' \in BOOLEAN
    BY <1>1, <1>6, <2>1 DEF Everything
  <2>5. /\ patching' > 0 => verdict' = "none"
        /\ verdict' = "succeeded" => inserted'["alignment"] = 1
    BY <2>1
  <2>6. QED
    BY <1>9, <2>2, <2>3, <2>4, <2>5 DEF GenInv
<1>7. CASE patching = 13
  <2>1. patching' = 0 /\ wentWrong' = FALSE /\ (verdict' = "succeeded" => ~ wentWrong)
    BY <1>1, <1>7 DEF RunStep
  <2>2. Everything'
    BY <1>1, <1>3, <1>7, MarksAreKnown DEF Everything
  <2>3. verdict' = "succeeded" => inserted'["alignment"] = 1
    BY <1>4, <1>7, <2>1 DEF GenInv
  <2>4. PatchedSoFar'
    BY <2>1 DEF PatchedSoFar
  <2>5. patching' \in 0..13 /\ devMode' \in BOOLEAN /\ wentWrong' \in BOOLEAN
    <3>1. patching' \in 0..13
      BY <2>1
    <3>2. devMode' \in BOOLEAN
      BY <1>1
    <3>3. wentWrong' \in BOOLEAN
      BY <2>1
    <3>4. QED
      BY <3>1, <3>2, <3>3
  <2>6. /\ patching' > 0 => verdict' = "none"
        /\ patching' > 12 /\ ~ wentWrong' => inserted'["alignment"] = 1
    BY <2>1
  <2>7. QED
    BY <1>9, <2>2, <2>3, <2>4, <2>5, <2>6 DEF GenInv
<1>8. QED
  BY <1>1, <1>6, <1>7

\* Both marks of the signing are in the application's build file, and in no other.
LEMMA SigningMarks ==
    /\ "signingUse" \notin MarksIn("plugin")
    /\ \A target \in DOMAIN Anchors :
          "signingBlock" \in MarksIn(target) => "signingUse" \in MarksIn(target)
<1>1. ASSUME NEW i \in AllInsertions
      PROVE  /\ i.mark = "signingBlock" => i.anchor = "defaultConfig"
             /\ i.mark = "signingUse" => i.anchor = "release"
  BY <1>1, InsertionKinds DEF WellFormed, SigningBlock, Insertion
<1>2. "release" \notin Anchors["plugin"]
  BY DEF Anchors
<1>3. ASSUME NEW target \in DOMAIN Anchors, "signingBlock" \in MarksIn(target)
      PROVE  "signingUse" \in MarksIn(target)
  <2>1. "defaultConfig" \in Anchors[target]
    BY <1>1, <1>3 DEF MarksIn
  <2>2. "release" \in Anchors[target]
    BY <1>3, <2>1 DEF Anchors
  <2>3. PICK i \in AllInsertions : i.mark = "signingUse"
    BY MarksAreKnown DEF InsertedMarks
  <2>4. QED
    BY <1>1, <2>2, <2>3 DEF MarksIn
<1>4. "signingUse" \notin MarksIn("plugin")
  BY <1>1, <1>2 DEF MarksIn
<1>5. QED
  BY <1>3, <1>4

LEMMA StepTargets ==
    ASSUME NEW dev \in BOOLEAN, NEW k \in 1..13
    PROVE  Steps(dev)[k].target \in DOMAIN Anchors
<1>1. Steps(dev)[k] \in {fix_android_manifest(dev), configure_build_gradle, patch_colors_xml,
                         _fix_root_build_gradle, _fix_buildsrc_build_gradle,
                         _add_google_services_to_root, _fix_gradle_properties,
                         _fix_app_build_gradle, _fix_plugin_build_gradle, _set_compile_sdk,
                         _set_target_sdk, _patch_16kb_alignment, copy_google_services_json}
  BY DEF Steps, fix_kotlin_versions
<1>2. Steps(dev)[k].target \in {"manifest", "app", "colors", "root", "buildSrc", "properties", "plugin"}
  BY <1>1 DEF fix_android_manifest, configure_build_gradle, patch_colors_xml,
              _fix_root_build_gradle, _fix_buildsrc_build_gradle,
              _add_google_services_to_root, _fix_gradle_properties,
              _fix_app_build_gradle, _fix_plugin_build_gradle, _set_compile_sdk,
              _set_target_sdk, _patch_16kb_alignment, copy_google_services_json, PatchStep
<1>3. QED
  BY <1>2 DEF Anchors

LEMMA GenBegins == GenInit => GenInv
<1>1. SUFFICES ASSUME GenInit PROVE GenInv
  OBVIOUS
<1>2. /\ devMode = FALSE /\ wentWrong = FALSE /\ patching = 0 /\ verdict = "none"
      /\ inserted = [m \in InsertedMarks |-> IF m \in MarksIn("plugin") THEN 1 ELSE 0]
  BY <1>1 DEF GenInit
<1>3. /\ inserted \in [InsertedMarks -> 0..MaxCopies]
      /\ \A m \in InsertedMarks : inserted[m] <= 1
  BY <1>2, GenPatchesAssumption
<1>4. "signingUse" \notin MarksIn("plugin")
  BY SigningMarks
<1>5. inserted["signingUse"] = 0
  BY <1>2, <1>4, MarksAreKnown
<1>6. SigningTogether /\ Once /\ PatchedSoFar /\ Everything
  BY <1>2, <1>3, <1>5 DEF SigningTogether, Once, PatchedSoFar, Everything
<1>7. wentWrong \in BOOLEAN /\ devMode \in BOOLEAN
  BY <1>2
<1>8. QED
  BY <1>2, <1>3, <1>6, <1>7 DEF GenInv

\* A file that was being written is empty; what it loses, it loses as a whole.
LEMMA StoppedKeeps ==
    ASSUME GenInv, Stopped
    PROVE  GenInv'
<1>1. /\ patching > 0 /\ verdict = "none" /\ patching' = 0 /\ wentWrong' = FALSE
      /\ verdict' = verdict /\ devMode' = devMode
      /\ inserted \in [InsertedMarks -> 0..MaxCopies] /\ devMode \in BOOLEAN
  BY DEF Stopped, GenInv
<1>2. inserted' \in [InsertedMarks -> 0..MaxCopies] /\ Once' /\ SigningTogether'
  <2>1. CASE UNCHANGED <<anchors, inserted>>
    BY <1>1, <2>1 DEF GenInv, Once, SigningTogether
  <2>2. ASSUME NEW target \in DOMAIN Anchors,
               anchors' \subseteq anchors,
               inserted' = [m \in InsertedMarks |-> IF m \in MarksIn(target) THEN 0 ELSE inserted[m]]
        PROVE  inserted' \in [InsertedMarks -> 0..MaxCopies] /\ Once' /\ SigningTogether'
    <3>1. \A m \in InsertedMarks : inserted'[m] = IF m \in MarksIn(target) THEN 0 ELSE inserted[m]
      BY <2>2
    <3>2. inserted' \in [InsertedMarks -> 0..MaxCopies]
      BY <1>1, <2>2, GenPatchesAssumption
    <3>3. Once'
      BY <3>1 DEF GenInv, Once
    <3>4. "signingBlock" \in MarksIn(target) => "signingUse" \in MarksIn(target)
      BY <2>2, SigningMarks
    <3>5. SigningTogether'
      BY <2>2, <3>1, <3>4, MarksAreKnown DEF GenInv, SigningTogether
    <3>6. QED
      BY <3>2, <3>3, <3>5
  <2>3. CurrentStep.target \in DOMAIN Anchors
    BY <1>1, StepTargets DEF CurrentStep, GenInv
  <2>4. CASE /\ anchors' = anchors \ (Anchors[CurrentStep.target] \ {"app", "properties"})
             /\ inserted' = [m \in InsertedMarks |-> IF m \in MarksIn(CurrentStep.target) THEN 0
                                                                           ELSE inserted[m]]
    BY <2>2, <2>3, <2>4
  <2>5. QED
    BY <2>1, <2>4 DEF Stopped
<1>3. PatchedSoFar' /\ Everything'
  BY <1>1 DEF PatchedSoFar, Everything
<1>4. patching' \in 0..13 /\ devMode' \in BOOLEAN
  BY <1>1
<1>5. wentWrong' \in BOOLEAN
  BY <1>1
<1>6. QED
  BY <1>1, <1>2, <1>3, <1>4, <1>5 DEF GenInv

LEMMA GenerateKeeps ==
    ASSUME GenInv, Generate
    PROVE  GenInv'
<1>1. /\ patching = 0 /\ patching' = patching /\ verdict' = "none"
      /\ devMode' = devMode /\ wentWrong' = wentWrong
      /\ inserted' = [m \in InsertedMarks |-> IF m \in MarksIn("plugin") THEN inserted[m] ELSE 0]
  BY DEF Generate
<1>2. inserted' \in [InsertedMarks -> 0..MaxCopies] /\ Once'
  BY <1>1, GenPatchesAssumption DEF GenInv, Once
<1>3. inserted'["signingUse"] = 0
  BY <1>1, SigningMarks, MarksAreKnown
<1>4. SigningTogether'
  BY <1>3 DEF SigningTogether
<1>5. PatchedSoFar' /\ Everything'
  BY <1>1 DEF PatchedSoFar, Everything
<1>6. patching' = 0 /\ devMode' \in BOOLEAN /\ wentWrong' \in BOOLEAN
  BY <1>1 DEF GenInv
<1>7. QED
  BY <1>1, <1>2, <1>4, <1>5, <1>6 DEF GenInv

\* A run that starts, and a variant that is chosen, leave the files alone.
LEMMA OthersKeep ==
    ASSUME GenInv, StartRun \/ SwitchMode
    PROVE  GenInv'
<1>1. UNCHANGED <<anchors, inserted, wentWrong>> /\ patching' \in {0, 1} /\ devMode' \in BOOLEAN
      /\ verdict' \in {"none", "refused"} /\ (patching' > 0 => verdict' = "none")
  <2>1. CASE StartRun
    <3>1. CASE generated
      BY <2>1, <3>1 DEF StartRun, GenInv
    <3>2. CASE ~ generated
      BY <2>1, <3>2 DEF StartRun, GenInv
    <3>3. QED
      BY <3>1, <3>2
  <2>2. CASE SwitchMode
    BY <2>2 DEF SwitchMode, GenInv
  <2>3. QED
    BY <2>1, <2>2
<1>2. PatchedSoFar' /\ Everything'
  BY <1>1 DEF PatchedSoFar, Everything
<1>3. Once' /\ SigningTogether' /\ inserted' \in [InsertedMarks -> 0..MaxCopies] /\ wentWrong' \in BOOLEAN
  BY <1>1 DEF GenInv, Once, SigningTogether
<1>4. QED
  BY <1>1, <1>2, <1>3 DEF GenInv

\* However many runs, of whichever variant, were stopped wherever before: a run
\* that ends has put all that this variant needs, and the templates have a place
\* for, into the project; nothing is there twice; and a success is aligned.
THEOREM RunsLeaveItPatched == GenSpec => []RunLeavesPatched
<1>1. GenInv /\ [GenNext]_genVars => GenInv'
  <2>1. SUFFICES ASSUME GenInv, [GenNext]_genVars PROVE GenInv'
    OBVIOUS
  <2>2. CASE UNCHANGED genVars
    BY <2>1, <2>2 DEF genVars, GenInv, SigningTogether, PatchedSoFar, Once, Everything
  <2>3. QED
    BY <2>1, <2>2, RunStepKeeps, StoppedKeeps, GenerateKeeps, OthersKeep DEF GenNext
<1>2. GenInv => RunLeavesPatched
  BY DEF GenInv, Once, Everything, RunLeavesPatched
<1>3. QED
  BY <1>1, <1>2, GenBegins, PTL DEF GenSpec

=============================================================================
