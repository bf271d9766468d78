------------------------------ MODULE PanoPipeline -----------------------------
(***************************************************************************)
(* The panorama pipeline (src/scripts/pano): nine phases, each of which    *)
(* makes a directory out of the one before it, in a staging directory that *)
(* is renamed when it is complete.  What is there is not made again, so    *)
(* the pipeline goes on wherever an earlier run was stopped; a staging     *)
(* directory that was left behind is for the user to accept or to remove.  *)
(*                                                                         *)
(* A directory is what can be said of it: whether the next phase can use   *)
(* it, and, of a picture, whether its pixels are linear, as the tag says   *)
(* that later programs go by.                                              *)
(***************************************************************************)
EXTENDS Integers, Sequences

CONSTANTS
    StopPoints, Redos,  \* what --stop-after and --redo may name
    MaxHands        \* bound: how often something is accepted or removed by hand,
                    \* or --redo is stopped half way

PhaseNames == <<"tiff", "fused", "pto", "topmost", "baseline", "optimize",
                "stitch", "render", "pyramid">>

Indices == DOMAIN PhaseNames
Number(short) == CHOOSE i \in Indices : PhaseNames[i] = short

ASSUME PanoAssumption == StopPoints \subseteq Indices /\ Redos \subseteq Indices /\ MaxHands \in Nat

\* "part" lacks some of its sources; the others are only made by stitch,
\* whose picture may be neither linear nor tagged, or linear and not tagged.
Outputs == {"none", "unusable", "part", "gamma", "untagged", "wrong", "whole"}

VARIABLES
    out,            \* phase_NN_short
    staging,        \* phase_NN_short.tmp
    outdated,       \* made from something that has been made anew since
    stage,          \* the phase a run is at; 0 when none runs
    redoing,        \* the phase of which --redo removes next; 0 when it does not
    suffix,         \* and which of its two directories: "none" is phase_NN_short
    stopAfter,      \* --stop-after of the run, 0 without it
    xmp,            \* the recipe in the workspace of darktable
    exitCode,       \* of the last run, until something is touched
    past            \* what has happened to the directories

panoVars == <<out, staging, outdated, stage, redoing, suffix, stopAfter, xmp, exitCode, past>>

LastPhase == Len(PhaseNames)

-----------------------------------------------------------------------------
(* The bodies: what a phase makes of the output of the one before it       *)

\* The phases that copy, fuse or develop file by file, and the optimiser.
PartlyUsable == {Number(s) : s \in {"tiff", "fused", "optimize"}}

_tiff(input) == {"whole"}

\* A body without usable input fails.
Handed(input) == IF input = "unusable" THEN {} ELSE {input}

\* The pictures at the end that are too few for a stack are left out; all of them
\* may be.
_fused(input) == UNION {{i, "part", "unusable"} : i \in Handed(input)}

\* No pictures; no control points found; none to filter; no image lines.
_pto(input) == Handed(input)
pto_cp_topmost(input) == Handed(input)
pto_horizontal_baseline(input) == Handed(input)
pto_optvars(input) == Handed(input)

\* Warped and blended, without layers not at all; then checked, linearised,
\* tagged, and checked against the tag.
pto_stitch_exr(input) == Handed(input)
_stitch(input) == pto_stitch_exr(input)

\* The input's tag is not looked at; pixels that are not linear come out wrong.
_render(input) ==
    CASE input = "gamma" -> {"wrong"}
      [] input = "untagged" -> {"whole"}
      [] OTHER -> Handed(input)

\* Faulty variant: a picture without a tag is guessed to be linear.
GuessedPyramid(input) == IF input \in {"unusable", "untagged"} THEN {"wrong"} ELSE {input}

\* A picture without a tag is refused.
exr_to_webp_pyramid(input) == IF input = "untagged" THEN {} ELSE Handed(input)
_pyramid(input) == exr_to_webp_pyramid(input)

PhaseBody(i, input) ==
    CASE PhaseNames[i] = "tiff"     -> _tiff(input)
      [] PhaseNames[i] = "fused"    -> _fused(input)
      [] PhaseNames[i] = "pto"      -> _pto(input)
      [] PhaseNames[i] = "topmost"  -> pto_cp_topmost(input)
      [] PhaseNames[i] = "baseline" -> pto_horizontal_baseline(input)
      [] PhaseNames[i] = "optimize" -> pto_optvars(input)
      [] PhaseNames[i] = "stitch"   -> _stitch(input)
      [] PhaseNames[i] = "render"   -> _render(input)
      [] PhaseNames[i] = "pyramid"  -> _pyramid(input)

\* What a body that does not get to its end leaves in the staging directory:
\* of linearising, nothing, the old pixels, or new ones without a tag.
linearize == {"unusable", "gamma", "untagged"}
set_encoding == {"unusable", "untagged"}

LeftBehind(i) ==
    CASE PhaseNames[i] = "stitch" -> linearize
      [] PhaseNames[i] = "render" -> set_encoding
      [] PhaseNames[i] = "pyramid" -> {"part"}
      [] i \in PartlyUsable -> {"unusable", "part"}
      [] OTHER -> {"unusable"}

Input(i) == IF i = 1 THEN "whole" ELSE out[i - 1]

\* _ensure_render_workspace: the picture is renewed, the recipe is kept.
_ensure_render_workspace == xmp' = IF xmp = "none" THEN "default" ELSE xmp

-----------------------------------------------------------------------------
\* Outputs, or what was to become one, of which an earlier one is missing.
Gap(outputs, remains) ==
    \E i, j \in Indices :
        i < j /\ outputs[i] = "none" /\ (outputs[j] # "none" \/ remains[j] # "none")

ExitsWith(code) ==
    stage' = 0 /\ redoing' = 0 /\ suffix' = "none" /\ stopAfter' = 0 /\ exitCode' = code

\* A run starts; with --redo it first removes. (Directories with a gap behind
\* them are not followed further: nothing is claimed of them.)
StartPipeline ==
    /\ stage = 0 /\ ~ past.gap
    /\ \E stop \in StopPoints \cup {0}, redo \in Redos \cup {0} :
          /\ stopAfter' = stop
          /\ redoing' = redo
    /\ stage' = 1 /\ suffix' = "none" /\ exitCode' = "none"
    /\ UNCHANGED <<out, staging, outdated, xmp, past>>

\* The phase that is named and every later one, in this order.
RedoFinal ==
    /\ redoing > 0 /\ suffix = "none"
    /\ out' = [out EXCEPT ![redoing] = "none"]
    /\ outdated' = [outdated EXCEPT ![redoing] = FALSE]
    /\ suffix' = "tmp"
    /\ UNCHANGED <<staging, stage, redoing, stopAfter, xmp, exitCode, past>>

RedoStaging ==
    /\ redoing > 0 /\ suffix = "tmp"
    /\ staging' = [staging EXCEPT ![redoing] = "none"]
    /\ redoing' = IF redoing = LastPhase THEN 0 ELSE redoing + 1
    /\ suffix' = "none"
    /\ UNCHANGED <<out, outdated, stage, stopAfter, xmp, exitCode, past>>

\* The run's check of the two pictures that it names at its end.
Sound == out[Number("stitch")] \notin {"gamma", "untagged"} /\ out[Number("render")] # "untagged"

Onward ==
    IF stage = stopAfter THEN ExitsWith("stopped")
    ELSE IF stage = LastPhase THEN ExitsWith(IF Sound THEN "done" ELSE "failed")
    ELSE stage' = stage + 1 /\ UNCHANGED <<redoing, suffix, stopAfter, exitCode>>

\* run_phase: there already.
SkipPhase ==
    /\ stage > 0 /\ redoing = 0
    /\ out[stage] # "none"
    /\ Onward
    /\ UNCHANGED <<out, staging, outdated, xmp, past>>

\* run_phase: neither accepted nor removed.
RefusePhase ==
    /\ stage > 0 /\ redoing = 0
    /\ out[stage] = "none" /\ staging[stage] # "none"
    /\ ExitsWith("failed")
    /\ UNCHANGED <<out, staging, outdated, xmp, past>>

Works ==
    /\ stage > 0 /\ redoing = 0
    /\ out[stage] = "none" /\ staging[stage] = "none"
    /\ IF PhaseNames[stage] \in {"stitch", "render"} THEN _ensure_render_workspace
                                                      ELSE UNCHANGED xmp

\* What is made anew makes everything stale that was made from the old one.
CommitPhase ==
    /\ Works
    /\ \E product \in PhaseBody(stage, Input(stage)) :
          /\ out' = [out EXCEPT ![stage] = product]
          /\ past' = [past EXCEPT !.warned =
                        @ \/ (PhaseNames[stage] = "fused" /\ product # Input(stage))]
    /\ outdated' = [j \in Indices |-> \/ j > stage /\ out[j] # "none"
                                      \/ j = stage /\ j > 1 /\ outdated[j - 1]
                                      \/ j < stage /\ outdated[j]]
    /\ Onward
    /\ UNCHANGED staging

\* Faulty variant: a body works where its output belongs.
FailsInPlace ==
    /\ Works
    /\ \E left \in LeftBehind(stage) \cup PhaseBody(stage, Input(stage)) :
          out' = [out EXCEPT ![stage] = left]
    /\ ExitsWith("failed")
    /\ UNCHANGED <<staging, outdated, past>>

\* A program fails, or the user interrupts: at any point of the body, and also
\* after its last command.
BodyFails ==
    /\ Works
    /\ \E left \in LeftBehind(stage) \cup PhaseBody(stage, Input(stage)) :
          staging' = [staging EXCEPT ![stage] = left]
    /\ ExitsWith("failed")
    /\ UNCHANGED <<out, outdated, past>>

\* What a removal that does not get to its end leaves of a directory.
Remnants(i, was) ==
    CASE was = "none" -> {"none"}
      [] was = "whole" /\ PhaseNames[i] \in {"tiff", "fused", "pyramid"} ->
            {"whole", "part", "unusable"}
      [] OTHER -> {was, "unusable"}

\* The run is killed, or cannot go on, while --redo removes.
Interrupted ==
    /\ redoing > 0 /\ past.hands < MaxHands
    /\ LET dirs == IF suffix = "none" THEN out ELSE staging IN
       \E left \in Remnants(redoing, dirs[redoing]) :
          /\ out' = IF suffix = "none" THEN [out EXCEPT ![redoing] = left] ELSE out
          /\ staging' = IF suffix = "none" THEN staging ELSE [staging EXCEPT ![redoing] = left]
    /\ past' = [past EXCEPT !.hands = @ + 1, !.gap = @ \/ Gap(out', staging'),
                            !.torn = @ \/ <<out, staging>>' # <<out, staging>>]
    /\ ExitsWith("failed")
    /\ UNCHANGED <<outdated, xmp>>

ByHand ==
    /\ stage = 0 /\ past.hands < MaxHands
    /\ exitCode' = "none"
    /\ UNCHANGED <<stage, redoing, suffix, stopAfter>>

\* mv phase_NN_short.tmp phase_NN_short
Accept(i) ==
    /\ ByHand
    /\ staging[i] # "none" /\ out[i] = "none"
    /\ out' = [out EXCEPT ![i] = staging[i]]
    /\ staging' = [staging EXCEPT ![i] = "none"]
    /\ outdated' = [outdated EXCEPT ![i] = i > 1 /\ outdated[i - 1]]
    /\ past' = [past EXCEPT !.hands = @ + 1, !.accepted = TRUE]
    /\ UNCHANGED xmp

\* rm -rf phase_NN_short.tmp
Retry(i) ==
    /\ stage = 0 /\ staging[i] # "none"
    /\ staging' = [staging EXCEPT ![i] = "none"]
    /\ exitCode' = "none"
    /\ UNCHANGED <<out, outdated, stage, redoing, suffix, stopAfter, xmp, past>>

\* rm -rf phase_NN_short
RemovePhase(i) ==
    /\ ByHand
    /\ out[i] # "none"
    /\ out' = [out EXCEPT ![i] = "none"] /\ outdated' = [outdated EXCEPT ![i] = FALSE]
    /\ past' = [past EXCEPT !.hands = @ + 1, !.gap = @ \/ Gap(out', staging)]
    /\ UNCHANGED <<staging, xmp>>

\* In darktable, once there is a workspace.
EditXmp ==
    /\ stage = 0 /\ xmp = "default"
    /\ xmp' = "edited" /\ exitCode' = "none"
    /\ past' = [past EXCEPT !.edited = TRUE]
    /\ UNCHANGED <<out, staging, outdated, stage, redoing, suffix, stopAfter>>

PanoInit ==
    /\ out = [i \in Indices |-> "none"] /\ staging = [i \in Indices |-> "none"]
    /\ outdated = [i \in Indices |-> FALSE]
    /\ stage = 0 /\ redoing = 0 /\ suffix = "none" /\ stopAfter = 0
    /\ xmp = "none" /\ exitCode = "none"
    /\ past = [hands |-> 0, accepted |-> FALSE, gap |-> FALSE, edited |-> FALSE,
               warned |-> FALSE, torn |-> FALSE]

PanoNext ==
    \/ StartPipeline \/ RedoFinal \/ RedoStaging \/ SkipPhase \/ RefusePhase \/ CommitPhase
    \/ BodyFails \/ Interrupted \/ EditXmp
    \/ \E i \in Indices : Accept(i) \/ Retry(i) \/ RemovePhase(i)

PanoSpec == PanoInit /\ [][PanoNext]_panoVars

-----------------------------------------------------------------------------
PanoTypeOK ==
    /\ out \in [Indices -> Outputs] /\ staging \in [Indices -> Outputs]
    /\ outdated \in [Indices -> BOOLEAN]
    /\ stage \in 0..LastPhase /\ redoing \in 0..LastPhase /\ suffix \in {"none", "tmp"}
    /\ stopAfter \in StopPoints \cup {0}
    /\ xmp \in {"none", "default", "edited"}
    /\ exitCode \in {"none", "stopped", "done", "failed"}
    /\ past \in [hands : 0..MaxHands, accepted : BOOLEAN, gap : BOOLEAN, edited : BOOLEAN,
                warned : BOOLEAN, torn : BOOLEAN]

\* A run that reports success has a pyramid of the pictures as they are now,
\* with their tones, whatever was interrupted, retried, redone or accepted half
\* done before, unless the output of a phase was removed and that of a later one,
\* finished or not, stayed (by hand, or because --redo was stopped between two
\* removals). Sources are missing from it only if something was accepted, the
\* program warned that it leaves pictures out, or --redo was stopped inside a
\* directory: what that leaves may not even be usable and, where something had been
\* accepted, no longer shows why the tones are wrong. And no run costs the user the
\* recipe.
DeliversCurrent ==
    /\ (exitCode = "done" /\ ~ past.gap) =>
          /\ ~ outdated[LastPhase]
          /\ \/ out[LastPhase] = "whole"
             \/ out[LastPhase] = "part" /\ (past.accepted \/ past.warned \/ past.torn)
             \/ out[LastPhase] = "unusable" /\ past.torn
             \/ out[LastPhase] = "wrong" /\ past.torn /\ past.accepted
    /\ past.edited => xmp = "edited"
=============================================================================
