------------------------------- MODULE GenPatches ------------------------------
(***************************************************************************)
(* The script that patches the Android project which `android init`        *)
(* generates (patch-android-gen-files.py): it is run after every           *)
(* generation, again whenever something looks wrong, and for two variants  *)
(* of the application over the same tree.  A run reads one file after      *)
(* another, inserts what it does not find, next to something that the      *)
(* template is expected to contain, and writes the file back.              *)
(*                                                                         *)
(* A file is what the script looks for in it: the anchors of the template  *)
(* that are there, and how often each of the script's own marks is.        *)
(***************************************************************************)
EXTENDS Integers, Sequences

CONSTANTS
    Unstable,       \* what the templates of some release may no longer contain
    MaxCopies       \* bound: how often a mark is told to be in a file

ASSUME GenPatchesAssumption == MaxCopies \in Nat \ {0, 1}

VARIABLES
    generated,      \* the project is there
    anchors,        \* what of the templates is in the files
    inserted,       \* how often each mark is
    services,       \* the variant whose google-services.json is there
    devMode,        \* DEV_MODE of this run, or of the next one
    patching,       \* the step under way, 0 when the script is not running
    wentWrong,      \* a step of this run failed
    verdict         \* of the last run, if nothing has been touched since

genVars == <<generated, anchors, inserted, services, devMode, patching, wentWrong, verdict>>

\* What the script looks for in each file; `manifest`, `app`, `colors` and
\* `properties` are the files themselves, if they can be read.
Anchors ==
    [manifest   |-> {"manifest", "application", "activity"},
     app        |-> {"app", "import", "defaultConfig", "release", "rust",
                     "compileOptions", "compileSdk", "targetSdk"},
     colors     |-> {"colors"},
     root       |-> {"kotlinClasspath"},
     buildSrc   |-> {"androidPlugin"},
     properties |-> {"properties"},
     plugin     |-> {"unifiedPush", "pluginCompileOptions"}]

AllAnchors == UNION {Anchors[f] : f \in DOMAIN Anchors}

\* A mark is inserted at its anchor unless one of `seen` is already there.
Insertion(mark, anchor, seen) == [mark |-> mark, anchor |-> anchor, seen |-> seen]
Mark(mark, anchor) == Insertion(mark, anchor, {mark})

\* The file that a step works on, and what it inserts.
PatchStep(target, name, insertions) ==
    [target |-> target, name |-> name, insertions |-> insertions]

SchemeOf(dev) == IF dev THEN "cz.hillviedev" ELSE "cz.hillview"

-----------------------------------------------------------------------------
(* The steps, in the order in which a run takes them                       *)

_find_main_activity == "activity"
_add_deep_link_intent_filters(dev) == Mark(SchemeOf(dev), _find_main_activity)
_add_push_services == Mark("pushServices", "application")

fix_android_manifest(dev) ==
    PatchStep("manifest", "manifest",
         {Mark("namespaces", "manifest"), Mark("permissions", "manifest"),
           Mark("replace", "application"), _add_deep_link_intent_filters(dev),
           _add_push_services})

\* The block is looked for by a name that the release build's reference to it
\* contains as well.
configure_build_gradle ==
    PatchStep("app", "signing",
         {Mark("streamImport", "import"),
           Insertion("signingBlock", "defaultConfig", {"signingBlock", "signingUse"}),
           Mark("signingUse", "release")})

patch_colors_xml == PatchStep("colors", "colors", {Mark("ourColors", "colors")})

_fix_root_build_gradle == PatchStep("root", "kotlin", {Mark("kotlinVersion", "kotlinClasspath")})

_fix_buildsrc_build_gradle ==
    PatchStep("buildSrc", "kotlin", {Mark("kotlinPlugin", "androidPlugin")})

\* It looks for the plugin by its id, and inserts its artifact, which is
\* spelled with a colon: whatever is there, it is inserted.
_add_google_services_to_root ==
    PatchStep("root", "kotlin", {Insertion("googleClasspath", "kotlinClasspath", {})})

_fix_gradle_properties == PatchStep("properties", "kotlin", {Mark("suppressions", "properties")})

_fix_app_build_gradle ==
    PatchStep("app", "kotlin",
         {Mark("versionForcing", "rust"), Mark("jvmTarget", "compileOptions"),
           Mark("googlePlugin", "app")})

\* The plugin's build file is not generated, and has been patched before.
_fix_plugin_build_gradle ==
    PatchStep("plugin", "kotlin", {Mark("firebase", "unifiedPush"),
                                   Mark("pluginOptions", "pluginCompileOptions")})

_set_compile_sdk == PatchStep("app", "sdk", {Mark("compileSdk36", "compileSdk")})
_set_target_sdk == PatchStep("app", "sdk", {Mark("targetSdk36", "targetSdk")})

_patch_16kb_alignment == PatchStep("app", "alignment", {Mark("alignment", "compileSdk")})

copy_google_services_json == PatchStep("app", "services", {})

\* fix_kotlin_versions takes its six parts whatever becomes of each.
fix_kotlin_versions ==
    <<_fix_root_build_gradle, _fix_buildsrc_build_gradle, _add_google_services_to_root,
      _fix_gradle_properties, _fix_app_build_gradle, _fix_plugin_build_gradle>>

Steps(dev) ==
    <<fix_android_manifest(dev), configure_build_gradle, patch_colors_xml>>
    \o fix_kotlin_versions
    \o <<_set_compile_sdk, _set_target_sdk, _patch_16kb_alignment, copy_google_services_json>>

InsertionsOf(dev) == UNION {Steps(dev)[i].insertions : i \in DOMAIN Steps(dev)}
AllInsertions == InsertionsOf(TRUE) \cup InsertionsOf(FALSE)
InsertedMarks == {i.mark : i \in AllInsertions}

\* What is in one file.
MarksIn(target) ==
    {i.mark : i \in {j \in AllInsertions : j.anchor \in Anchors[target]}}

-----------------------------------------------------------------------------
\* Faulty variant: what an earlier run inserted is not looked for.
PatchAnyway(i) == i.anchor \in anchors

\* What is inserted: what has a place, and is not there.
InsertPatch(i) == i.anchor \in anchors /\ \A m \in i.seen : inserted[m] = 0

\* No insertion looks for the mark of one that comes before it in the same step,
\* and no mark is inserted twice by a step.
Patched(step) ==
    [m \in InsertedMarks |->
        IF /\ inserted[m] < MaxCopies
           /\ \E i \in step.insertions : i.mark = m /\ InsertPatch(i)
        THEN inserted[m] + 1 ELSE inserted[m]]

\* A manifest or colours that do not parse, and the one insertion that insists
\* on its anchor; every other step reports success whatever it found.
StepFails(step) ==
    \/ step.name = "manifest" /\ "manifest" \notin anchors
    \/ step.name = "colors" /\ "colors" \notin anchors
    \/ step.name = "alignment" /\ "compileSdk" \notin anchors /\ inserted["alignment"] = 0

CurrentStep == Steps(devMode)[patching]

\* check_prerequisites
StartRun ==
    /\ patching = 0
    /\ IF generated THEN patching' = 1 /\ verdict' = "none"
                    ELSE patching' = 0 /\ verdict' = "refused"
    /\ UNCHANGED <<generated, anchors, inserted, services, devMode, wentWrong>>

\* Without a source for this variant the file of the other one stays.
CopyServices == \E given \in BOOLEAN : services' = IF given THEN SchemeOf(devMode) ELSE services

\* A step that fails does not keep the next one from being taken. The last one
\* does not fail.
RunStep ==
    /\ patching > 0
    /\ inserted' = Patched(CurrentStep)
    /\ IF CurrentStep.name = "services" THEN CopyServices ELSE UNCHANGED services
    /\ IF patching < Len(Steps(devMode))
       THEN /\ patching' = patching + 1 /\ UNCHANGED verdict
            /\ wentWrong' = (wentWrong \/ StepFails(CurrentStep))
       ELSE /\ patching' = 0 /\ wentWrong' = FALSE
            /\ verdict' = IF wentWrong THEN "failed" ELSE "succeeded"
    /\ UNCHANGED <<generated, anchors, devMode>>

\* The script is stopped; a file that was just being written is empty.
Stopped ==
    /\ patching > 0
    /\ patching' = 0 /\ wentWrong' = FALSE
    /\ \/ UNCHANGED <<anchors, inserted>>
       \/ /\ Patched(CurrentStep) # inserted
          /\ anchors' = anchors \ (Anchors[CurrentStep.target] \ {"app", "properties"})
          /\ inserted' = [m \in InsertedMarks |-> IF m \in MarksIn(CurrentStep.target) THEN 0
                                                                        ELSE inserted[m]]
    /\ UNCHANGED <<generated, services, devMode, verdict>>

\* `android init` into a clean directory, with a template that may have changed.
Generate ==
    /\ patching = 0
    /\ generated' = TRUE
    /\ \E gone \in {{}} \cup {{a} : a \in Unstable} :
          anchors' = AllAnchors \ (gone \cup (Anchors.plugin \ anchors))
    /\ inserted' = [m \in InsertedMarks |-> IF m \in MarksIn("plugin") THEN inserted[m] ELSE 0]
    /\ services' = "none" /\ verdict' = "none"
    /\ UNCHANGED <<devMode, patching, wentWrong>>

SwitchMode ==
    /\ patching = 0
    /\ devMode' = ~ devMode
    /\ verdict' = "none"
    /\ UNCHANGED <<generated, anchors, inserted, services, patching, wentWrong>>

\* The project of a checkout: only the plugin's file is in it.
GenInit ==
    /\ generated = FALSE /\ anchors = Anchors.plugin
    /\ inserted = [m \in InsertedMarks |-> IF m \in MarksIn("plugin") THEN 1 ELSE 0]
    /\ services = "none" /\ devMode = FALSE
    /\ patching = 0 /\ wentWrong = FALSE /\ verdict = "none"

GenNext == StartRun \/ RunStep \/ Stopped \/ Generate \/ SwitchMode

GenSpec == GenInit /\ [][GenNext]_genVars

-----------------------------------------------------------------------------
GenTypeOK ==
    /\ generated \in BOOLEAN /\ devMode \in BOOLEAN /\ wentWrong \in BOOLEAN
    /\ anchors \subseteq AllAnchors
    /\ inserted \in [InsertedMarks -> 0..MaxCopies]
    /\ services \in {"none", SchemeOf(TRUE), SchemeOf(FALSE)}
    /\ patching \in 0..Len(Steps(devMode))
    /\ verdict \in {"none", "refused", "failed", "succeeded"}

\* "Idempotent script": however many runs, of whichever variant, were stopped
\* at whatever point before, a run that ends has put everything that this
\* variant needs and the template has a place for into the tree, and nothing
\* is there twice.  (The classpath of Google's plugin is added by every run.)
RunLeavesPatched ==
    /\ \A m \in InsertedMarks \ {"googleClasspath"} : inserted[m] <= 1
    /\ verdict \in {"succeeded", "failed"} =>
          \A i \in InsertionsOf(devMode) : i.anchor \in anchors => inserted[i.mark] > 0
    \* Whoever is told of a success can rely on the page alignment.
    /\ verdict = "succeeded" => inserted["alignment"] = 1
=============================================================================
