------------------------------ MODULE Curation ------------------------------
(***************************************************************************)
(* What the workbench says of one annotation, in one respect (`aspect`):   *)
(* its name, its rectangle, where the thing is, its Wikipedia page, whether *)
(* another photo shows it (enrich routers/annotations.py, geocode.py,      *)
(* matching.py, proto.py, calibrate.py, facts.py).  A fact is a graph of   *)
(* its own whose name is a hash of what it says; that a fact is about the  *)
(* annotation is in a second graph, and what was decided about it in a     *)
(* third.  Every request is a run that writes to one after the other, each *)
(* by a call of its own, and takes nothing back when a later call fails.   *)
(*                                                                         *)
(* Parsing, scoring, distances and the text of a body are left out: a body *)
(* is what it says in this respect.                                        *)
(***************************************************************************)
EXTENDS FiniteSets

CONSTANTS
    Meanings,       \* names, rectangles, places, pages: what a fact may say
    Unsaid,         \* a body or an answer that says nothing
    Verbs           \* requests that write; each is made at most once

ASSUME CurationAssumption == Unsaid \notin Meanings

VARIABLES
    aspect,         \* which predicate the behaviour is about
    subject,        \* the annotation in annotation_mirror
    loaded,         \* facts whose graph is in the store
    linked,         \* facts the meta graph links to the annotation
    decision,       \* the curation graph
    verb,           \* the requests
    answer,         \* what was last read for graduation or for a search, while it is up to date
    undisturbed,    \* history: requests since whose read nobody else has decided
    standing        \* history: what the last undisturbed edit set, until the next decision

curationVars == <<aspect, subject, loaded, linked, decision, verb, answer,
                  undisturbed, standing>>

Aspects == {"label", "geometry", "anchor", "wiki", "depicted", "proto", "calibration"}
Decisions == {"proposed", "approved", "rejected"}
Sayings == Meanings \cup {Unsaid}

NoSubject == [origin |-> "none", current |-> FALSE, says |-> Unsaid]
IdleVerb == [way |-> "load", at |-> "idle", fact |-> Unsaid, prior |-> {}, to |-> "proposed"]
NoAnswer == [at |-> "none", fact |-> Unsaid]
Writing == {"ready", "loaded", "linked", "decided"}

CurationTypeOK ==
    /\ aspect \in Aspects
    /\ subject \in [origin : {"none", "hillview", "workbench", "deleted"}, current : BOOLEAN,
                says : Sayings]
    /\ loaded \subseteq Meanings /\ linked \subseteq Meanings
    /\ decision \in [Meanings -> Decisions]
    /\ verb \in [Verbs -> [way : {"edit", "approve", "load", "verdict"},
                           at : Writing \cup {"idle", "succeeded", "stopped"},
                           fact : Sayings, prior : SUBSET Meanings, to : Decisions]]
    /\ answer \in [at : {"none", "read", "landed", "pending", "create", "search"}, fact : Sayings]
    /\ undisturbed \subseteq Verbs
    /\ standing \in Sayings

CurationInit ==
    /\ aspect \in Aspects
    /\ subject \in {NoSubject} \cup [origin : {"hillview"}, current : {TRUE}, says : Sayings]
    /\ loaded = {} /\ linked = {}
    /\ decision = [f \in Meanings |-> "proposed"]
    /\ verb = [a \in Verbs |-> IdleVerb]
    /\ answer = NoAnswer
    /\ undisturbed = {} /\ standing = Unsaid

Approved == {f \in Meanings : decision[f] = "approved"}
\* A verdict asks for no row, and what a photo shows has none.
RowMatters == aspect \notin {"depicted", "proto", "calibration"}
RowExists == subject.origin \in {"hillview", "workbench"}

-----------------------------------------------------------------------------
(* The row.  A row that a user has drawn is changed in place; one that is  *)
(* mirrored only by the next sync, which may also find it gone or back.    *)

Draw ==
    /\ subject.origin = "none"
    /\ \E s \in Sayings : subject' = [origin |-> "workbench", current |-> TRUE, says |-> s]

Redraw ==
    /\ subject.origin = "workbench"
    /\ \E s \in Sayings : subject' = [subject EXCEPT !.says = s]

Erase ==
    /\ subject.origin = "workbench"
    /\ subject' = [NoSubject EXCEPT !.origin = "deleted"]

SyncRow ==
    /\ subject.origin = "hillview"
    /\ \E s \in Sayings, c \in BOOLEAN : subject' = [subject EXCEPT !.says = s, !.current = c]

RowChanges ==
    /\ RowMatters /\ (Draw \/ Redraw \/ Erase \/ SyncRow)
    /\ answer' = IF answer.at \in {"read", "search"} THEN answer ELSE NoAnswer
    /\ UNCHANGED <<aspect, loaded, linked, decision, verb, undisturbed, standing>>

-----------------------------------------------------------------------------
(* Requests that write: what each checks and reads before its run is made  *)

Begin(a, way, f, prior, to) ==
    /\ verb[a].at = "idle"
    /\ verb' = [verb EXCEPT ![a] = [way |-> way, at |-> "ready", fact |-> f,
                                    prior |-> prior, to |-> to]]
    /\ undisturbed' = undisturbed \cup {a}
    /\ UNCHANGED <<aspect, subject, loaded, linked, decision, answer, standing>>

\* Faulty variant: an edit demotes what it sets again, too.
PriorAll(f) == Approved

Prior(f) == Approved \ {f}

SetLabel(a, f) ==
    /\ aspect = "label" /\ RowExists
    /\ Begin(a, "edit", f, Prior(f), "approved")

SetGeometry(a, f) ==
    /\ aspect = "geometry" /\ RowExists
    /\ Begin(a, "edit", f, Prior(f), "approved")

\* Nobody is demoted: a second pin stands beside the first.
PinAnchor(a, f) ==
    /\ aspect = "anchor" /\ RowExists
    /\ Begin(a, "approve", f, {}, "approved")

\* The page is approved; its title as a name and its place as an anchor are
\* only proposed.
AttachWikipedia(a, f) ==
    /\ aspect \in {"wiki", "label", "anchor"} /\ RowExists
    /\ Begin(a, IF aspect = "wiki" THEN "approve" ELSE "load", f, {}, "approved")

\* The body is read before the run is made.
ParseRun(a) ==
    /\ aspect \in {"label", "wiki"} /\ RowExists /\ subject.current /\ subject.says # Unsaid
    /\ Begin(a, "load", subject.says, {}, "proposed")

\* The search for a name answers with any places; its outcome is cached,
\* errors included.
GeocodeRun(a, f) ==
    /\ aspect = "anchor" /\ RowExists /\ subject.current
    /\ Begin(a, "load", f, {}, "proposed")

\* A place seen in a photo, and how the photo is calibrated, are facts about
\* something that is no row here.
PlacePoi(a, f) == aspect = "proto" /\ Begin(a, "load", f, {}, "proposed")
AcceptCalibration(a, f) == aspect = "calibration" /\ Begin(a, "load", f, {}, "proposed")

Verdict(a, f, to) ==
    /\ aspect = "depicted"
    /\ Begin(a, "verdict", f, {}, to)

AsksToWrite(a) ==
    \/ ParseRun(a)
    \/ \E f \in Meanings : \/ SetLabel(a, f) \/ SetGeometry(a, f) \/ PinAnchor(a, f)
                           \/ AttachWikipedia(a, f) \/ GeocodeRun(a, f) \/ PlacePoi(a, f)
                           \/ AcceptCalibration(a, f)
                           \/ \E to \in Decisions : Verdict(a, f, to)

-----------------------------------------------------------------------------
(* A run: the fact, its link, the decision, the demotions                  *)

MovesTo(a, at) == verb' = [verb EXCEPT ![a].at = at]

LoadFact(a) ==
    /\ verb[a].at = "ready" /\ MovesTo(a, "loaded")
    /\ loaded' = loaded \cup {verb[a].fact}
    /\ UNCHANGED <<aspect, subject, linked, decision, answer, undisturbed, standing>>

LoadMeta(a) ==
    /\ verb[a].at = "loaded" /\ MovesTo(a, "linked")
    /\ linked' = linked \cup {verb[a].fact}
    /\ UNCHANGED <<aspect, subject, loaded, decision, answer, undisturbed, standing>>

\* One SPARQL update: the old decision is removed and the new one inserted.
CurateUpdate(f, to, by) ==
    /\ decision' = [decision EXCEPT ![f] = to]
    /\ undisturbed' = undisturbed \cap by /\ standing' = Unsaid
    /\ answer' = NoAnswer
    /\ UNCHANGED <<aspect, subject, loaded, linked>>

\* Faulty variant: the decision is taken before the fact is linked.
DecideFirst(a) ==
    /\ verb[a].at \in {"loaded", "linked"} /\ verb[a].way # "load" /\ MovesTo(a, "decided")
    /\ CurateUpdate(verb[a].fact, verb[a].to, {a})

Decide(a) ==
    /\ verb[a].at = "linked" /\ verb[a].way # "load" /\ MovesTo(a, "decided")
    /\ CurateUpdate(verb[a].fact, verb[a].to, {a})

Demote(a, f) ==
    /\ verb[a].at = "decided" /\ f \in verb[a].prior
    /\ verb' = [verb EXCEPT ![a].prior = @ \ {f}]
    /\ CurateUpdate(f, "rejected", {a})

FinishRun(a) ==
    /\ verb[a].at = (IF verb[a].way = "load" THEN "linked" ELSE "decided")
    /\ verb[a].prior = {}
    /\ verb' = [verb EXCEPT ![a] = [IdleVerb EXCEPT !.at = "succeeded", !.fact = verb[a].fact]]
    /\ standing' = IF verb[a].way = "edit" /\ a \in undisturbed THEN verb[a].fact ELSE standing
    /\ undisturbed' = undisturbed \ {a}
    /\ UNCHANGED <<aspect, subject, loaded, linked, decision, answer>>

\* A call fails, applied or not: the run is marked "failed", or stays "running"
\* for ever when the process dies or the request has no handler (verdict).
Stops(a) ==
    /\ verb[a].at \in Writing
    /\ verb' = [verb EXCEPT ![a] = [IdleVerb EXCEPT !.at = "stopped"]]
    /\ undisturbed' = undisturbed \ {a}
    /\ UNCHANGED <<aspect, subject, loaded, linked, decision, answer, standing>>

-----------------------------------------------------------------------------
(* Pages that show facts, and the decisions taken there                    *)

\* Facts of an annotation are found by their links, its candidates by their
\* subject, as are facts about a photo and what is seen in it.
FactsAbout == loaded \cap linked
OnPages == IF RowExists THEN FactsAbout ELSE {}
Candidates == IF RowExists THEN loaded ELSE {}
VerdictsFor == loaded
Protos == loaded
PhotoFacts == loaded

ShownFacts ==
    CASE aspect = "anchor" -> Candidates \cup OnPages
      [] aspect = "depicted" -> VerdictsFor \cup FactsAbout
      [] aspect = "proto" -> Protos
      [] aspect = "calibration" -> PhotoFacts
      [] OTHER -> OnPages

Curate ==
    /\ \E f \in ShownFacts, to \in Decisions : CurateUpdate(f, to, {})
    /\ UNCHANGED verb

-----------------------------------------------------------------------------
(* Who follows the decisions                                               *)

\* Approved facts in any order: the last of several wins. Pins and pages are
\* read as well; nothing supersedes them, and what is read is not followed here.
ReadApproved ==
    /\ aspect \in {"label", "geometry"}
    /\ \E f \in IF Approved = {} THEN {Unsaid} ELSE Approved :
          answer' = [at |-> "read", fact |-> f]
    /\ UNCHANGED <<aspect, subject, loaded, linked, decision, verb, undisturbed, standing>>

SuggestsBody(f) == subject.says # f

Item(f) ==
    IF ~ RowExists \/ ~ subject.current THEN "none"
    ELSE IF subject.origin = "workbench" THEN IF aspect = "geometry" THEN "none" ELSE "create"
    ELSE IF f = Unsaid THEN "none"
    ELSE IF SuggestsBody(f) THEN "pending" ELSE "landed"

ReadRows ==
    /\ answer.at = "read"
    /\ LET item == Item(answer.fact) IN
       answer' = IF item = "none" THEN NoAnswer ELSE [answer EXCEPT !.at = item]
    /\ UNCHANGED <<aspect, subject, loaded, linked, decision, verb, undisturbed, standing>>

\* Any name that is not rejected, approved or not: the last one read.
LabelsFromGraph == {f \in loaded : decision[f] # "rejected"}

Search ==
    /\ aspect = "label" /\ RowExists
    /\ \E f \in LabelsFromGraph : answer' = [at |-> "search", fact |-> f]
    /\ UNCHANGED <<aspect, subject, loaded, linked, decision, verb, undisturbed, standing>>

CurationNext ==
    \/ RowChanges
    \/ \E a \in Verbs : \/ AsksToWrite(a) \/ LoadFact(a) \/ LoadMeta(a) \/ Decide(a)
                        \/ \E f \in Meanings : Demote(a, f)
                        \/ FinishRun(a) \/ Stops(a)
    \/ Curate
    \/ ReadApproved \/ ReadRows \/ Search

CurationSpec == CurationInit /\ [][CurationNext]_curationVars

-----------------------------------------------------------------------------
(* Properties                                                              *)

\* Whatever overlapped, failed or was left half done before: after an edit
\* during which nobody else decided, exactly its fact is approved, and it
\* stays so through parse and geocode runs, attachments, redrawing and syncs
\* until somebody decides again.
EditStands == standing # Unsaid => Approved = {standing}

\* What is put forward for graduation meanwhile is that edit, and it is
\* pending exactly as long as the body says something else.
SuggestionFollows ==
    (standing # Unsaid /\ answer.at \notin {"none", "search"}) =>
        /\ answer.fact = standing
        /\ answer.at = "pending" => subject.says # standing
        /\ answer.at = "landed" => subject.says = standing

\* Places are searched by that name, unless a name was proposed that nobody
\* has decided about: it may be searched instead.
LookupFollows ==
    (standing # Unsaid /\ answer.at = "search" /\ \A f \in loaded : decision[f] # "proposed") =>
        answer.fact = standing

\* A decision, and a run that says it succeeded, never lack what they are
\* about: the fact is in the store, and linked to the annotation wherever
\* pages find it by the link. A run may stop after any of its calls.
DecisionsHaveFacts ==
    /\ \A f \in Meanings : decision[f] # "proposed" =>
          /\ f \in loaded
          /\ aspect \notin {"anchor", "depicted", "proto", "calibration"} => f \in linked
    /\ \A a \in Verbs : verb[a].at = "succeeded" => verb[a].fact \in loaded \cap linked

\* set_label, set_geometry, curate and their readers: the last undisturbed
\* decision is what stands and what is followed, and nothing that is decided
\* lacks the fact it is about.
DecisionsHold == EditStands /\ SuggestionFollows /\ LookupFollows /\ DecisionsHaveFacts

=============================================================================
