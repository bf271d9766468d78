------------------------------ MODULE Annotations ------------------------------
(***************************************************************************)
(* Annotations of a photo (annotation_routes) and the moderators' undo     *)
(* (admin_routes).  An annotation is a chain of rows, each superseded by   *)
(* the next; deletion and undo append to it as an edit does.  A request    *)
(* loads the row it supersedes and commits later, without a lock, and an   *)
(* account that is deleted takes its rows out of every chain.              *)
(***************************************************************************)
EXTENDS Integers, FiniteSets

CONSTANTS
    Authors,        \* users; everybody may edit everything
    Edits,          \* requests
    MaxAnnotations  \* bound: rows of photo_annotations

ASSUME AnnotationsAssumption ==
    /\ IsFiniteSet(Authors) /\ "nobody" \notin Authors
    /\ MaxAnnotations \in Nat \ {0}

Rows == 1..MaxAnnotations
NoneYet == 0

VARIABLES
    annotation,     \* the rows; a row that is not there has no author
    used,           \* rows ever inserted
    author,         \* the users that exist
    edit,           \* the requests
    forked,         \* history: chains in which two edits of one row overlapped
    cut             \* history: chains that lost a row with its author

annotationVars == <<annotation, used, author, edit, forked, cut>>

NoAnnotation == [by |-> "nobody", event |-> "created", current |-> FALSE,
                 superseded_by |-> NoneYet, chain |-> NoneYet]

IdleEdit == [row |-> NoneYet, event |-> "created", by |-> "nobody", overlapped |-> FALSE]

AnnotationTypeOK ==
    /\ annotation \in [Rows -> [by : Authors \cup {"nobody"},
                                event : {"created", "updated", "deleted"},
                                current : BOOLEAN, superseded_by : 0..MaxAnnotations,
                                chain : 0..MaxAnnotations]]
    /\ used \in 0..MaxAnnotations
    /\ author \subseteq Authors
    /\ edit \in [Edits -> [row : 0..MaxAnnotations, event : {"created", "updated", "deleted"},
                           by : Authors \cup {"nobody"}, overlapped : BOOLEAN]]
    /\ forked \subseteq Rows /\ cut \subseteq Rows

AnnotationsInit ==
    /\ annotation = [r \in Rows |-> NoAnnotation] /\ used = 0
    /\ author = Authors
    /\ edit = [e \in Edits |-> IdleEdit]
    /\ forked = {} /\ cut = {}

-----------------------------------------------------------------------------
IsThere(r) == annotation[r].by # "nobody"

Predecessors(r) == {q \in Rows : IsThere(q) /\ annotation[q].superseded_by = r}

create_annotation(u) ==
    /\ u \in author /\ used < MaxAnnotations
    /\ used' = used + 1
    /\ annotation' = [annotation EXCEPT ![used + 1] =
          [NoAnnotation EXCEPT !.by = u, !.current = TRUE, !.chain = used + 1]]
    /\ UNCHANGED <<author, edit, forked, cut>>

Opens(e, r, u, event) ==
    edit' = [edit EXCEPT ![e] = [IdleEdit EXCEPT !.row = r, !.by = u, !.event = event]]

\* Faulty variant: a superseded version may be edited.
AnyVersion(r) == IsThere(r)

CurrentVersion(r) == IsThere(r) /\ annotation[r].current

Loadable(r) == CurrentVersion(r)

\* update_annotation and delete_annotation.
LoadsVersion(e, r, u) ==
    /\ edit[e] = IdleEdit /\ u \in author
    /\ Loadable(r) /\ annotation[r].event # "deleted"
    /\ \E event \in {"updated", "deleted"} : Opens(e, r, u, event)
    /\ UNCHANGED <<annotation, used, author, forked, cut>>

\* undo_annotation_event: a creation is undone by a tombstone, anything else
\* by a new version with the content of the row before.
LoadsEvent(e, r, u) ==
    /\ edit[e] = IdleEdit /\ u \in author
    /\ Loadable(r)
    /\ IF annotation[r].event = "created"
         THEN Opens(e, r, u, "deleted")
         ELSE Predecessors(r) # {} /\ Opens(e, r, u, "updated")
    /\ UNCHANGED <<annotation, used, author, forked, cut>>

\* The loaded row and the user are still there when the request commits.
Commits(e) ==
    LET old == edit[e].row  chain == annotation[old].chain IN
    /\ old # NoneYet /\ IsThere(old) /\ edit[e].by \in author
    /\ used < MaxAnnotations
    /\ used' = used + 1
    /\ annotation' =
          [annotation EXCEPT
             ![used + 1] = [by |-> edit[e].by, event |-> edit[e].event, current |-> TRUE,
                            superseded_by |-> NoneYet, chain |-> chain],
             ![old].current = FALSE,
             ![old].superseded_by = used + 1]
    /\ edit' = [f \in Edits |->
                  IF f = e THEN IdleEdit
                  ELSE [edit[f] EXCEPT !.overlapped = @ \/ edit[f].row = old]]
    /\ forked' = IF edit[e].overlapped THEN forked \cup {chain} ELSE forked
    /\ UNCHANGED <<author, cut>>

\* One of the two is gone, or the client is.
EditFails(e) ==
    /\ edit[e] # IdleEdit
    /\ edit' = [edit EXCEPT ![e] = IdleEdit]
    /\ UNCHANGED <<annotation, used, author, forked, cut>>

\* The rows of the user are deleted, and references to them set to NULL.
AccountDeleted(u) ==
    LET gone == {r \in Rows : annotation[r].by = u} IN
    /\ u \in author
    /\ author' = author \ {u}
    /\ annotation' = [r \in Rows |->
          IF r \in gone THEN NoAnnotation
          ELSE IF annotation[r].superseded_by \in gone
               THEN [annotation[r] EXCEPT !.superseded_by = NoneYet] ELSE annotation[r]]
    /\ cut' = cut \cup {annotation[r].chain : r \in gone}
    /\ UNCHANGED <<used, edit, forked>>

AnnotationsNext ==
    \/ \E u \in Authors : create_annotation(u) \/ AccountDeleted(u)
    \/ \E e \in Edits :
        \/ \E r \in Rows, u \in Authors : LoadsVersion(e, r, u) \/ LoadsEvent(e, r, u)
        \/ Commits(e) \/ EditFails(e)

AnnotationsSpec == AnnotationsInit /\ [][AnnotationsNext]_annotationVars

-----------------------------------------------------------------------------
\* An annotation has exactly one current version, after any number of edits,
\* deletions and undos by anybody: two only where two edits of one version
\* overlapped, none only where an author's account was deleted.
OneTip ==
    \A c \in Rows \ (forked \cup cut) :
        annotation[c].chain = c =>
            Cardinality({r \in Rows : annotation[r].chain = c /\ annotation[r].current}) = 1
=============================================================================
