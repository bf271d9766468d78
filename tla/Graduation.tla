------------------------------ MODULE Graduation ------------------------------
(***************************************************************************)
(* Annotations drawn or corrected in the enrichment workbench, on their    *)
(* way into Hillview and back: an export package (enrich graduation.py),   *)
(* its application by an administrator (graduation_routes.py), and the     *)
(* sync that mirrors Hillview's annotations and retires the native         *)
(* annotation whose copy it finds (enrich sync.py).  The sync reads a      *)
(* restored dump of Hillview's database, not the database itself.          *)
(***************************************************************************)
EXTENDS Integers, FiniteSets

CONSTANTS
    Natives,        \* annotations drawn in the workbench
    Packages,       \* export packages
    Appliers,       \* applications of a package by an administrator
    MaxVersions     \* bound: rows of photo_annotations

Versions == 1..MaxVersions
NoVersion == 0
NoNative == "none"

ASSUME GraduationAssumption == MaxVersions \in Nat \ {0} /\ NoNative \notin Natives

VARIABLES
    version,        \* photo_annotations
    versions,       \* how many rows it ever had
    dump,           \* the copy the workbench reads
    native,         \* annotation_mirror, origin 'workbench'
    mirror,         \* annotation_mirror, origin 'hillview'
    package,        \* the packages, and where they are
    applying,       \* the applications under way
    sync,           \* the sync under way
    unlinked        \* history: natives a copy of which was edited or deleted,
                    \* or put in by two applications at once

graduationVars ==
    <<version, versions, dump, native, mirror, package, applying, sync, unlinked>>

\* source is source_annotation_id; of is the native the chain began with.
NotThere == [there |-> FALSE, source |-> NoNative, of |-> NoNative, current |-> FALSE,
             event |-> "created", next |-> NoVersion, suggested |-> FALSE]

Row == [there : BOOLEAN, source : Natives \cup {NoNative}, of : Natives \cup {NoNative},
        current : BOOLEAN, event : {"created", "updated", "deleted"},
        next : 0..MaxVersions, suggested : BOOLEAN]

NotMirrored == [has |-> FALSE, row |-> NotThere, missing |-> FALSE]
NoPackage == [at |-> "none", creates |-> {}, sets |-> {}]
NoApply == [at |-> "idle", of |-> "nothing", native |-> NoNative, head |-> NoVersion]
NoSync == [at |-> "idle", changed |-> {}, missing |-> {}, reappeared |-> {}, quiet |-> FALSE]

GraduationTypeOK ==
    /\ version \in [Versions -> Row] /\ dump \in [Versions -> Row]
    /\ versions \in 0..MaxVersions
    /\ native \in [Natives -> {"live", "retired"}]
    /\ mirror \in [Versions -> [has : BOOLEAN, row : Row, missing : BOOLEAN]]
    /\ package \in [Packages -> [at : {"none", "incoming", "applied"},
                                 creates : SUBSET Natives, sets : SUBSET Versions]]
    /\ applying \in [Appliers -> [at : {"idle", "read", "committed"},
                                  of : Packages \cup {"nothing"},
                                  native : Natives \cup {NoNative}, head : 0..MaxVersions]]
    /\ sync \in [at : {"idle", "read", "written"}, quiet : BOOLEAN,
                 changed : SUBSET Versions, missing : SUBSET Versions,
                 reappeared : SUBSET Versions]
    /\ unlinked \subseteq Natives

GraduationInit ==
    /\ version = [v \in Versions |-> NotThere] /\ versions = 0
    /\ dump = version
    /\ native = [n \in Natives |-> "live"]
    /\ mirror = [v \in Versions |-> NotMirrored]
    /\ package = [k \in Packages |-> NoPackage]
    /\ applying = [a \in Appliers |-> NoApply]
    /\ sync = NoSync /\ unlinked = {}

workbench == <<native, mirror, sync>>
hillview == <<version, versions, unlinked>>
transport == <<package, applying>>

-----------------------------------------------------------------------------
(* Hillview: users edit, an account takes its rows with it                 *)

NotDeleted(v) == version[v].there /\ version[v].current /\ version[v].event # "deleted"

\* Nothing that supersedes a row copies its source_annotation_id.
Superseding(old, event, suggested) ==
    [NotThere EXCEPT !.there = TRUE, !.current = TRUE, !.event = event,
                     !.of = version[old].of, !.suggested = suggested]

Superseded(old, new) ==
    [version[old] EXCEPT !.current = FALSE, !.next = new]

Lost(v) == {version[v].of} \ {NoNative}

UserCreates ==
    /\ versions < MaxVersions /\ versions' = versions + 1
    /\ version' = [version EXCEPT ![versions + 1] =
                     [NotThere EXCEPT !.there = TRUE, !.current = TRUE]]
    /\ UNCHANGED <<unlinked, dump, workbench, transport>>

UserChanges(v, event) ==
    /\ NotDeleted(v) /\ versions < MaxVersions /\ versions' = versions + 1
    /\ version' = [version EXCEPT ![v] = Superseded(v, versions + 1),
                                  ![versions + 1] = Superseding(v, event, FALSE)]
    /\ unlinked' = unlinked \cup Lost(v)
    /\ UNCHANGED <<dump, workbench, transport>>

AuthorLeaves(v) ==
    /\ version[v].there
    /\ version' = [w \in Versions |->
          IF w = v THEN NotThere
          ELSE [version[w] EXCEPT !.next = IF @ = v THEN NoVersion ELSE @]]
    /\ unlinked' = unlinked \cup Lost(v)
    /\ UNCHANGED <<versions, dump, workbench, transport>>

DumpRestored ==
    /\ dump # version /\ dump' = version
    /\ sync' = [sync EXCEPT !.quiet = FALSE]
    /\ UNCHANGED <<hillview, native, mirror, transport>>

-----------------------------------------------------------------------------
(* Workbench: the export                                                   *)

\* Rows whose approved facts change the body the mirror last saw.
Suggestible ==
    {v \in Versions : /\ mirror[v].has /\ ~ mirror[v].missing
                      /\ mirror[v].row.current /\ ~ mirror[v].row.suggested}

export(k) ==
    /\ package[k] = NoPackage
    /\ \E creates \in SUBSET {n \in Natives : native[n] = "live"}, sets \in SUBSET Suggestible :
          /\ creates # {} \/ sets # {}
          /\ package' = [package EXCEPT ![k] = [at |-> "incoming", creates |-> creates,
                                                sets |-> sets]]
    /\ UNCHANGED <<hillview, dump, workbench, applying>>

-----------------------------------------------------------------------------
(* Hillview: the application                                               *)

_find_by_source(n) == {v \in Versions : NotDeleted(v) /\ version[v].source = n}

\* The successors of v; a row that is gone cuts the chain.
Follow(v) ==
    IF version[v].there /\ ~ version[v].current /\ version[v].next # NoVersion
      THEN version[v].next ELSE v

_resolve_head(v) ==
    LET at[i \in 0..MaxVersions] == IF i = 0 THEN v ELSE Follow(at[i - 1])
    IN  at[MaxVersions]

Absent(n) == _find_by_source(n) = {}

\* Faulty variant: a create op does not look for an earlier copy.
Unchecked(n) == TRUE

NeedsCopy(n) == Absent(n)

\* The head the op was resolved to may be replaced before the commit.
NeedsBody(v) ==
    LET head == version[_resolve_head(v)] IN
    version[v].there /\ head.event # "deleted" /\ ~ head.suggested

\* The selects of apply_package for one operation of the package.
ApplyReads(a, k) ==
    /\ applying[a] = NoApply /\ package[k].at = "incoming"
    /\ \E op \in {[NoApply EXCEPT !.of = k, !.at = "read", !.native = n] :
                     n \in {m \in package[k].creates : NeedsCopy(m)}}
            \cup {[NoApply EXCEPT !.of = k, !.at = "read", !.head = _resolve_head(v)] :
                     v \in {w \in package[k].sets : NeedsBody(w)}}
            \cup {[NoApply EXCEPT !.of = k, !.at = "committed"]} :
          applying' = [applying EXCEPT ![a] = op]
    /\ UNCHANGED <<hillview, dump, workbench, package>>

ApplyCommits(a) ==
    LET op == applying[a]  new == versions + 1 IN
    /\ op.at = "read" /\ versions < MaxVersions /\ versions' = new
    /\ \/ /\ op.native # NoNative
          /\ version' = [version EXCEPT ![new] =
                [NotThere EXCEPT !.there = TRUE, !.current = TRUE, !.suggested = TRUE,
                                 !.source = op.native, !.of = op.native]]
          /\ unlinked' = unlinked \cup
                {n \in {op.native} : \E b \in Appliers \ {a} : applying[b].native = n}
       \/ /\ op.head # NoVersion /\ version[op.head].there
          /\ version' = [version EXCEPT ![op.head] = Superseded(op.head, new),
                                        ![new] = Superseding(op.head, "updated", TRUE)]
          /\ unlinked' = unlinked \cup Lost(op.head)
    /\ applying' = [applying EXCEPT ![a] = [NoApply EXCEPT !.of = op.of, !.at = "committed"]]
    /\ UNCHANGED <<dump, workbench, package>>

ApplyFails(a) ==
    /\ applying[a].at = "read"
    /\ applying' = [applying EXCEPT ![a] = NoApply]
    /\ UNCHANGED <<hillview, dump, workbench, package>>

\* Every op of the package, applied now or not, is reflected.
Reflected(k) ==
    /\ \A n \in package[k].creates : ~ Absent(n)
    /\ \A v \in package[k].sets :
          version[v].there /\ version[_resolve_head(v)].suggested

\* move_to_applied; the file may be gone already.
ApplyArchives(a) ==
    LET k == applying[a].of IN
    /\ applying[a].at = "committed"
    /\ applying' = [applying EXCEPT ![a] = NoApply]
    /\ package' = IF Reflected(k) THEN [package EXCEPT ![k].at = "applied"] ELSE package
    /\ UNCHANGED <<hillview, dump, workbench>>

-----------------------------------------------------------------------------
(* Workbench: the sync                                                     *)

Mirrored(v) == mirror[v].has

Differs(v) == ~ Mirrored(v) \/ mirror[v].row # dump[v]

\* Faulty variant: the append tier, which only sees rows that are new.
Appended(v) == ~ Mirrored(v)

Changed(v) == Differs(v)

InDump == {v \in Versions : dump[v].there}

\* Step 1 of sync_reconcile: the hashes of both sides.
SyncReads ==
    /\ sync = NoSync
    /\ sync' = [at |-> "read", quiet |-> TRUE,
                changed |-> {v \in InDump : Changed(v)},
                missing |-> {v \in Versions \ InDump : Mirrored(v) /\ ~ mirror[v].missing},
                reappeared |-> {v \in InDump : mirror[v].missing /\ ~ Changed(v)}]
    /\ UNCHANGED <<hillview, dump, native, mirror, transport>>

\* Step 2: the rows are read again, and one may be gone.
SyncWrites ==
    /\ sync.at = "read"
    /\ mirror' = [v \in Versions |->
          IF v \in sync.changed \cap InDump
            THEN [has |-> TRUE, row |-> dump[v], missing |-> FALSE] ELSE mirror[v]]
    /\ sync' = [sync EXCEPT !.at = "written"]
    /\ UNCHANGED <<hillview, dump, native, transport>>

Landed == {n \in Natives : \E v \in Versions : Mirrored(v) /\ mirror[v].row.source = n}

\* Step 3.
SyncStamps ==
    /\ sync.at = "written"
    /\ mirror' = [v \in Versions |->
          IF v \in sync.missing THEN [mirror[v] EXCEPT !.missing = TRUE]
          ELSE IF v \in sync.reappeared THEN [mirror[v] EXCEPT !.missing = FALSE]
          ELSE mirror[v]]
    /\ native' = [n \in Natives |-> IF n \in Landed THEN "retired" ELSE native[n]]
    /\ sync' = NoSync
    /\ UNCHANGED <<hillview, dump, transport>>

SyncFails ==
    /\ sync # NoSync /\ sync' = NoSync
    /\ UNCHANGED <<hillview, dump, native, mirror, transport>>

GraduationNext ==
    \/ UserCreates
    \/ \E v \in Versions :
        UserChanges(v, "updated") \/ UserChanges(v, "deleted") \/ AuthorLeaves(v)
    \/ DumpRestored
    \/ \E k \in Packages : export(k)
    \/ \E a \in Appliers :
        \/ \E k \in Packages : ApplyReads(a, k)
        \/ ApplyCommits(a) \/ ApplyFails(a) \/ ApplyArchives(a)
    \/ SyncReads \/ SyncWrites \/ SyncStamps \/ SyncFails

GraduationSpec == GraduationInit /\ [][GraduationNext]_graduationVars

-----------------------------------------------------------------------------
(* Properties                                                              *)

\* A native annotation has at most one live copy in Hillview, however many
\* packages carry it and however often they are applied - as long as no copy
\* of it was edited, deleted, or put in by two applications at once.
OneCopy ==
    \A n \in Natives \ unlinked :
        Cardinality({v \in Versions : NotDeleted(v) /\ version[v].of = n}) <= 1

\* A sync during which no new dump was restored leaves the mirror equal to
\* the dump: every row as it is, and every row that is gone stamped missing.
SyncCatchesUp ==
    [][SyncStamps /\ sync.quiet =>
         \A v \in Versions :
            IF dump[v].there THEN mirror'[v] = [has |-> TRUE, row |-> dump[v], missing |-> FALSE]
            ELSE Mirrored(v) => mirror'[v].missing]_graduationVars
=============================================================================
