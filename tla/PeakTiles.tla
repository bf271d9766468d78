------------------------------- MODULE PeakTiles -------------------------------
(***************************************************************************)
(* The labels of a panorama come from Overpass, tile by tile               *)
(* (routers/terrain.py: peaks, _tile_task).  A tile that is being fetched  *)
(* is in a registry, and every request for it awaits the one task; a       *)
(* callback of the finished task takes it out again, by tile and not by    *)
(* task.  The event loop runs the callback some time after the task ends.  *)
(* One tile.                                                               *)
(***************************************************************************)
EXTENDS Integers, FiniteSets

CONSTANTS
    Lookups,        \* requests for the tile
    Fetches         \* bound: tasks that are ever created

ASSUME PeakAssumption == "none" \notin Fetches

NoFetch == "none"

VARIABLES
    fetch,          \* the tasks
    registered,     \* _tile_inflight[t]
    cached,         \* _tile_cache[t]: absent, fresh or older than PEAKS_TTL_S
    lookup,         \* the task each request awaits
    overtaken       \* history: a failed task was replaced before its callback ran

peakVars == <<fetch, registered, cached, lookup, overtaken>>

PeakTypeOK ==
    /\ fetch \in [Fetches -> [at : {"new", "running", "ended", "gone"}, ok : BOOLEAN]]
    /\ registered \in Fetches \cup {NoFetch}
    /\ cached \in {"absent", "fresh", "stale"}
    /\ lookup \in [Lookups -> Fetches \cup {NoFetch}]
    /\ overtaken \in BOOLEAN

PeakInit ==
    /\ fetch = [f \in Fetches |-> [at |-> "new", ok |-> FALSE]]
    /\ registered = NoFetch /\ cached = "absent"
    /\ lookup = [q \in Lookups |-> NoFetch]
    /\ overtaken = FALSE

-----------------------------------------------------------------------------
Ended(f) == fetch[f].at \in {"ended", "gone"}

UnderWay == registered # NoFetch /\ ~ Ended(registered)

\* Faulty variant: a request starts a fetch of its own.
NeverUnderWay == FALSE

Joinable == UnderWay

\* A fresh tile is answered at once and changes nothing.
Missed(q) == lookup[q] = NoFetch /\ cached # "fresh"

Join(q) ==
    /\ Missed(q) /\ Joinable
    /\ lookup' = [lookup EXCEPT ![q] = registered]
    /\ UNCHANGED <<fetch, registered, cached, overtaken>>

Failed(f) == Ended(f) /\ ~ fetch[f].ok

Start(q, f) ==
    /\ Missed(q) /\ ~ Joinable /\ fetch[f].at = "new"
    /\ fetch' = [fetch EXCEPT ![f].at = "running"]
    /\ registered' = f
    /\ lookup' = [lookup EXCEPT ![q] = f]
    /\ overtaken' = (overtaken \/ (registered # NoFetch /\ Failed(registered)))
    /\ UNCHANGED cached

\* The database layer or, after its retries, Overpass has the tile or has not.
AttemptEnds(f, ok) ==
    /\ fetch[f].at = "running"
    /\ fetch' = [fetch EXCEPT ![f] = [at |-> "ended", ok |-> ok]]
    /\ cached' = IF ok THEN "fresh" ELSE cached
    /\ UNCHANGED <<registered, lookup, overtaken>>

\* add_done_callback: whatever is registered for the tile is taken out.
PopCallback(f) ==
    /\ fetch[f].at = "ended"
    /\ fetch' = [fetch EXCEPT ![f].at = "gone"]
    /\ registered' = NoFetch
    /\ UNCHANGED <<cached, lookup, overtaken>>

\* The requests are woken after the callback, which was added first: with the
\* tile, with a stale one, or with a hole in a partial answer.
Woken(q) ==
    /\ lookup[q] # NoFetch /\ fetch[lookup[q]].at = "gone"
    /\ lookup' = [lookup EXCEPT ![q] = NoFetch]
    /\ UNCHANGED <<fetch, registered, cached, overtaken>>

\* shield: a client that leaves does not cancel the task.
ClientLeaves(q) ==
    /\ lookup[q] # NoFetch
    /\ lookup' = [lookup EXCEPT ![q] = NoFetch]
    /\ UNCHANGED <<fetch, registered, cached, overtaken>>

\* The tile ages over days, a callback waits for one turn of the loop.
AttemptExpires ==
    /\ \A f \in Fetches : fetch[f].at # "ended"
    /\ cached = "fresh" /\ cached' = "stale"
    /\ UNCHANGED <<fetch, registered, lookup, overtaken>>

PeakNext ==
    \/ \E q \in Lookups : \/ Join(q) \/ Woken(q) \/ ClientLeaves(q)
                          \/ \E f \in Fetches : Start(q, f)
    \/ \E f \in Fetches : PopCallback(f) \/ \E ok \in BOOLEAN : AttemptEnds(f, ok)
    \/ AttemptExpires

PeakSpec == PeakInit /\ [][PeakNext]_peakVars

-----------------------------------------------------------------------------
\* _tile_task: "THE single in-flight fetch for a tile - every concurrent
\* requester awaits this one task", whoever leaves and whenever the cache
\* expires - as long as no failed task was replaced before its callback, which
\* takes the replacement out of the registry.
OneFetchPerTile ==
    overtaken \/ Cardinality({f \in Fetches : fetch[f].at = "running"}) <= 1
=============================================================================
