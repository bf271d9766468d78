---------------------------- MODULE MapillaryStream ----------------------------
(***************************************************************************)
(* Streams of Mapillary photos for one bounding box (mapillary_routes and  *)
(* cache_service): each sends what is cached, makes sure that there is a   *)
(* row for the region, fetches from Mapillary with retries, caches what it *)
(* got and sends the rest, up to a limit.  Several clients look at the     *)
(* same place at the same time and share the cache; a stream is cancelled  *)
(* when its client goes away.  The pace of the fetches is TokenBucket.     *)
(***************************************************************************)
EXTENDS Integers, FiniteSets

CONSTANTS
    Streams,
    Pictures,       \* what Mapillary has in the box
    Limit,          \* effective_max_photos
    MaxRetries      \* max_retries

ASSUME StreamAssumption ==
    /\ IsFiniteSet(Streams) /\ IsFiniteSet(Pictures)
    /\ Limit \in Nat \ {0} /\ MaxRetries \in Nat

VARIABLES
    cache,      \* mapillary_photo_cache
    region,     \* the row of the box in cached_regions
    hidden,     \* what the user hides, alone or with its creator
    stream,
    twice,      \* history: a stream sent a picture again
    upstream    \* history: streams whose fetch failed

streamVars == <<cache, region, hidden, stream, twice, upstream>>

IdleStream == [at |-> "idle", sent |-> {}, count |-> 0, attempt |-> 0, batch |-> {}]

StreamTypeOK ==
    /\ cache \subseteq Pictures /\ hidden \subseteq Pictures
    /\ region \in {"none", "incomplete", "complete"}
    /\ stream \in [Streams ->
          [at : {"idle", "open", "insert", "fetch", "got", "cached", "done", "error"},
           sent : SUBSET Pictures, count : 0..Cardinality(Pictures) + Limit,
           attempt : 0..MaxRetries, batch : SUBSET Pictures]]
    /\ twice \in BOOLEAN /\ upstream \subseteq Streams

StreamInit ==
    /\ cache \in SUBSET Pictures /\ region = "none" /\ hidden = {}
    /\ stream = [s \in Streams |-> IdleStream]
    /\ twice = FALSE /\ upstream = {}

-----------------------------------------------------------------------------
Becomes(s, at) == stream' = [stream EXCEPT ![s].at = at]

StreamEnds(s, how) == stream' = [stream EXCEPT ![s] = [IdleStream EXCEPT !.at = how]]

Send(s, at, pictures, seen) ==
    /\ stream' = [stream EXCEPT ![s] =
          [stream[s] EXCEPT !.at = at, !.sent = @ \cup seen, !.batch = {},
                    !.count = @ + Cardinality(pictures)]]
    /\ twice' = (twice \/ pictures \cap stream[s].sent # {})

\* A condition of the query on the cache, and the same of what was fetched.
apply_mapillary_hidden_content_filters == cache \ hidden
filter_mapillary_photos_list(pictures) == pictures \ hidden

\* What the user does not hide, up to Limit: whichever the newest or the cells
\* of the grid leave.
get_cached_photos_in_bbox ==
    LET visible == apply_mapillary_hidden_content_filters IN
    {sample \in SUBSET visible :
        /\ Cardinality(sample) = Cardinality(visible) \/ Cardinality(sample) = Limit
        /\ Cardinality(sample) <= Limit}

SendsCached(s) ==
    /\ stream[s].at = "idle"
    /\ \E sample \in get_cached_photos_in_bbox : Send(s, "open", sample, sample)
    /\ UNCHANGED <<cache, region, hidden, upstream>>

\* Live fetching is skipped when the cache has filled the limit.
FindsRegion(s) ==
    /\ stream[s].at = "open"
    /\ IF stream[s].count >= Limit
         THEN StreamEnds(s, "done")
         ELSE Becomes(s, IF region = "none" THEN "insert" ELSE "fetch")
    /\ UNCHANGED <<cache, region, hidden, twice, upstream>>

\* Faulty variant: the unique constraint fails the second of two inserts.
InsertFails == "error"

FoundAgain == "fetch"

\* Of two inserts of one box the second finds the row of the first.
InsertsRegion(s) ==
    /\ stream[s].at = "insert"
    /\ IF region = "none"
         THEN region' = "incomplete" /\ Becomes(s, "fetch")
         ELSE Becomes(s, FoundAgain) /\ UNCHANGED region
    /\ UNCHANGED <<cache, hidden, twice, upstream>>

\* A time-out, an error of the server, or 429.
FetchRetries(s) ==
    /\ stream[s].at = "fetch" /\ stream[s].attempt < MaxRetries
    /\ stream' = [stream EXCEPT ![s].attempt = @ + 1]
    /\ UNCHANGED <<cache, region, hidden, twice, upstream>>

FetchFails(s) ==
    /\ stream[s].at = "fetch"
    /\ StreamEnds(s, "error")
    /\ upstream' = upstream \cup {s}
    /\ UNCHANGED <<cache, region, hidden, twice>>

Fetched(s, batch) ==
    /\ stream[s].at = "fetch" /\ Cardinality(batch) <= Limit
    /\ stream' = [stream EXCEPT ![s] = [@ EXCEPT !.at = "got", !.batch = batch]]
    /\ UNCHANGED <<cache, region, hidden, twice, upstream>>

\* cache_photos: pictures another stream has inserted meanwhile are skipped.
\* A box Mapillary has nothing in is complete.
CachesBatch(s) ==
    /\ stream[s].at = "got"
    /\ cache' = cache \cup stream[s].batch
    /\ IF stream[s].batch = {}
         THEN region' = "complete" /\ StreamEnds(s, "done")
         ELSE Becomes(s, "cached") /\ UNCHANGED region
    /\ UNCHANGED <<hidden, twice, upstream>>

\* Faulty variant: what the cache had is sent again.
Everything(s) == stream[s].batch

Unsent(s) == stream[s].batch \ stream[s].sent

\* Filtered again by what the user hides, and cut to what is left of the limit.
SendsLive(s) ==
    /\ stream[s].at = "cached"
    /\ LET visible == filter_mapillary_photos_list(Unsent(s))
           room == Limit - stream[s].count
       IN \E chunk \in SUBSET visible :
             /\ Cardinality(chunk) = Cardinality(visible) \/ Cardinality(chunk) = room
             /\ Cardinality(chunk) <= room
             /\ Send(s, "done", chunk, Unsent(s))
    /\ UNCHANGED <<cache, region, hidden, upstream>>

\* The client closes the connection.
Cancelled(s) ==
    /\ stream[s].at \in {"open", "insert", "fetch", "got", "cached"}
    /\ StreamEnds(s, "done")
    /\ UNCHANGED <<cache, region, hidden, twice, upstream>>

\* A photo, or all that one creator has here.
UserHides(pictures) ==
    /\ ~ pictures \subseteq hidden
    /\ hidden' = hidden \cup pictures
    /\ UNCHANGED <<cache, region, stream, twice, upstream>>

StreamNext ==
    \/ \E s \in Streams :
        \/ SendsCached(s) \/ FindsRegion(s) \/ InsertsRegion(s)
        \/ FetchRetries(s) \/ FetchFails(s) \/ CachesBatch(s) \/ SendsLive(s)
        \/ \E batch \in SUBSET Pictures : Fetched(s, batch)
        \/ Cancelled(s)
    \/ \E pictures \in SUBSET Pictures : UserHides(pictures)

StreamSpec == StreamInit /\ [][StreamNext]_streamVars

-----------------------------------------------------------------------------
\* A stream shows a picture once and at most Limit of them, although the cache
\* it began with has grown by its own fetch and by those of other streams.
SentOnceWithinLimit == ~ twice /\ \A s \in Streams : stream[s].count <= Limit

\* A stream fails only because Mapillary does, never because another stream
\* works on the same box at the same time.
OnlyUpstreamFails == \A s \in Streams : stream[s].at = "error" => s \in upstream
=============================================================================
