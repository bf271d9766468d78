------------------------------- MODULE Listings -------------------------------
(***************************************************************************)
(* The readers of the photo table.  A client walks a feed page by page     *)
(* (activity_routes, photo_routes list_photos, user_routes get_user_photos,*)
(* bestof_routes, the sitemap), asks for a box of the map or for the       *)
(* timeline around a photo (hillview_routes), and opens what it was shown. *)
(* Every page, and every statement of one answer, reads a table that       *)
(* uploads, edits, ratings and hides have changed since the one before.    *)
(*                                                                         *)
(* One reader, who may be signed in as "me".  All photos lie in the box    *)
(* that is asked for, and all have a location.                             *)
(***************************************************************************)
EXTENDS Integers, FiniteSets, SequencesExt

CONSTANTS
    Shots,          \* ids of photos: numbers, since readers order by them
    PageSize,
    MaxWrites       \* bound: changes of the table in one behaviour

ASSUME ListingsAssumption ==
    /\ Shots \subseteq Nat \ {0} /\ IsFiniteSet(Shots)
    /\ PageSize \in Nat \ {0} /\ MaxWrites \in Nat

VARIABLES
    gallery,        \* the table; gallery[s].at = 0 is a row that is not there yet
    hides,          \* what "me" hides: photos, and whether the user "you"
    viewer, feed, filter,
    walk,           \* the reader's progress
    writes

listingVars == <<gallery, hides, viewer, feed, filter, walk, writes>>

Times == 1..3

\* at: uploaded_at, for the timeline effective_at. name: the original file name.
Listed == [at : Times \cup {0}, name : 0..1, owner : {"me", "you"},
           status : {"authorized", "completed"}, public : BOOLEAN, gone : BOOLEAN,
           featured : BOOLEAN, analysis : {"none", "fits", "fails"}, liked : 0..1]

CursorFeeds == {"recent", "mine", "user", "best"}
Feeds == CursorFeeds \cup {"sitemap", "map", "timeline", "welcome"}

\* cursor: of a feed, the position of the last photo; of the sitemap, the total
\* and the offset; of the timeline, the anchor. older: the timeline's first
\* half; on the map, the picks. cuts: the cursors used; steady: photos
\* listed all along, and not changed.
NewWalk == [at |-> "idle", cursor |-> [at |-> 0, name |-> 0, id |-> 0], older |-> <<>>,
            seen |-> <<>>, cuts |-> {}, steady |-> {}, moreOlder |-> FALSE,
            moreNewer |-> FALSE, quiet |-> TRUE, opened |-> "nothing"]

ListingTypeOK ==
    /\ gallery \in [Shots -> Listed]
    /\ hides \in [shots : SUBSET Shots, user : BOOLEAN]
    /\ viewer \in {"me", "anonymous"} /\ feed \in Feeds
    /\ filter \in {"off", "strict", "lenient"}
    /\ walk.at \in {"idle", "paging", "anchored", "older", "newer", "picked", "fallback",
                   "done", "opened"}
    /\ Range(walk.seen) \cup Range(walk.older) \cup walk.steady \subseteq Shots
    /\ walk.cuts \subseteq Times /\ writes \in 0..MaxWrites

-----------------------------------------------------------------------------
(* What each reader lists                                                  *)

\* apply_hidden_content_filters: nothing is hidden from the anonymous.
NotHidden(s) ==
    viewer = "me" => s \notin hides.shots /\ ~ (hides.user /\ gallery[s].owner = "you")

Present(s) == gallery[s].at # 0 /\ ~ gallery[s].gone

IsProcessed(s) == gallery[s].status = "completed"

\* The conditions of the content filters hold; a photo without an analysis has none.
Fits(s) == gallery[s].analysis = "fits" \/ (filter = "lenient" /\ gallery[s].analysis = "none")

\* _timeline_base_query excludes what the filters do not let through.
OnTimeline(s) ==
    /\ IsProcessed(s)
    /\ gallery[s].public \/ gallery[s].owner = viewer
    /\ filter # "off" => Fits(s)
    /\ NotHidden(s)

\* query_photos_in_bounds; a photo that does not fit is flagged and comes last.
InBox(s) == gallery[s].public /\ IsProcessed(s) /\ NotHidden(s)

\* query_picked_photos does not ask whether the photo is processed.
Pickable(s) == Present(s) /\ gallery[s].public /\ NotHidden(s)

InActivity(s) == IsProcessed(s) /\ NotHidden(s)
Mine(s) == gallery[s].owner = viewer
OfUser(s) == gallery[s].owner = "you" /\ NotHidden(s)
Ranked(s) == NotHidden(s)

\* Only photos with something worth indexing; here, featured ones.
Indexed(s) == gallery[s].public /\ IsProcessed(s) /\ gallery[s].featured

\* At least MIN_ANNOTATION_COUNT annotations.
Welcoming(s) == gallery[s].public /\ IsProcessed(s) /\ gallery[s].liked = 1

Shown(s) ==
    /\ Present(s)
    /\ CASE feed = "recent" -> InActivity(s)
         [] feed = "mine" -> Mine(s)
         [] feed = "user" -> OfUser(s)
         [] feed = "best" -> Ranked(s)
         [] feed = "sitemap" -> Indexed(s)
         [] feed = "map" -> InBox(s)
         [] feed = "timeline" -> OnTimeline(s)
         [] feed = "welcome" -> Welcoming(s)

\* build_filter_expressions: featured, fits, not analysed, does not fit.
Tier(s) ==
    CASE gallery[s].featured -> 0
      [] filter = "off" \/ gallery[s].analysis = "fits" -> 1
      [] gallery[s].analysis = "none" -> 2
      [] OTHER -> 3

Position(s) == [at |-> gallery[s].at, name |-> gallery[s].name, id |-> s]

KeyBefore(a, b) ==
    \/ a.at < b.at
    \/ a.at = b.at /\ a.name < b.name
    \/ a.at = b.at /\ a.name = b.name /\ a.id < b.id

\* ORDER BY of each reader: a may come before b. Ties are in any order.
MayPrecede(a, b) ==
    CASE feed = "timeline" -> KeyBefore(Position(a), Position(b))
      [] feed \in {"best", "welcome"} ->
                          \/ gallery[a].liked > gallery[b].liked
                          \/ gallery[a].liked = gallery[b].liked /\ a > b
      [] feed = "map" -> \/ Tier(a) < Tier(b)
                         \/ Tier(a) = Tier(b) /\ gallery[a].at >= gallery[b].at
      [] OTHER -> gallery[a].at >= gallery[b].at

Orderings(S) ==
    {q \in SetToSeqs(S) : \A i, j \in 1..Cardinality(S) : i < j => MayPrecede(q[i], q[j])}

FirstOf(n, q) == SubSeq(q, 1, IF n < Len(q) THEN n ELSE Len(q))
-----------------------------------------------------------------------------
(* Initial tables, those that matter to the feed                           *)

PlainRow == [at |-> 1, name |-> 0, owner |-> "you", status |-> "completed", public |-> TRUE,
             gone |-> FALSE, featured |-> FALSE, analysis |-> "none", liked |-> 0]

RowsFor(f) ==
    CASE f \in {"recent", "user"} -> {[PlainRow EXCEPT !.at = t] : t \in 0..2}
      [] f = "mine" -> {[PlainRow EXCEPT !.at = t, !.owner = "me"] : t \in 0..2}
      [] f \in {"best", "welcome"} -> {[PlainRow EXCEPT !.liked = n] : n \in 0..1}
      [] f = "sitemap" -> {[PlainRow EXCEPT !.at = t, !.featured = TRUE] : t \in 0..2}
      [] f = "map" -> {[PlainRow EXCEPT !.featured = x, !.analysis = "fails"] :
                          x \in BOOLEAN} \cup {PlainRow}
      [] f = "timeline" -> {[PlainRow EXCEPT !.name = n] : n \in 0..1}
                              \cup {[PlainRow EXCEPT !.at = 2]}

\* The listing of one's own photos asks for a session, and crawlers have none.
\* What the anonymous see of the timeline is what a user sees who hides nothing.
ReadersOf(f) ==
    CASE f \in {"mine", "timeline"} -> {"me"}
      [] f \in {"sitemap", "welcome"} -> {"anonymous"}
      [] OTHER -> {"me", "anonymous"}

\* show_unanalyzed lets photos pass that nobody has analysed.
FiltersOf(f) ==
    CASE f = "map" -> {"off", "strict"} [] f = "timeline" -> {"off", "strict", "lenient"}
      [] OTHER -> {"off"}

ListingsStart(f) ==
    /\ feed = f
    /\ gallery \in [Shots -> RowsFor(f)]
    /\ viewer \in ReadersOf(f) /\ filter \in FiltersOf(f)
    /\ hides = [shots |-> {}, user |-> FALSE]
    /\ walk = NewWalk /\ writes = 0

ListingsInit == \E f \in Feeds : ListingsStart(f)

-----------------------------------------------------------------------------
(* The table changes                                                       *)

\* A change before the walk begins would only make another table to begin with.
TableWritten ==
    /\ walk.at # "idle"
    /\ writes < MaxWrites /\ writes' = writes + 1
    /\ UNCHANGED <<viewer, feed, filter>>
    /\ walk' = [walk EXCEPT !.quiet = FALSE,
                            !.steady = {s \in @ : gallery'[s] = gallery[s] /\ Shown(s)'}]

RowBecomes(s, r) ==
    /\ gallery[s].at # 0 /\ ~ gallery[s].gone
    /\ gallery' = [gallery EXCEPT ![s] = r] /\ r # gallery[s]
    /\ UNCHANGED hides /\ TableWritten

\* authorize_upload: a new row, newer than all others.
RowAppears(s) ==
    /\ gallery[s].at = 0
    /\ \E mine, public \in BOOLEAN :
         gallery' = [gallery EXCEPT ![s] =
            [PlainRow EXCEPT !.at = 3, !.owner = IF mine THEN "me" ELSE "you",
                             !.status = "authorized", !.public = public]]
    /\ UNCHANGED hides /\ TableWritten

\* save_processed_photo; the capture time moves the photo on the timeline.
RowCompletes(s) ==
    \E t \in Times :
        /\ feed # "timeline" => t = gallery[s].at
        /\ RowBecomes(s, [gallery[s] EXCEPT !.status = "completed", !.at = t])

RowGoes(s) == RowBecomes(s, [gallery[s] EXCEPT !.gone = TRUE])

\* A moderator features a photo; other fields that edits change are not listed by.
edit_photo(s) == RowBecomes(s, [gallery[s] EXCEPT !.featured = ~ @])

\* Ratings and annotations change the score.
Scored(s) == RowBecomes(s, [gallery[s] EXCEPT !.liked = 1 - @])

set_photo_analysis(s) ==
    \E a \in {"fits", "fails"} : RowBecomes(s, [gallery[s] EXCEPT !.analysis = a])

Hides(h) == viewer = "me" /\ h # hides /\ hides' = h /\ UNCHANGED gallery /\ TableWritten

HidesOrShowsPhoto(s) ==
    Hides([hides EXCEPT !.shots = IF s \in @ THEN @ \ {s} ELSE @ \cup {s}])

HidesOrShowsUser == Hides([hides EXCEPT !.user = ~ @])

TableChanges ==
    \/ \E s \in Shots : \/ RowAppears(s) \/ RowCompletes(s) \/ RowGoes(s)
                        \/ HidesOrShowsPhoto(s)
                        \/ feed \in {"map", "sitemap"} /\ edit_photo(s)
                        \/ feed \in {"best", "welcome"} /\ Scored(s)
                        \/ filter # "off" /\ set_photo_analysis(s)
    \/ HidesOrShowsUser

-----------------------------------------------------------------------------
(* Feeds, page by page                                                     *)

Walks(w) == walk' = w /\ UNCHANGED <<gallery, hides, viewer, feed, filter, writes>>

StartOfWalk == [walk EXCEPT !.steady = {s \in Shots : Shown(s)}]

\* Faulty variant: the photo at the cursor is listed again.
FromCursor(s) == gallery[s].at <= walk.cursor.at

\* The timestamp of the last photo of the page before, alone.
BeyondCursor(s) == gallery[s].at < walk.cursor.at

\* bestof: score and id of the last photo.
BelowCursor(s) ==
    \/ gallery[s].liked < walk.cursor.at
    \/ gallery[s].liked = walk.cursor.at /\ s < walk.cursor.id

Beyond(s) ==
    \/ walk.at = "idle"
    \/ IF feed = "best" THEN BelowCursor(s) ELSE BeyondCursor(s)

CursorAt(s) == [at |-> IF feed = "best" THEN gallery[s].liked ELSE gallery[s].at,
                name |-> 0, id |-> s]

\* has_more: one photo beyond the limit was found; only then is there a cursor.
GetsPage(f) ==
    /\ feed = f /\ walk.at \in {"idle", "paging"}
    /\ LET w == IF walk.at = "idle" THEN StartOfWalk ELSE walk IN
       \E q \in Orderings({s \in Shots : Shown(s) /\ Beyond(s)}) :
         LET page == FirstOf(PageSize, q) IN
         IF Len(q) > PageSize
           THEN Walks([w EXCEPT !.at = "paging", !.seen = @ \o page,
                                !.cursor = CursorAt(page[PageSize]),
                                !.cuts = @ \cup {gallery[page[PageSize]].at}])
           ELSE Walks([w EXCEPT !.at = "done", !.seen = @ \o page])

get_recent_activity == GetsPage("recent")
list_photos == GetsPage("mine")
get_user_photos == GetsPage("user")
get_best_photos == GetsPage("best")

\* get_sitemap_photo_ids: the total for the index, then pages by offset.
GetsSitemapTotal ==
    /\ feed = "sitemap" /\ walk.at = "idle"
    /\ Walks([StartOfWalk EXCEPT !.at = IF StartOfWalk.steady = {} THEN "done" ELSE "paging",
                            !.cursor.at = Cardinality(StartOfWalk.steady)])

GetsSitemap ==
    /\ feed = "sitemap" /\ walk.at = "paging"
    /\ LET next == walk.cursor.id + PageSize IN
       \E q \in Orderings({s \in Shots : Shown(s)}) :
         Walks([walk EXCEPT !.at = IF next < walk.cursor.at THEN "paging" ELSE "done",
                            !.seen = @ \o SubSeq(q, walk.cursor.id + 1,
                                                 IF next < Len(q) THEN next ELSE Len(q)),
                            !.cursor.id = next])

\* get_nearest_featured_photo: the nearest, if the caller could be located; else,
\* and if there is none, the one with the most annotations.
GetsNearest ==
    /\ feed = "welcome" /\ walk.at = "idle"
    /\ \/ Walks([StartOfWalk EXCEPT !.at = "fallback"])
       \/ \E s \in StartOfWalk.steady : Walks([StartOfWalk EXCEPT !.at = "done", !.seen = <<s>>])

GetsGlobalBest ==
    /\ feed = "welcome" /\ walk.at = "fallback"
    /\ \E q \in Orderings({s \in Shots : Shown(s)}) :
         Walks([walk EXCEPT !.at = "done", !.seen = FirstOf(1, q)])

-----------------------------------------------------------------------------
(* The map, and the timeline                                               *)

\* get_hillview_images: the picked photos first, in a query of their own.
GetsPicks ==
    /\ feed = "map" /\ walk.at = "idle"
    /\ \E picks \in {{}} \cup {{s} : s \in Shots} :
         \E q \in SetToSeqs({s \in picks : Pickable(s)}) :
            Walks([StartOfWalk EXCEPT !.at = "picked", !.seen = q, !.older = SetToSeq(picks)])

GetsBox ==
    /\ walk.at = "picked"
    /\ LET room == PageSize + 1 - Len(walk.seen)
       IN \E q \in Orderings({s \in Shots \ Range(walk.older) : Shown(s)}) :
            Walks([walk EXCEPT !.at = "done", !.older = <<>>,
                               !.seen = IF room > 0 THEN @ \o FirstOf(room, q) ELSE @])

\* The anchor's position is read whether or not the reader may see the anchor.
TimelineAnchor(s) ==
    /\ feed = "timeline" /\ walk.at = "idle" /\ Present(s)
    /\ Walks([StartOfWalk EXCEPT !.at = "anchored", !.cursor = Position(s)])

\* Faulty variant: photos with the anchor's time and name are left out.
BeforeByName(a, b) == a.at < b.at \/ (a.at = b.at /\ a.name < b.name)

OlderThanAnchor(a, b) == KeyBefore(a, b)

TimelineOlder ==
    /\ walk.at = "anchored"
    /\ \E q \in Orderings({s \in Shots : Shown(s) /\ OlderThanAnchor(Position(s), walk.cursor)}) :
         Walks([walk EXCEPT !.at = "older", !.moreOlder = Len(q) > PageSize,
                            !.older = IF Len(q) > PageSize
                                        THEN SubSeq(q, Len(q) - PageSize + 1, Len(q)) ELSE q])

TimelineNewer ==
    /\ walk.at = "older"
    /\ \E q \in Orderings({s \in Shots : Shown(s) /\ KeyBefore(walk.cursor, Position(s))}) :
         Walks([walk EXCEPT !.at = "newer", !.moreNewer = Len(q) > PageSize,
                            !.seen = FirstOf(PageSize, q)])

\* The anchor itself, if it is visible by now.
TimelineAnswers ==
    /\ walk.at = "newer"
    /\ Walks([walk EXCEPT !.at = "done",
                 !.seen = walk.older \o (IF Shown(walk.cursor.id) THEN <<walk.cursor.id>> ELSE <<>>)
                                     \o walk.seen])

-----------------------------------------------------------------------------
(* One photo                                                               *)

OwnPhoto(s) == Present(s) /\ Mine(s)

PublicPhoto(s) == Present(s) /\ NotHidden(s)

\* Whoever was shown a photo opens it.
OpensShown(s, found) ==
    /\ walk.at \in {"paging", "done"} /\ s \in Range(walk.seen)
    /\ Walks([walk EXCEPT !.at = "opened", !.cursor.id = s,
                          !.opened = IF found THEN "found" ELSE "missing"])

get_photo(s) == feed = "mine" /\ OpensShown(s, OwnPhoto(s))
get_public_photo(s) == feed # "mine" /\ OpensShown(s, PublicPhoto(s))
get_photo_share_metadata(s) == OpensShown(s, Present(s))

\* From the map, which only shows public photos.
get_photo_detections(s) ==
    feed = "map" /\ OpensShown(s, Present(s) /\ (gallery[s].public \/ Mine(s)))
mint_share_link(s) == feed = "map" /\ OpensShown(s, Present(s) /\ gallery[s].public)

ListingsNext ==
    \/ TableChanges
    \/ get_recent_activity \/ list_photos \/ get_user_photos \/ get_best_photos
    \/ GetsSitemapTotal \/ GetsSitemap \/ GetsNearest \/ GetsGlobalBest
    \/ GetsPicks \/ GetsBox \/ TimelineOlder \/ TimelineNewer \/ TimelineAnswers
    \/ \E s \in Shots : \/ TimelineAnchor(s)
                        \/ get_photo(s) \/ get_public_photo(s) \/ get_photo_detections(s)
                        \/ get_photo_share_metadata(s) \/ mint_share_link(s)

ListingsSpec == ListingsInit /\ [][ListingsNext]_listingVars

-----------------------------------------------------------------------------
Showings(s) == Cardinality({i \in DOMAIN walk.seen : walk.seen[i] = s})

\* A photo that is listed for as long as the walk takes, and that nobody
\* changes, is shown exactly once.  There are two exceptions: the cursors of
\* the feeds by upload time carry no tie-break, so a photo with the time of
\* a page's last one may be skipped; and the sitemap's offsets are only good
\* as long as the list stays as it is.  Of the welcome there is one photo.
FeedsComplete ==
    walk.at = "done" /\ feed \notin {"map", "timeline"} =>
        \A s \in walk.steady :
            \/ feed = "welcome" /\ Len(walk.seen) = 1
            \/ Showings(s) = 1
            \/ Showings(s) = 0 /\ feed \in CursorFeeds \ {"best"} /\ gallery[s].at \in walk.cuts
            \/ feed = "sitemap" /\ (\/ ~ walk.quiet
                                    \/ \E o \in Shots \ {s} : gallery[o].at = gallery[s].at)

\* The timeline's answer is a contiguous piece of the visible photos around
\* the anchor: in order, none twice, none left out between two others, and
\* none beyond an end that is said to be the end.  Photos that change between
\* the answer's statements are the only exception.
TimelineSlice ==
    walk.at = "done" /\ feed = "timeline" =>
        LET answer == walk.seen
            stay == {i \in DOMAIN answer : answer[i] \in walk.steady}
            missing == {s \in walk.steady : Showings(s) = 0}
            Key(i) == Position(answer[i])
        IN /\ \A i, j \in stay : i < j => KeyBefore(Key(i), Key(j))
           /\ \A s \in missing :
                /\ \/ \A i \in stay : KeyBefore(Position(s), Key(i))
                   \/ \A i \in stay : KeyBefore(Key(i), Position(s))
                /\ IF KeyBefore(Position(s), walk.cursor) THEN walk.moreOlder ELSE walk.moreNewer

\* What a reader was shown and nobody has changed since can be opened.
ListedOpens == walk.opened = "missing" => walk.cursor.id \notin walk.steady

\* What a reader is owed: feeds without omissions or repetitions, a timeline
\* without holes, and that what is listed opens.
ReadersServed == FeedsComplete /\ TimelineSlice /\ ListedOpens
=============================================================================
