--------------------------------- MODULE Marks ---------------------------------
(***************************************************************************)
(* A user's mark on a photo or on another user: a flag, a hide, a rating   *)
(* (flagged_photos_routes, hidden_content_routes, rating_routes).  Each    *)
(* request reads the row and then writes it, and a unique constraint, not  *)
(* a lock, stands between two of them.  One user, one photo, several tabs  *)
(* and a moderator.                                                        *)
(***************************************************************************)
EXTENDS Integers

CONSTANTS
    MarkRequests,
    MaxRows         \* bound: rows the mark ever has

ASSUME MarkAssumption == MaxRows \in Nat \ {0}

VARIABLES
    kind,       \* flag (or hide), or rating
    row,        \* the row of the mark; id 0 is none
    lastId,
    marking

markVars == <<kind, row, lastId, marking>>

Values(k) == IF k = "flag" THEN {"open", "resolved"} ELSE {"up", "down"}

NoRow == [id |-> 0, value |-> "none"]

\* was: what the request asks for has been true since it arrived.
IdleMark == [at |-> "idle", wants |-> "nothing", seen |-> NoRow, was |-> FALSE]

MarkTypeOK ==
    /\ kind \in {"flag", "rating"}
    /\ row \in [id : 0..MaxRows, value : Values(kind) \cup {"none"}]
    /\ (row.id = 0) = (row.value = "none")
    /\ lastId \in 0..MaxRows /\ row.id <= lastId
    /\ marking \in [MarkRequests ->
          [at : {"idle", "read", "ok", "failed"}, was : BOOLEAN,
           wants : {"nothing", "none"} \cup Values(kind),
           seen : [id : 0..MaxRows, value : Values(kind) \cup {"none"}]]]

MarkInit ==
    /\ kind \in {"flag", "rating"}
    /\ row = NoRow /\ lastId = 0
    /\ marking = [q \in MarkRequests |-> IdleMark]

-----------------------------------------------------------------------------
\* A flag that a moderator has resolved is still a flag.
Satisfied(wanted, r) == r.value = wanted \/ (wanted = "open" /\ r.value = "resolved")

Observe(r, rs) ==
    [q \in MarkRequests |->
       [rs[q] EXCEPT !.was = @ \/ (rs[q].at = "read" /\ Satisfied(rs[q].wants, r))]]

MarkEnds(q, result) == [marking EXCEPT ![q].at = result]

Change(r, q) == row' = r /\ marking' = Observe(r, [MarkEnds(q, "ok") EXCEPT ![q].was = TRUE])

Reads(q, wanted) ==
    /\ marking[q].at = "idle"
    /\ marking' = Observe(row, [marking EXCEPT
                    ![q] = [@ EXCEPT !.at = "read", !.wants = wanted, !.seen = row]])
    /\ UNCHANGED <<kind, row, lastId>>

Seen(q) == marking[q].seen

Answers(q, result) ==
    /\ marking' = MarkEnds(q, result)
    /\ UNCHANGED <<kind, row, lastId>>

\* flag_photo, hide_photo, hide_user; set_photo_rating of no rating.
Insert(q) ==
    /\ marking[q].at = "read" /\ marking[q].wants \in {"open", "up", "down"}
    /\ Seen(q) = NoRow
    /\ \/ row # NoRow /\ Answers(q, "failed")
       \/ /\ row = NoRow /\ lastId < MaxRows
          /\ lastId' = lastId + 1
          /\ Change([id |-> lastId + 1, value |-> marking[q].wants], q)
          /\ UNCHANGED kind

\* There is nothing to write: the mark is there, or it is not.
NothingToDo(q) ==
    /\ marking[q].at = "read"
    /\ Satisfied(marking[q].wants, Seen(q))
    /\ Answers(q, IF Seen(q) = NoRow /\ kind = "rating" THEN "failed" ELSE "ok")

\* An UPDATE of a row that is gone is an error.
RowIsThere(q) == row.id = Seen(q).id

\* Faulty variant: the update is not checked.
RowAssumed(q) == TRUE

UpdateApplies(q) == RowIsThere(q)

\* set_photo_rating of an existing rating; resolve_flag.
Update(q) ==
    /\ marking[q].at = "read" /\ marking[q].wants \in {"resolved", "up", "down"}
    /\ Seen(q) # NoRow /\ Seen(q).value # marking[q].wants
    /\ \/ RowIsThere(q) /\ Change([row EXCEPT !.value = marking[q].wants], q)
       \/ ~ RowIsThere(q) /\ marking' = MarkEnds(q, IF UpdateApplies(q) THEN "ok" ELSE "failed")
                          /\ UNCHANGED row
    /\ UNCHANGED <<kind, lastId>>

\* unflag, unhide, delete_photo_rating: a row that is gone is not missed.
Delete(q) ==
    /\ marking[q].at = "read" /\ marking[q].wants = "none"
    /\ Seen(q) # NoRow
    /\ \/ RowIsThere(q) /\ Change(NoRow, q)
       \/ ~ RowIsThere(q) /\ marking' = MarkEnds(q, "ok") /\ UNCHANGED row
    /\ UNCHANGED <<kind, lastId>>

\* resolve_flag of a flag that is not there.
NoFlag(q) ==
    /\ marking[q].at = "read" /\ marking[q].wants = "resolved"
    /\ Seen(q) = NoRow
    /\ Answers(q, "failed")

MarkNext ==
    \E q \in MarkRequests :
        \/ \E wanted \in {"none"} \cup Values(kind) : Reads(q, wanted)
        \/ Insert(q) \/ NothingToDo(q) \/ Update(q) \/ Delete(q) \/ NoFlag(q)

MarkSpec == MarkInit /\ [][MarkNext]_markVars

-----------------------------------------------------------------------------
\* A request that is answered with success had its effect: at some moment
\* between its arrival and its answer the mark was as it asks, whatever the
\* other requests did to the row between its read and its write.
AnsweredIsApplied == \A q \in MarkRequests : marking[q].at = "ok" => marking[q].was
=============================================================================
