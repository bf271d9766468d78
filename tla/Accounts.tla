------------------------------- MODULE Accounts -------------------------------
(***************************************************************************)
(* What administrators do to accounts (admin_routes update_user and        *)
(* delete_user) and users to their own (user_routes delete_user_account).  *)
(* A request loads its target, counts the administrators, deletes photo    *)
(* files one by one, and commits; nothing is locked meanwhile.  Photos keep *)
(* arriving: authorized first, then their files posted, and only then      *)
(* recorded in the sizes that a deletion goes by.                          *)
(***************************************************************************)
EXTENDS Integers, FiniteSets

CONSTANTS Users, Photos, AdminRequests

ASSUME AccountsAssumption ==
    /\ IsFiniteSet(Users) /\ IsFiniteSet(Photos) /\ "nobody" \notin Users

VARIABLES
    there, admins, active,  \* users that exist, their role, is_active
    photo,                  \* the owner, whether row, sizes and files exist, and history
    request,
    excused                 \* history: two removals overlapped, or an admin left

accountVars == <<there, admins, active, photo, request, excused>>

Standing == [admin : BOOLEAN, active : BOOLEAN]

Nobody == [admin |-> FALSE, active |-> FALSE]

\* posting: a file is being streamed; spared: the deletions with a reason to leave
\* files of it, which are: the photo was in processing when its row was read, or was
\* authorized after that; a tree of tiles was not removed, which is not noticed; or
\* an administrator's deletion went on after a failure.
NoPhoto == [owner |-> "nobody", row |-> FALSE, sizes |-> FALSE, posting |-> FALSE,
            file |-> FALSE, spared |-> {}]

\* was: the target as it was loaded; will: as the request wants it; files: the
\* photos still to deal with; named: those whose sizes were recorded when read.
IdleRequest == [at |-> "idle", kind |-> "change", target |-> "nobody", was |-> Nobody,
                will |-> Nobody, files |-> {}, named |-> {}, failed |-> FALSE,
                raced |-> FALSE]

AccountsTypeOK ==
    /\ there \subseteq Users /\ admins \subseteq Users /\ active \subseteq Users
    /\ photo \in [Photos -> [owner : Users \cup {"nobody"}, row : BOOLEAN, sizes : BOOLEAN,
                             posting : BOOLEAN, file : BOOLEAN,
                             spared : SUBSET AdminRequests]]
    /\ request \in [AdminRequests ->
          [at : {"idle", "loaded", "files", "commit", "done"},
           kind : {"change", "delete", "leave"}, target : Users \cup {"nobody"},
           was : Standing, will : Standing, files : SUBSET Photos, named : SUBSET Photos,
           failed : BOOLEAN, raced : BOOLEAN]]
    /\ excused \in BOOLEAN

AccountsInit ==
    /\ there = Users /\ active = Users
    /\ admins \in (SUBSET Users) \ {{}}
    /\ photo = [p \in Photos |-> NoPhoto]
    /\ request = [q \in AdminRequests |-> IdleRequest]
    /\ excused = FALSE

ActiveAdmins == there \cap admins \cap active

accounts == <<there, admins, active>>

Target(q) == request[q].target

\* Requests past the point at which they read the photos of u.
Deleting(u) == {q \in AdminRequests : /\ request[q].at \in {"files", "commit"}
                                      /\ request[q].kind # "change" /\ Target(q) = u}

\* authorize_upload: a new row, or one in the place of the photo's old row.
PhotoArrives(p, u) ==
    /\ u \in there
    /\ photo[p].owner = "nobody" \/ (photo[p].owner = u /\ photo[p].row)
    /\ photo' = [photo EXCEPT ![p].owner = u, ![p].row = TRUE, ![p].sizes = FALSE,
                              ![p].spared = @ \cup Deleting(u)]
    /\ UNCHANGED <<accounts, request, excused>>

\* upload_processed_file: checked, then streamed with nothing held.
FileChecked(p) ==
    /\ photo[p].row /\ ~ photo[p].sizes /\ ~ photo[p].posting
    /\ photo' = [photo EXCEPT ![p].posting = TRUE]
    /\ UNCHANGED <<accounts, request, excused>>

FileStreamed(p, whole) ==
    /\ photo[p].posting
    /\ photo' = [photo EXCEPT ![p].posting = FALSE, ![p].file = @ \/ whole]
    /\ UNCHANGED <<accounts, request, excused>>

\* save_processed_photo.
SizesRecorded(p) ==
    /\ photo[p].row /\ photo[p].file /\ ~ photo[p].sizes
    /\ photo' = [photo EXCEPT ![p].sizes = TRUE]
    /\ UNCHANGED <<accounts, request, excused>>

\* require_admin; an administrator cannot do this to himself.
Loads(q, actor, u, op, will) ==
    /\ request[q].at = "idle"
    /\ actor \in ActiveAdmins /\ u \in there \ {actor}
    /\ op = "delete" => will = Nobody
    /\ LET was == [admin |-> u \in admins, active |-> u \in active] IN
       /\ op = "change" => will # was
       /\ request' = [request EXCEPT ![q] =
             [IdleRequest EXCEPT !.at = "loaded", !.kind = op, !.target = u,
                                 !.was = was, !.will = will]]
    /\ UNCHANGED <<accounts, photo, excused>>

\* Faulty variant: suspended administrators count.
AllAdmins == there \cap admins

Counted == ActiveAdmins

PhotosOf(u) == {p \in Photos : photo[p].owner = u /\ photo[p].row}

\* Every file of it is named in its row, and none is under way.
Complete(p) == photo[p].sizes /\ ~ photo[p].posting

\* Request q reads the rows of u's photos, with the sizes they have now.
ReadsPhotos(q, u) ==
    photo' = [p \in Photos |->
                IF p \in PhotosOf(u) /\ ~ Complete(p)
                THEN [photo[p] EXCEPT !.spared = @ \cup {q}] ELSE photo[p]]

SizesOf(u) == {p \in PhotosOf(u) : photo[p].sizes}

\* _is_last_active_admin.
LastActiveAdmin(was) == was.admin /\ was.active /\ Cardinality(Counted) <= 1

Guarded(q) ==
    LET r == request[q] IN
    /\ r.at = "loaded"
    /\ IF ~ (r.will.admin /\ r.will.active) /\ LastActiveAdmin(r.was)
         THEN /\ request' = [request EXCEPT ![q] = [IdleRequest EXCEPT !.at = "done"]]
              /\ UNCHANGED photo
         ELSE IF r.kind = "change"
         THEN /\ request' = [request EXCEPT ![q] = [r EXCEPT !.at = "commit"]]
              /\ UNCHANGED photo
         ELSE /\ request' = [request EXCEPT ![q] =
                     [r EXCEPT !.at = "files", !.files = PhotosOf(r.target),
                               !.named = SizesOf(r.target)]]
              /\ ReadsPhotos(q, r.target)
    /\ UNCHANGED <<accounts, excused>>

\* delete_user_account has no such guard.
Leaves(q, u) ==
    /\ request[q].at = "idle" /\ u \in there \cap active
    /\ request' = [request EXCEPT ![q] =
          [IdleRequest EXCEPT !.at = "files", !.kind = "leave", !.target = u,
                              !.files = PhotosOf(u), !.named = SizesOf(u)]]
    /\ ReadsPhotos(q, u)
    /\ UNCHANGED <<accounts, excused>>

\* _delete_size of each of the sizes: what is left of a tree of tiles counts as
\* removed ("left"); a file that is left does not ("failed").
Outcomes == {"gone", "left", "failed"}

Sparing(q, outcome) ==
    {k \in {q} : outcome = "left" \/ (outcome = "failed" /\ request[q].kind = "delete")}

FileDeleted(q, p, outcome) ==
    /\ request[q].at = "files" /\ p \in request[q].files \cap request[q].named
    /\ photo' = [photo EXCEPT ![p].file = @ /\ outcome # "gone",
                              ![p].spared = @ \cup Sparing(q, outcome)]
    /\ request' = [request EXCEPT ![q].files = @ \ {p}, ![q].failed = @ \/ outcome = "failed"]
    /\ UNCHANGED <<accounts, excused>>

\* Without sizes there is nothing to delete, which is a success.
NothingToDelete(q, p) ==
    /\ request[q].at = "files" /\ p \in request[q].files \ request[q].named
    /\ request' = [request EXCEPT ![q].files = @ \ {p}]
    /\ UNCHANGED <<accounts, photo, excused>>

\* Faulty variant: files that could not be deleted do not stop the user.
NeverAborts(q) == FALSE

Aborts(q) == request[q].failed /\ request[q].kind = "leave"

FilesDone(q) ==
    /\ request[q].at = "files" /\ request[q].files = {}
    /\ request' = [request EXCEPT ![q] =
          IF Aborts(q) THEN [IdleRequest EXCEPT !.at = "done"] ELSE [@ EXCEPT !.at = "commit"]]
    /\ UNCHANGED <<accounts, photo, excused>>

\* Nothing is counted for a target that was no active administrator.
PastGuard(r) == \/ r.at \in {"files", "commit"}
                \/ r.at = "loaded" /\ ~ (r.was.admin /\ r.was.active)

Committed(q, removed) ==
    /\ request' = [k \in AdminRequests |->
          IF k = q THEN [IdleRequest EXCEPT !.at = "done"]
          ELSE IF PastGuard(request[k])
               THEN [request[k] EXCEPT !.raced = @ \/ removed # {}] ELSE request[k]]
    /\ excused' = \/ excused
                  \/ removed # {} /\ (request[q].raced \/ request[q].kind = "leave")

\* Only what differs from the loaded row is written.
Set(s, u, was, will) ==
    IF was = will THEN s ELSE IF will THEN s \cup {u} ELSE s \ {u}

\* An update of a user that is gone is an error.
CommitChange(q) ==
    LET r == request[q] IN
    /\ r.at = "commit" /\ r.kind = "change"
    /\ IF r.target \in there
         THEN /\ admins' = Set(admins, r.target, r.was.admin, r.will.admin)
              /\ active' = Set(active, r.target, r.was.active, r.will.active)
         ELSE UNCHANGED <<admins, active>>
    /\ Committed(q, ActiveAdmins \ (admins' \cap active'))
    /\ UNCHANGED <<there, photo>>

\* The rows of the user's photos go with the user. Only what this deletion spared
\* counts.
CommitDelete(q) ==
    LET r == request[q] IN
    /\ r.at = "commit" /\ r.kind # "change"
    /\ there' = there \ {r.target}
    /\ photo' = [p \in Photos |->
          IF p \in PhotosOf(r.target)
          THEN [photo[p] EXCEPT !.row = FALSE, !.spared = @ \cap {q}] ELSE photo[p]]
    /\ Committed(q, ActiveAdmins \cap {r.target})
    /\ UNCHANGED <<admins, active>>

AccountsNext ==
    \/ \E p \in Photos, u \in Users : PhotoArrives(p, u)
    \/ \E p \in Photos : \/ FileChecked(p) \/ SizesRecorded(p)
                         \/ \E whole \in BOOLEAN : FileStreamed(p, whole)
    \/ \E q \in AdminRequests :
        \/ \E actor, u \in Users, op \in {"change", "delete"}, will \in Standing :
               Loads(q, actor, u, op, will)
        \/ \E u \in Users : Leaves(q, u)
        \/ \E p \in Photos : \/ NothingToDelete(q, p)
                             \/ \E outcome \in Outcomes : FileDeleted(q, p, outcome)
        \/ Guarded(q) \/ FilesDone(q) \/ CommitChange(q) \/ CommitDelete(q)

AccountsSpec == AccountsInit /\ [][AccountsNext]_accountVars

-----------------------------------------------------------------------------
\* An active administrator remains, unless a removal was committed between the
\* count and the commit of another or an administrator deleted the own account.
AdminRemains == ActiveAdmins # {} \/ excused

\* Files outlive the row of their photo only if the deletion that removed the row
\* could not know of them (the photo was in processing when it was read, or was
\* authorized again after that), if it lost part of a tree of tiles without being
\* told, or if it was an administrator's and went on after a failure; a user's
\* own deletion stops instead.
OrphanNeedsCause ==
    \A p \in Photos : photo[p].file /\ ~ photo[p].row => photo[p].spared # {}

\* The API never loses its last administrator, nor the files of an account without
\* one of these causes.
AccountsSafe == AdminRemains /\ OrphanNeedsCause
=============================================================================
