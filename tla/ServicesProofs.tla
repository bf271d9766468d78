----------------------------- MODULE ServicesProofs -----------------------------
(***************************************************************************)
(* The types of the components that MCServices sets side by side, for      *)
(* every value of the constants: each part shows that one component's      *)
(* variables keep their types, and the theorem at the end puts them        *)
(* together.                                                               *)
(***************************************************************************)
EXTENDS BackendProofs, BrowserProofs, MCServices, FiniteSetTheorems, WellFoundedInduction, TLAPS

-----------------------------------------------------------------------------
(* Push registrations and the broadcast                                    *)

LEMMA PushTypedBegins == PushInit => PushTypeOK
<1> SUFFICES ASSUME PushInit PROVE PushTypeOK
  OBVIOUS
<1>1. 1 \in 1..MaxTokens /\ {NoToken, 1} \subseteq 0..MaxTokens
  BY PushAssumption DEF NoToken
<1>2. QED
  BY <1>1 DEF PushInit, PushTypeOK, Phases

LEMMA SomeEndpoints ==
    ASSUME PushTypeOK
    PROVE  /\ \A who : EndpointsOf(who) \subseteq Endpoints
           /\ \A d \in Devices : reg[d] # NoToken => <<d, reg[d]>> \in Endpoints
           /\ \A E \in SUBSET Endpoints : Dead(E) \subseteq Endpoints
           /\ \A b \in Broadcasts : picked[b] \subseteq Endpoints /\ stale[b] \subseteq Endpoints
<1>1. \A d \in Devices : reg[d] # NoToken => reg[d] \in 1..MaxTokens
  BY PushAssumption DEF PushTypeOK, NoToken
<1>2. QED
  BY <1>1 DEF EndpointsOf, Endpoints, Dead, PushTypeOK

LEMMA UnregisteredIsTyped ==
    ASSUME PushTypeOK, NEW gone, Unregistered(gone)
    PROVE  reg' \in [Devices -> 0..MaxTokens] /\ notes' \in [Owners \cup Anon -> Nat]
<1>1. 0 \in 0..MaxTokens
  BY PushAssumption
<1>2. QED
  BY <1>1 DEF PushTypeOK, Unregistered, Cascade, NoToken

LEMMA RegistrationsAreTyped ==
    ASSUME PushTypeOK, UNCHANGED requests,
           \/ \E d \in Devices :
                 Register(d) \/ Unregister(d) \/ TokenRotates(d) \/ PokeStarts(d)
           \/ PokeAnswered \/ PokeFails \/ TwelveHours
    PROVE  PushTypeOK'
<1> USE DEF requests
<1>1. ASSUME NEW d \in Devices, Register(d) PROVE PushTypeOK'
  <2>1. live[d] \in 0..MaxTokens
    BY PushAssumption DEF PushTypeOK
  <2>2. QED
    BY <1>1, <2>1 DEF Register, PushTypeOK
<1>2. ASSUME NEW d \in Devices, Unregister(d) PROVE PushTypeOK'
  BY <1>2, UnregisteredIsTyped DEF Unregister, PushTypeOK
<1>3. ASSUME NEW d \in Devices, TokenRotates(d) PROVE PushTypeOK'
  <2>1. live[d] + 1 \in 1..MaxTokens
    BY <1>3, PushAssumption DEF TokenRotates, PushTypeOK
  <2>2. QED
    BY <1>3, <2>1 DEF TokenRotates, PushTypeOK
<1>4. ASSUME NEW d \in Devices, PokeStarts(d) PROVE PushTypeOK'
  BY <1>4, SomeEndpoints DEF PokeStarts, PushTypeOK
<1>5. CASE PokeAnswered
  BY <1>5, UnregisteredIsTyped DEF PokeAnswered, PushTypeOK
<1>6. CASE PokeFails \/ TwelveHours
  BY <1>6 DEF PokeFails, TwelveHours, PushTypeOK
<1>7. QED
  BY <1>1, <1>2, <1>3, <1>4, <1>5, <1>6

LEMMA BroadcastsAreTyped ==
    ASSUME PushTypeOK, NEW b \in Broadcasts,
           \/ \E o \in Owners \cup {"nobody"} : Begins(b, o)
           \/ Skips(b) \/ SelectUsers(b) \/ SelectClients(b)
           \/ Commit(b) \/ Abandons(b) \/ Sends(b) \/ SendFails(b) \/ CleansUp(b)
    PROVE  PushTypeOK'
<1> USE DEF registrations, Step
<1>1. ASSUME NEW o \in Owners \cup {"nobody"}, Begins(b, o) PROVE PushTypeOK'
  BY <1>1 DEF Begins, PushTypeOK, Phases
<1>2. CASE Skips(b) \/ SendFails(b) \/ Abandons(b)
  BY <1>2 DEF Skips, SendFails, Abandons, Forget, PushTypeOK, Phases
<1>3. CASE SelectUsers(b) \/ SelectClients(b)
  BY <1>3, SomeEndpoints DEF SelectUsers, SelectClients, PushTypeOK, Phases
<1>4. CASE Commit(b)
  BY <1>4 DEF Commit, PushTypeOK, Phases
<1>5. CASE Sends(b)
  BY <1>5, SomeEndpoints DEF Sends, PushTypeOK, Phases
<1>6. CASE CleansUp(b)
  BY <1>6, UnregisteredIsTyped DEF CleansUp, Forget, PushTypeOK, Phases
<1>7. QED
  BY <1>1, <1>2, <1>3, <1>4, <1>5, <1>6

LEMMA PushTypedKept == PushTypeOK /\ [PushNext]_pushVars => PushTypeOK'
<1> SUFFICES ASSUME PushTypeOK, [PushNext]_pushVars PROVE PushTypeOK'
  OBVIOUS
<1>1. CASE UNCHANGED pushVars
  BY <1>1 DEF pushVars, PushTypeOK
<1>2. ASSUME \/ \E d \in Devices :
                   Register(d) \/ Unregister(d) \/ TokenRotates(d) \/ PokeStarts(d)
             \/ PokeAnswered \/ PokeFails \/ TwelveHours
      PROVE  PushTypeOK'
  <2>1. UNCHANGED requests
    BY <1>2 DEF Register, Unregister, TokenRotates, PokeStarts, PokeAnswered, PokeFails, TwelveHours
  <2>2. QED
    BY <1>2, <2>1, RegistrationsAreTyped
<1>3. QED
  BY <1>1, <1>2, BroadcastsAreTyped DEF PushNext

-----------------------------------------------------------------------------
(* Logins, polling sessions and polls                                      *)

LEMMA OAuthTypedBegins == OAuthInit => OAuthTypeOK
<1> SUFFICES ASSUME OAuthInit PROVE OAuthTypeOK
  OBVIOUS
<1>1. 0 \in 0..MaxSuffix
  BY OAuthAssumption
<1>2. NoLogin \in LoginRecord /\ NoPoll \in PollRecord
  BY <1>1 DEF NoLogin, LoginRecord, NoPoll, PollRecord
<1>3. session \in [Sessions -> SessionRecord]
  BY DEF OAuthInit, SessionRecord
<1>4. account \in [Identities -> {NoAccount} \cup 0..MaxSuffix]
  BY <1>1 DEF OAuthInit
<1>5. QED
  BY <1>2, <1>3, <1>4 DEF OAuthInit, OAuthTypeOK

\* What becomes of a login's record at each step is a login's record.
LEMMA LoginRecords ==
    ASSUME OAuthTypeOK, NEW l \in Logins
    PROVE  /\ \A place \in {"match", "naming", "insert", "tokens", "conflict", "done"} :
                 [login[l] EXCEPT !.at = place] \in LoginRecord
           /\ [NoLogin EXCEPT !.at = "done"] \in LoginRecord
           /\ \A i \in Identities : /\ [login[l] EXCEPT !.at = "match", !.who = i] \in LoginRecord
                                    /\ [login[l] EXCEPT !.at = "insert", !.who = i] \in LoginRecord
           /\ \A i \in Identities, s \in Sessions :
                 [login[l] EXCEPT !.at = "browser", !.who = i, !.polling = s] \in LoginRecord
           /\ login[l].suffix < MaxSuffix => [login[l] EXCEPT !.suffix = @ + 1] \in LoginRecord
           /\ [login[l] EXCEPT !.raced = TRUE] \in LoginRecord
<1>1. login[l] \in LoginRecord /\ MaxSuffix \in Nat /\ 0 \in 0..MaxSuffix
  BY OAuthAssumption DEF OAuthTypeOK
<1>2. login[l].suffix < MaxSuffix => login[l].suffix + 1 \in 0..MaxSuffix
  BY <1>1 DEF LoginRecord
<1>3. [NoLogin EXCEPT !.at = "done"] \in LoginRecord
  BY <1>1 DEF NoLogin, LoginRecord
<1>4. QED
  BY <1>1, <1>2, <1>3 DEF LoginRecord

LEMMA LoginsAreTyped ==
    ASSUME OAuthTypeOK, NEW l \in Logins,
           \/ \E i \in Identities :
                 \/ \E s \in Sessions : oauth_redirect(l, i, s)
                 \/ google_native_login(l, i) \/ register_user(l, i)
           \/ oauth_callback(l) \/ LoginFails(l) \/ MatchAccount(l) \/ PickName(l)
           \/ TokensReturned(l)
    PROVE  OAuthTypeOK'
<1> SUFFICES ASSUME UNCHANGED <<account, session, poll, handed>>
             PROVE  login' \in [Logins -> LoginRecord]
  BY DEF oauth_redirect, google_native_login, register_user, oauth_callback, LoginFails,
         MatchAccount, PickName, TokensReturned, OAuthTypeOK
<1>1. login \in [Logins -> LoginRecord]
  BY DEF OAuthTypeOK
<1>2. \A x \in LoginRecord : [login EXCEPT ![l] = x] \in [Logins -> LoginRecord]
  BY <1>1
<1>3. ASSUME NEW i \in Identities,
             (\E s \in Sessions : oauth_redirect(l, i, s)) \/ google_native_login(l, i)
      PROVE  login' \in [Logins -> LoginRecord]
  <2>1. ASSUME NEW s \in Sessions, oauth_redirect(l, i, s)
        PROVE  login' \in [Logins -> LoginRecord]
    <3>1. [login[l] EXCEPT !.at = "browser", !.who = i, !.polling = s] \in LoginRecord
      BY LoginRecords
    <3>2. QED
      BY <1>2, <2>1, <3>1 DEF oauth_redirect
  <2>2. CASE google_native_login(l, i)
    BY <1>2, <2>2, LoginRecords DEF google_native_login
  <2>3. QED
    BY <1>3, <2>1, <2>2
<1>4. ASSUME NEW i \in Identities, register_user(l, i)
      PROVE  login' \in [Logins -> LoginRecord]
  <2>1. CASE account[i] # NoAccount \/ Taken(0)
    BY <1>2, <1>4, <2>1, LoginRecords DEF register_user
  <2>2. CASE ~ (account[i] # NoAccount \/ Taken(0))
    BY <1>2, <1>4, <2>2, LoginRecords DEF register_user
  <2>3. QED
    BY <2>1, <2>2
<1>5. ASSUME NEW place \in {"match", "naming", "insert", "tokens"}, GoTo(l, place)
      PROVE  login' \in [Logins -> LoginRecord]
  BY <1>2, <1>5, LoginRecords DEF GoTo
<1>6. CASE oauth_callback(l) \/ MatchAccount(l)
  BY <1>5, <1>6 DEF oauth_callback, MatchAccount
<1>7. CASE LoginFails(l) \/ TokensReturned(l)
  BY <1>2, <1>7, LoginRecords DEF LoginFails, TokensReturned, Ends
<1>8. CASE PickName(l)
  BY <1>2, <1>5, <1>8, LoginRecords DEF PickName
<1>9. QED
  BY <1>3, <1>4, <1>6, <1>7, <1>8

LEMMA InsertIsTyped ==
    ASSUME OAuthTypeOK, NEW l \in Logins, InsertAccount(l) PROVE OAuthTypeOK'
<1>1. login \in [Logins -> LoginRecord]
  BY DEF OAuthTypeOK
<1>2. login[l].suffix \in 0..MaxSuffix
  BY <1>1 DEF LoginRecord
<1>3. login' \in [Logins -> LoginRecord]
  BY <1>1, LoginRecords DEF InsertAccount, GoTo
<1>4. account' \in [Identities -> {NoAccount} \cup 0..MaxSuffix]
  BY <1>2 DEF InsertAccount, OAuthTypeOK
<1>5. QED
  BY <1>3, <1>4 DEF InsertAccount, OAuthTypeOK

\* A session that completes, lapses or expires is still a session's record.
LEMMA SessionRecords ==
    ASSUME OAuthTypeOK
    PROVE  /\ Lapsed \in SessionRecord /\ \A l \in Logins : Completed(l) \in SessionRecord
           /\ \A s \in Sessions : /\ [session[s] EXCEPT !.expired = TRUE] \in SessionRecord
                                  /\ [session[s] EXCEPT !.status = "pending"] \in SessionRecord
           /\ Unexpired \in [Sessions -> SessionRecord]
<1>1. Lapsed \in SessionRecord
  BY DEF Lapsed, SessionRecord
<1>2. \A l \in Logins : Completed(l) \in SessionRecord
  BY DEF Completed, SessionRecord
<1>3. session \in [Sessions -> SessionRecord]
  BY DEF OAuthTypeOK
<1>4. Unexpired \in [Sessions -> SessionRecord]
  BY <1>1, <1>3 DEF Unexpired
<1>5. QED
  BY <1>1, <1>2, <1>3, <1>4 DEF SessionRecord

LEMMA SessionsAreTyped ==
    ASSUME OAuthTypeOK,
           \/ create_oauth_session \/ cleanup_expired_sessions
           \/ \E s \in Sessions : SessionExpires(s)
    PROVE  OAuthTypeOK'
<1>1. session \in [Sessions -> SessionRecord]
  BY DEF OAuthTypeOK
<1>2. \A f : [session EXCEPT ![f].status = "pending"] \in [Sessions -> SessionRecord]
  BY <1>1, SessionRecords
<1>3. session' \in [Sessions -> SessionRecord]
  BY <1>1, <1>2, SessionRecords DEF create_oauth_session, cleanup_expired_sessions, SessionExpires
<1>4. QED
  BY <1>3 DEF create_oauth_session, cleanup_expired_sessions, SessionExpires, OAuthTypeOK

LEMMA StoringIsTyped ==
    ASSUME OAuthTypeOK, NEW l \in Logins, TokensStored(l) PROVE OAuthTypeOK'
<1>1. login \in [Logins -> LoginRecord]
  BY DEF OAuthTypeOK
<1>2. login' \in [Logins -> LoginRecord]
  BY <1>1, LoginRecords DEF TokensStored, Ends
<1>3. session' \in [Sessions -> SessionRecord]
  BY SessionRecords DEF TokensStored
<1>4. QED
  BY <1>2, <1>3 DEF TokensStored, OAuthTypeOK

LEMMA PollsAreTyped ==
    ASSUME OAuthTypeOK, NEW p \in Polls,
           \/ \E s \in Sessions : get_oauth_status(p, s)
           \/ PollAnswered(p) \/ PollFails(p)
    PROVE  OAuthTypeOK'
<1>1. NoPoll \in PollRecord /\ session \in [Sessions -> SessionRecord]
  BY DEF NoPoll, PollRecord, OAuthTypeOK
<1>2. ASSUME NEW s \in Sessions, get_oauth_status(p, s) PROVE OAuthTypeOK'
  <2>1. [session |-> s, tokens |-> session[s].tokens] \in PollRecord
    BY <1>1 DEF PollRecord, SessionRecord
  <2>2. QED
    BY <1>2, <2>1, SessionRecords DEF get_oauth_status, OAuthTypeOK
<1>3. CASE PollAnswered(p)
  <2>1. \A k \in Logins : handed[k] \in Nat /\ handed[k] + 1 \in Nat
    BY DEF OAuthTypeOK
  <2>2. handed' \in [Logins -> Nat]
    BY <1>3, <2>1 DEF PollAnswered, OAuthTypeOK
  <2>3. QED
    BY <1>1, <1>3, <2>2, SessionRecords DEF PollAnswered, OAuthTypeOK
<1>4. CASE PollFails(p)
  BY <1>1, <1>4 DEF PollFails, OAuthTypeOK
<1>5. QED
  BY <1>2, <1>3, <1>4

LEMMA OAuthTypedKept == OAuthTypeOK /\ [OAuthNext]_oauthVars => OAuthTypeOK'
<1> SUFFICES ASSUME OAuthTypeOK, [OAuthNext]_oauthVars PROVE OAuthTypeOK'
  OBVIOUS
<1>1. CASE UNCHANGED oauthVars
  BY <1>1 DEF oauthVars, OAuthTypeOK
<1>2. QED
  BY <1>1, LoginsAreTyped, InsertIsTyped, SessionsAreTyped, StoringIsTyped, PollsAreTyped
  DEF OAuthNext

-----------------------------------------------------------------------------
(* Marks: what a request has seen is a row as a whole, too                 *)

MarkWhole(r) == (r.id = 0) = (r.value = "none")

MarkTyped == MarkTypeOK /\ \A q \in MarkRequests : MarkWhole(Seen(q))

MarkRows == [id : 0..MaxRows, value : Values(kind) \cup {"none"}]

MarkRecords == [at : {"idle", "read", "ok", "failed"}, was : BOOLEAN,
                wants : {"nothing", "none"} \cup Values(kind), seen : MarkRows]

MarksAre(rs) == /\ rs \in [MarkRequests -> MarkRecords]
                /\ \A q \in MarkRequests : MarkWhole(rs[q].seen)

LEMMA MarkTypedIs ==
    /\ MarkTyped <=> /\ kind \in {"flag", "rating"}
                     /\ row \in MarkRows /\ MarkWhole(row)
                     /\ lastId \in 0..MaxRows /\ row.id <= lastId
                     /\ MarksAre(marking)
    /\ MarkRecords = [at : {"idle", "read", "ok", "failed"}, was : BOOLEAN,
                      wants : {"nothing", "none"} \cup Values(kind), seen : MarkRows]
  BY DEF MarkTyped, MarkTypeOK, MarkRows, MarkRecords, MarksAre, MarkWhole, Seen

LEMMA MarkTypedBegins == MarkInit => MarkTyped
<1> SUFFICES ASSUME MarkInit PROVE MarkTyped
  OBVIOUS
<1>1. 0 \in 0..MaxRows
  BY MarkAssumption
<1>2. NoRow \in MarkRows /\ MarkWhole(NoRow) /\ NoRow.id = 0
  BY <1>1 DEF NoRow, MarkRows, MarkWhole
<1>3. IdleMark \in MarkRecords /\ IdleMark.seen = NoRow
  BY <1>2 DEF IdleMark, MarkRecords
<1>4. MarksAre(marking)
  BY <1>2, <1>3 DEF MarkInit, MarksAre
<1>5. QED
  BY <1>1, <1>2, <1>4, MarkTypedIs DEF MarkInit

LEMMA MarksChange ==
    ASSUME NEW rs, MarksAre(rs)
    PROVE  /\ \A r : MarksAre(Observe(r, rs))
           /\ \A q \in MarkRequests, to \in {"ok", "failed"} :
                 MarksAre([rs EXCEPT ![q].at = to])
           /\ \A q \in MarkRequests : MarksAre([rs EXCEPT ![q].was = TRUE])
           /\ \A q \in MarkRequests, w \in {"none"} \cup Values(kind), r \in MarkRows :
                 MarkWhole(r) =>
                 MarksAre([rs EXCEPT ![q] = [@ EXCEPT !.at = "read", !.wants = w, !.seen = r]])
<1> USE DEF MarksAre
<1>1. ASSUME NEW r PROVE MarksAre(Observe(r, rs))
  <2>1. \A q \in MarkRequests : Observe(r, rs)[q] \in MarkRecords /\ Observe(r, rs)[q].seen = rs[q].seen
    BY DEF MarkRecords, Observe
  <2>2. QED
    BY <2>1 DEF Observe
<1>2. ASSUME NEW q \in MarkRequests, NEW to \in {"ok", "failed"}
      PROVE  MarksAre([rs EXCEPT ![q].at = to])
  <2>1. [rs[q] EXCEPT !.at = to] \in MarkRecords
    BY DEF MarkRecords
  <2>2. QED
    BY <2>1 DEF MarkRecords
<1>3. ASSUME NEW q \in MarkRequests PROVE MarksAre([rs EXCEPT ![q].was = TRUE])
  <2>1. [rs[q] EXCEPT !.was = TRUE] \in MarkRecords
    BY DEF MarkRecords
  <2>2. QED
    BY <2>1 DEF MarkRecords
<1>4. ASSUME NEW q \in MarkRequests, NEW w \in {"none"} \cup Values(kind), NEW r \in MarkRows,
             MarkWhole(r)
      PROVE  MarksAre([rs EXCEPT ![q] = [@ EXCEPT !.at = "read", !.wants = w, !.seen = r]])
  <2>1. [rs[q] EXCEPT !.at = "read", !.wants = w, !.seen = r] \in MarkRecords
    BY DEF MarkRecords
  <2>2. QED
    BY <1>4, <2>1 DEF MarkRecords
<1>5. QED
  BY <1>1, <1>2, <1>3, <1>4

LEMMA MarksAreTyped ==
    ASSUME MarkTyped, NEW q \in MarkRequests,
           \/ \E wanted \in {"none"} \cup Values(kind) : Reads(q, wanted)
           \/ Insert(q) \/ NothingToDo(q) \/ Update(q) \/ Delete(q) \/ NoFlag(q)
    PROVE  kind' = kind /\ row' \in MarkRows /\ MarkWhole(row')
           /\ lastId' \in 0..MaxRows /\ row'.id <= lastId' /\ MarksAre(marking')
<1>1. /\ kind \in {"flag", "rating"} /\ row \in MarkRows /\ MarkWhole(row)
      /\ lastId \in 0..MaxRows /\ row.id <= lastId /\ MarksAre(marking)
  BY MarkTypedIs
<1>2. MaxRows \in Nat
  BY MarkAssumption
<1>3. \A to \in {"ok", "failed"} : MarksAre(MarkEnds(q, to))
  BY <1>1, MarksChange DEF MarkEnds
<1>4. \A r : MarksAre(Observe(r, [MarkEnds(q, "ok") EXCEPT ![q].was = TRUE]))
  BY <1>3, MarksChange
<1>5. NoRow \in MarkRows /\ MarkWhole(NoRow) /\ NoRow.id = 0
  BY <1>2 DEF NoRow, MarkRows, MarkWhole
<1>6. marking[q].wants \in {"nothing", "none"} \cup Values(kind) /\ MarkWhole(Seen(q))
  BY <1>1 DEF MarksAre, MarkRecords, Seen
<1>7. ASSUME NEW wanted \in {"none"} \cup Values(kind), Reads(q, wanted)
      PROVE  MarksAre(marking') /\ UNCHANGED <<kind, row, lastId>>
  BY <1>1, <1>7, MarksChange DEF Reads
<1>8. CASE Insert(q)
  <2>1. ASSUME row = NoRow, lastId < MaxRows, marking[q].wants \in {"open", "up", "down"}
        PROVE  LET r == [id |-> lastId + 1, value |-> marking[q].wants] IN
               r \in MarkRows /\ MarkWhole(r) /\ lastId + 1 \in 0..MaxRows /\ r.id <= lastId + 1
    BY <1>1, <1>2, <1>6, <2>1 DEF MarkRows, MarkWhole
  <2>2. CASE Answers(q, "failed")
    BY <1>1, <1>3, <2>2 DEF Answers
  <2>3. CASE row = NoRow /\ lastId < MaxRows /\ ~ Answers(q, "failed")
    <3>1. /\ lastId' = lastId + 1 /\ row' = [id |-> lastId + 1, value |-> marking[q].wants]
          /\ kind' = kind /\ marking[q].wants \in {"open", "up", "down"}
          /\ MarksAre(marking')
      BY <1>4, <1>8, <2>3 DEF Insert, Change
    <3>2. QED
      BY <2>1, <2>3, <3>1
  <2>4. QED
    BY <1>8, <2>2, <2>3 DEF Insert
<1>9. CASE Update(q)
  <2>1. ASSUME RowIsThere(q), Seen(q) # NoRow, marking[q].wants \in {"resolved", "up", "down"}
        PROVE  LET r == [row EXCEPT !.value = marking[q].wants] IN
               r \in MarkRows /\ MarkWhole(r) /\ r.id = row.id
    <3>1. Seen(q) \in MarkRows
      BY <1>1 DEF MarksAre, MarkRecords, Seen
    <3>2. Seen(q).id # 0
      BY <1>6, <2>1, <3>1 DEF NoRow, MarkWhole, MarkRows
    <3>3. QED
      BY <1>1, <1>6, <2>1, <3>2 DEF MarkRows, MarkWhole, RowIsThere
  <2>2. QED
    BY <1>1, <1>3, <1>4, <1>9, <2>1 DEF Update, Change
<1>10. CASE Delete(q)
  <2>1. UNCHANGED <<kind, lastId>>
    BY <1>10 DEF Delete
  <2>2. row' \in {NoRow, row} /\ MarksAre(marking')
    BY <1>3, <1>4, <1>10 DEF Delete, Change
  <2>3. QED
    BY <1>1, <1>5, <2>1, <2>2
<1>11. CASE NothingToDo(q) \/ NoFlag(q)
  BY <1>1, <1>3, <1>11 DEF NothingToDo, NoFlag, Answers
<1>12. QED
  BY <1>1, <1>7, <1>8, <1>9, <1>10, <1>11

LEMMA MarkTypedKept == MarkTyped /\ [MarkNext]_markVars => MarkTyped'
<1> SUFFICES ASSUME MarkTyped, [MarkNext]_markVars PROVE MarkTyped'
  OBVIOUS
<1>1. CASE UNCHANGED markVars
  BY <1>1 DEF markVars, MarkTyped, MarkTypeOK, Seen
<1>2. ASSUME kind' = kind
      PROVE  /\ MarkRows' = MarkRows
             /\ \A rs : MarksAre(rs)' <=> rs' \in [MarkRequests -> MarkRecords]
                          /\ \A q \in MarkRequests : MarkWhole(rs[q].seen)'
  BY <1>2 DEF MarkRows, MarkRecords, MarksAre
<1>3. QED
  BY <1>1, MarksAreTyped, MarkTypedIs DEF MarkNext, MarkTyped, MarkTypeOK, MarkRows, MarkRecords, MarksAre, MarkWhole, Seen

-----------------------------------------------------------------------------
(* Accounts                                                                *)

AccountPhoto == [owner : Users \cup {"nobody"}, row : BOOLEAN, sizes : BOOLEAN,
                 posting : BOOLEAN, file : BOOLEAN, spared : SUBSET AdminRequests]

AccountRequest ==
    [at : {"idle", "loaded", "files", "commit", "done"},
     kind : {"change", "delete", "leave"}, target : Users \cup {"nobody"},
     was : Standing, will : Standing, files : SUBSET Photos, named : SUBSET Photos,
     failed : BOOLEAN, raced : BOOLEAN]

LEMMA AccountsTypedIs ==
    AccountsTypeOK <=> /\ there \subseteq Users /\ admins \subseteq Users /\ active \subseteq Users
                       /\ photo \in [Photos -> AccountPhoto]
                       /\ request \in [AdminRequests -> AccountRequest]
                       /\ excused \in BOOLEAN
  BY DEF AccountsTypeOK, AccountPhoto, AccountRequest

LEMMA AccountsStayTyped ==
    ASSUME AccountsTypeOK, UNCHANGED <<accounts, excused>>,
           photo' \in [Photos -> AccountPhoto], request' \in [AdminRequests -> AccountRequest]
    PROVE  AccountsTypeOK'
  BY DEF accounts, AccountsTypeOK, AccountPhoto, AccountRequest

LEMMA AccountRecords ==
    /\ NoPhoto \in AccountPhoto /\ IdleRequest \in AccountRequest /\ Nobody \in Standing
    /\ [IdleRequest EXCEPT !.at = "done"] \in AccountRequest
  BY DEF NoPhoto, AccountPhoto, IdleRequest, AccountRequest, Nobody, Standing

LEMMA AccountsTypedBegins == AccountsInit => AccountsTypeOK
  BY AccountRecords, AccountsTypedIs DEF AccountsInit

LEMMA RequestsBegin ==
    ASSUME NEW op \in {"change", "delete", "leave"}, NEW u \in Users, NEW was \in Standing,
           NEW will \in Standing, NEW place \in {"loaded", "files"},
           NEW files \in SUBSET Photos, NEW named \in SUBSET Photos
    PROVE  /\ [IdleRequest EXCEPT !.at = place, !.kind = op, !.target = u,
                                  !.was = was, !.will = will] \in AccountRequest
           /\ [IdleRequest EXCEPT !.at = place, !.kind = op, !.target = u,
                                  !.files = files, !.named = named] \in AccountRequest
  BY DEF IdleRequest, AccountRequest, Nobody, Standing

LEMMA RequestsGoOn ==
    ASSUME NEW r \in AccountRequest, NEW place \in {"files", "commit"}, NEW files \in SUBSET Photos,
           NEW named \in SUBSET Photos
    PROVE  /\ [r EXCEPT !.at = place, !.files = files, !.named = named] \in AccountRequest
           /\ [r EXCEPT !.at = place] \in AccountRequest
  BY DEF AccountRequest

LEMMA ReadPhotosAreTyped ==
    ASSUME AccountsTypeOK, NEW q \in AdminRequests, NEW u, ReadsPhotos(q, u)
    PROVE  photo' \in [Photos -> AccountPhoto]
<1>1. photo \in [Photos -> AccountPhoto]
  BY AccountsTypedIs
<1>2. \A p \in Photos : [photo[p] EXCEPT !.spared = @ \cup {q}] \in AccountPhoto
  BY <1>1 DEF AccountPhoto
<1>3. QED
  BY <1>1, <1>2 DEF ReadsPhotos

LEMMA RequestsAreTyped ==
    ASSUME AccountsTypeOK, NEW q \in AdminRequests,
           \/ \E actor, u \in Users, op \in {"change", "delete"}, will \in Standing :
                  Loads(q, actor, u, op, will)
           \/ \E u \in Users : Leaves(q, u)
           \/ Guarded(q) \/ FilesDone(q)
    PROVE  AccountsTypeOK'
<1>1. /\ request \in [AdminRequests -> AccountRequest] /\ request[q] \in AccountRequest
      /\ photo \in [Photos -> AccountPhoto]
  BY AccountsTypedIs
<1>2. \A x \in AccountRequest : [request EXCEPT ![q] = x] \in [AdminRequests -> AccountRequest]
  BY <1>1
<1>3. ASSUME NEW actor \in Users, NEW u \in Users, NEW op \in {"change", "delete"},
             NEW will \in Standing, Loads(q, actor, u, op, will)
      PROVE  AccountsTypeOK'
  <2> DEFINE was == [admin |-> u \in admins, active |-> u \in active]
             x == [IdleRequest EXCEPT !.at = "loaded", !.kind = op, !.target = u,
                                      !.was = was, !.will = will]
  <2>1. was \in Standing
    BY DEF Standing
  <2>2. x \in AccountRequest
    BY <2>1, RequestsBegin
  <2>3. request' = [request EXCEPT ![q] = x] /\ UNCHANGED <<accounts, photo, excused>>
    BY <1>3 DEF Loads
  <2>4. request' \in [AdminRequests -> AccountRequest]
    BY <1>2, <2>2, <2>3
  <2>5. QED
    BY <1>1, <2>3, <2>4, AccountsStayTyped
<1>4. ASSUME NEW u \in Users, Leaves(q, u) PROVE AccountsTypeOK'
  <2> DEFINE x == [IdleRequest EXCEPT !.at = "files", !.kind = "leave", !.target = u,
                                      !.files = PhotosOf(u), !.named = SizesOf(u)]
  <2>1. PhotosOf(u) \subseteq Photos /\ SizesOf(u) \subseteq Photos /\ Nobody \in Standing
    BY AccountRecords DEF PhotosOf, SizesOf
  <2>2. x \in AccountRequest
    BY <2>1, RequestsBegin
  <2>3. request' = [request EXCEPT ![q] = x] /\ ReadsPhotos(q, u) /\ UNCHANGED <<accounts, excused>>
    BY <1>4 DEF Leaves
  <2>4. request' \in [AdminRequests -> AccountRequest]
    BY <1>2, <2>2, <2>3
  <2>5. QED
    BY <2>3, <2>4, ReadPhotosAreTyped, AccountsStayTyped
<1>5. CASE Guarded(q)
  <2> DEFINE u == request[q].target
             x == [request[q] EXCEPT !.at = "files", !.files = PhotosOf(u), !.named = SizesOf(u)]
             y == [request[q] EXCEPT !.at = "commit"]
  <2>1. PhotosOf(u) \subseteq Photos /\ SizesOf(u) \subseteq Photos
    BY DEF PhotosOf, SizesOf
  <2>2. x \in AccountRequest /\ y \in AccountRequest
    BY <1>1, <2>1, RequestsGoOn
  <2>3. /\ \/ request' = [request EXCEPT ![q] = x] /\ ReadsPhotos(q, u)
           \/ request' = [request EXCEPT ![q] = y] /\ photo' = photo
           \/ request' = [request EXCEPT ![q] = [IdleRequest EXCEPT !.at = "done"]] /\ photo' = photo
        /\ UNCHANGED <<accounts, excused>>
    BY <1>5 DEF Guarded
  <2> HIDE DEF u, x, y
  <2>4. request' \in [AdminRequests -> AccountRequest] /\ photo' \in [Photos -> AccountPhoto]
    BY <1>1, <1>2, <2>2, <2>3, AccountRecords, ReadPhotosAreTyped
  <2>5. QED
    BY <2>3, <2>4, AccountsStayTyped
<1>6. CASE FilesDone(q)
  <2>1. [request[q] EXCEPT !.at = "commit"] \in AccountRequest
    BY <1>1, RequestsGoOn
  <2>2. /\ \/ request' = [request EXCEPT ![q] = [request[q] EXCEPT !.at = "commit"]]
           \/ request' = [request EXCEPT ![q] = [IdleRequest EXCEPT !.at = "done"]]
        /\ UNCHANGED <<accounts, photo, excused>>
    BY <1>6 DEF FilesDone
  <2>3. request' \in [AdminRequests -> AccountRequest]
    BY <1>2, <2>1, <2>2, AccountRecords
  <2>4. QED
    BY <1>1, <2>2, <2>3, AccountsStayTyped
<1>7. QED
  BY <1>3, <1>4, <1>5, <1>6

LEMMA PhotosOfAccountsAreTyped ==
    ASSUME AccountsTypeOK, NEW p \in Photos,
           \/ \E u \in Users : PhotoArrives(p, u)
           \/ FileChecked(p) \/ SizesRecorded(p)
           \/ \E whole \in BOOLEAN : FileStreamed(p, whole)
    PROVE  AccountsTypeOK'
<1>1. request \in [AdminRequests -> AccountRequest] /\ photo \in [Photos -> AccountPhoto]
  BY AccountsTypedIs
<1>2. SUFFICES ASSUME NEW y \in AccountPhoto, photo' = [photo EXCEPT ![p] = y],
                      UNCHANGED <<accounts, request, excused>>
               PROVE  AccountsTypeOK'
  <2>1. ASSUME NEW u \in Users, PhotoArrives(p, u)
        PROVE  \E y \in AccountPhoto : photo' = [photo EXCEPT ![p] = y]
    <3> DEFINE y == [photo[p] EXCEPT !.owner = u, !.row = TRUE, !.sizes = FALSE,
                                     !.spared = @ \cup Deleting(u)]
    <3>1. y \in AccountPhoto
      BY <1>1 DEF AccountPhoto, Deleting
    <3>2. photo' = [photo EXCEPT ![p] = y]
      BY <1>1, <2>1 DEF PhotoArrives, AccountPhoto
    <3>3. QED
      BY <3>1, <3>2
  <2>2. ASSUME NEW whole \in BOOLEAN, FileStreamed(p, whole)
        PROVE  \E y \in AccountPhoto : photo' = [photo EXCEPT ![p] = y]
    <3> DEFINE y == [photo[p] EXCEPT !.posting = FALSE, !.file = @ \/ whole]
    <3>1. y \in AccountPhoto
      BY <1>1 DEF AccountPhoto
    <3>2. photo' = [photo EXCEPT ![p] = y]
      BY <1>1, <2>2 DEF FileStreamed, AccountPhoto
    <3>3. QED
      BY <3>1, <3>2
  <2>3. ASSUME FileChecked(p)
        PROVE  \E y \in AccountPhoto : photo' = [photo EXCEPT ![p] = y]
    <3> DEFINE y == [photo[p] EXCEPT !.posting = TRUE]
    <3>1. y \in AccountPhoto
      BY <1>1 DEF AccountPhoto
    <3>2. photo' = [photo EXCEPT ![p] = y]
      BY <1>1, <2>3 DEF FileChecked, AccountPhoto
    <3>3. QED
      BY <3>1, <3>2
  <2>4. ASSUME SizesRecorded(p)
        PROVE  \E y \in AccountPhoto : photo' = [photo EXCEPT ![p] = y]
    <3> DEFINE y == [photo[p] EXCEPT !.sizes = TRUE]
    <3>1. y \in AccountPhoto
      BY <1>1 DEF AccountPhoto
    <3>2. photo' = [photo EXCEPT ![p] = y]
      BY <1>1, <2>4 DEF SizesRecorded, AccountPhoto
    <3>3. QED
      BY <3>1, <3>2
  <2>5. UNCHANGED <<accounts, request, excused>>
    BY DEF PhotoArrives, FileChecked, SizesRecorded, FileStreamed
  <2>6. QED
    BY <1>2, <2>1, <2>2, <2>3, <2>4, <2>5
<1>3. photo' \in [Photos -> AccountPhoto]
  BY <1>1, <1>2
<1>4. QED
  BY <1>1, <1>2, <1>3, AccountsStayTyped

LEMMA DeletionsAreTyped ==
    ASSUME AccountsTypeOK, NEW q \in AdminRequests, NEW p \in Photos,
           NothingToDelete(q, p) \/ \E outcome \in Outcomes : FileDeleted(q, p, outcome)
    PROVE  AccountsTypeOK'
<1>1. request \in [AdminRequests -> AccountRequest] /\ photo \in [Photos -> AccountPhoto]
  BY AccountsTypedIs
<1>2. ASSUME NEW outcome \in Outcomes, FileDeleted(q, p, outcome) PROVE AccountsTypeOK'
  <2>1. photo' \in [Photos -> AccountPhoto]
    <3> DEFINE y == [photo[p] EXCEPT !.file = @ /\ outcome # "gone",
                                     !.spared = @ \cup Sparing(q, outcome)]
    <3>1. y \in AccountPhoto
      BY <1>1 DEF AccountPhoto, Sparing
    <3>2. photo' = [photo EXCEPT ![p] = y]
      BY <1>1, <1>2 DEF FileDeleted, AccountPhoto
    <3>3. QED
      BY <1>1, <3>1, <3>2
  <2>2. request' \in [AdminRequests -> AccountRequest]
    <3> DEFINE x == [request[q] EXCEPT !.files = @ \ {p}, !.failed = @ \/ outcome = "failed"]
    <3>1. x \in AccountRequest
      BY <1>1 DEF AccountRequest
    <3>2. request' = [request EXCEPT ![q] = x]
      BY <1>1, <1>2 DEF FileDeleted, AccountRequest
    <3>3. QED
      BY <1>1, <3>1, <3>2
  <2>3. QED
    BY <1>2, <2>1, <2>2, AccountsStayTyped DEF FileDeleted
<1>3. CASE NothingToDelete(q, p)
  <2> DEFINE x == [request[q] EXCEPT !.files = @ \ {p}]
  <2>1. x \in AccountRequest
    BY <1>1 DEF AccountRequest
  <2>2. request' = [request EXCEPT ![q] = x]
    BY <1>1, <1>3 DEF NothingToDelete, AccountRequest
  <2>3. request' \in [AdminRequests -> AccountRequest]
    BY <1>1, <2>1, <2>2
  <2>4. QED
    BY <1>1, <1>3, <2>3, AccountsStayTyped DEF NothingToDelete
<1>4. QED
  BY <1>2, <1>3

LEMMA CommitsAreTyped ==
    ASSUME AccountsTypeOK, NEW q \in AdminRequests, CommitChange(q) \/ CommitDelete(q)
    PROVE  AccountsTypeOK'
<1>1. request \in [AdminRequests -> AccountRequest] /\ photo \in [Photos -> AccountPhoto]
  BY AccountsTypedIs
<1>2. ASSUME NEW removed, Committed(q, removed)
      PROVE  request' \in [AdminRequests -> AccountRequest] /\ excused' \in BOOLEAN
  <2>1. \A k \in AdminRequests :
           [request[k] EXCEPT !.raced = @ \/ removed # {}] \in AccountRequest
    BY <1>1 DEF AccountRequest
  <2>2. request' \in [AdminRequests -> AccountRequest]
    BY <1>1, <1>2, <2>1, AccountRecords DEF Committed
  <2>3. excused' \in BOOLEAN
    BY <1>2 DEF Committed
  <2>4. QED
    BY <2>2, <2>3
<1>3. CASE CommitChange(q)
  <2>1. admins' \subseteq Users /\ active' \subseteq Users
    BY <1>1, <1>3 DEF CommitChange, Set, AccountsTypeOK, AccountRequest
  <2>2. request' \in [AdminRequests -> AccountRequest] /\ excused' \in BOOLEAN
    BY <1>2, <1>3 DEF CommitChange
  <2>3. QED
    BY <1>3, <2>1, <2>2 DEF CommitChange, AccountsTypeOK, AccountRequest
<1>4. CASE CommitDelete(q)
  <2>1. photo' \in [Photos -> AccountPhoto]
    <3> DEFINE gone(p) == [photo[p] EXCEPT !.row = FALSE, !.spared = @ \cap {q}]
    <3>1. \A p \in Photos : photo[p] \in AccountPhoto /\ gone(p) \in AccountPhoto
      <4> SUFFICES ASSUME NEW p \in Photos
                   PROVE  photo[p] \in AccountPhoto /\ gone(p) \in AccountPhoto
        OBVIOUS
      <4>1. photo[p] \in AccountPhoto
        BY <1>1
      <4>2. QED
        BY <4>1 DEF AccountPhoto
    <3>2. photo' = [p \in Photos |-> IF p \in PhotosOf(request[q].target)
                                       THEN gone(p) ELSE photo[p]]
      BY <1>4 DEF CommitDelete
    <3>3. QED
      <4> HIDE DEF gone
      <4> QED
        BY <3>1, <3>2
  <2>2. request' \in [AdminRequests -> AccountRequest] /\ excused' \in BOOLEAN
    BY <1>2, <1>4 DEF CommitDelete
  <2>3. QED
    BY <1>4, <2>1, <2>2 DEF CommitDelete, AccountsTypeOK, AccountPhoto, AccountRequest
<1>5. QED
  BY <1>3, <1>4

LEMMA AccountsTypedKept == AccountsTypeOK /\ [AccountsNext]_accountVars => AccountsTypeOK'
<1> SUFFICES ASSUME AccountsTypeOK, [AccountsNext]_accountVars PROVE AccountsTypeOK'
  OBVIOUS
<1>1. CASE UNCHANGED accountVars
  BY <1>1 DEF accountVars, AccountsTypeOK
<1>2. QED
  BY <1>1, RequestsAreTyped, PhotosOfAccountsAreTyped, DeletionsAreTyped, CommitsAreTyped
     DEF AccountsNext

-----------------------------------------------------------------------------
(* Annotations: a row that is there belongs to a chain                     *)

RowOfAnnotations ==
    [by : Authors \cup {"nobody"}, event : {"created", "updated", "deleted"},
     current : BOOLEAN, superseded_by : 0..MaxAnnotations, chain : 0..MaxAnnotations]

EditOfAnnotations ==
    [row : 0..MaxAnnotations, event : {"created", "updated", "deleted"},
     by : Authors \cup {"nobody"}, overlapped : BOOLEAN]

Chained(table) == \A r \in Rows : table[r].by # "nobody" => table[r].chain \in Rows

Table(t) == t \in [Rows -> RowOfAnnotations] /\ Chained(t)

AnnotationTyped == AnnotationTypeOK /\ Chained(annotation)

LEMMA AnnotationTypedIs ==
    AnnotationTyped <=> /\ Table(annotation) /\ used \in 0..MaxAnnotations /\ author \subseteq Authors
                        /\ edit \in [Edits -> EditOfAnnotations]
                        /\ forked \subseteq Rows /\ cut \subseteq Rows
  BY DEF AnnotationTyped, AnnotationTypeOK, Table, RowOfAnnotations, EditOfAnnotations

LEMMA Bounds == MaxAnnotations \in Nat /\ 0 \in 0..MaxAnnotations
<1>1. MaxAnnotations \in Nat
  BY AnnotationsAssumption
<1>2. QED
  BY <1>1

LEMMA BlankAnnotations ==
    /\ NoAnnotation \in RowOfAnnotations /\ NoAnnotation.by = "nobody"
    /\ IdleEdit \in EditOfAnnotations
  BY Bounds DEF NoAnnotation, RowOfAnnotations, IdleEdit, EditOfAnnotations, NoneYet

LEMMA AnnotationTypedBegins == AnnotationsInit => AnnotationTyped
<1> SUFFICES ASSUME AnnotationsInit PROVE AnnotationTyped
  OBVIOUS
<1>1. Table(annotation)
  BY BlankAnnotations DEF AnnotationsInit, Table, Chained
<1>2. QED
  BY <1>1, BlankAnnotations, Bounds, AnnotationTypedIs DEF AnnotationsInit

LEMMA CreatingIsTyped ==
    ASSUME AnnotationTyped, NEW u \in Authors, create_annotation(u) PROVE AnnotationTyped'
<1> DEFINE x == [NoAnnotation EXCEPT !.by = u, !.current = TRUE, !.chain = used + 1]
<1>1. used + 1 \in Rows /\ used + 1 \in 0..MaxAnnotations
  BY Bounds, AnnotationTypedIs DEF create_annotation, Rows
<1>2. x \in RowOfAnnotations /\ x.chain = used + 1
  BY <1>1, BlankAnnotations DEF RowOfAnnotations
<1>3. annotation' = [annotation EXCEPT ![used + 1] = x]
  BY DEF create_annotation
<1>4. Table(annotation')
  BY <1>1, <1>2, <1>3, AnnotationTypedIs DEF Table, Chained
<1>5. QED
  BY <1>1, <1>4, AnnotationTypedIs DEF create_annotation, AnnotationTyped, AnnotationTypeOK, Table,
     RowOfAnnotations, Chained

LEMMA LoadingIsTyped ==
    ASSUME AnnotationTyped, NEW e \in Edits,
           \/ \E r \in Rows, u \in Authors : LoadsVersion(e, r, u) \/ LoadsEvent(e, r, u)
           \/ EditFails(e)
    PROVE  AnnotationTyped'
<1>1. \A x \in EditOfAnnotations : [edit EXCEPT ![e] = x] \in [Edits -> EditOfAnnotations]
  BY AnnotationTypedIs
<1>2. ASSUME NEW r \in Rows, NEW u \in Authors, NEW event \in {"updated", "deleted"},
             Opens(e, r, u, event)
      PROVE  edit' \in [Edits -> EditOfAnnotations]
  <2>1. r \in 0..MaxAnnotations
    BY Bounds DEF Rows
  <2>2. [IdleEdit EXCEPT !.row = r, !.by = u, !.event = event] \in EditOfAnnotations
    BY <2>1, BlankAnnotations DEF EditOfAnnotations
  <2>3. QED
    BY <1>1, <1>2, <2>2 DEF Opens
<1>3. ASSUME NEW r \in Rows, NEW u \in Authors, LoadsVersion(e, r, u) \/ LoadsEvent(e, r, u)
      PROVE  edit' \in [Edits -> EditOfAnnotations]
  BY <1>2, <1>3 DEF LoadsVersion, LoadsEvent
<1>4. ASSUME EditFails(e) PROVE edit' \in [Edits -> EditOfAnnotations]
  BY <1>1, <1>4, BlankAnnotations DEF EditFails
<1>5. edit' \in [Edits -> EditOfAnnotations]
  BY <1>3, <1>4
<1>6. UNCHANGED <<annotation, used, author, forked, cut>>
  BY DEF LoadsVersion, LoadsEvent, EditFails
<1>7. QED
  BY <1>5, <1>6 DEF AnnotationTyped, AnnotationTypeOK, Chained, EditOfAnnotations

LEMMA CommittingIsTyped ==
    ASSUME AnnotationTyped, NEW e \in Edits, Commits(e) PROVE AnnotationTyped'
<1> DEFINE old == edit[e].row
           chain == annotation[old].chain
           x == [by |-> edit[e].by, event |-> edit[e].event, current |-> TRUE,
                 superseded_by |-> NoneYet, chain |-> chain]
           withNew == [annotation EXCEPT ![used + 1] = x]
           y == [withNew[old] EXCEPT !.current = FALSE, !.superseded_by = used + 1]
<1>1. used + 1 \in Rows /\ used + 1 \in 0..MaxAnnotations
  BY Bounds, AnnotationTypedIs DEF Commits, Rows
<1>2. edit[e] \in EditOfAnnotations
  BY AnnotationTypedIs
<1>3. old \in Rows
  BY <1>2, Bounds DEF Commits, Rows, NoneYet, EditOfAnnotations
<1>4. chain \in Rows /\ chain \in 0..MaxAnnotations
  BY <1>3, Bounds, AnnotationTypedIs DEF Commits, IsThere, Table, Chained, Rows
<1>5. x \in RowOfAnnotations /\ x.chain \in Rows
  BY <1>2, <1>4, Bounds DEF RowOfAnnotations, EditOfAnnotations, NoneYet
<1>6. Table(withNew)
  BY <1>1, <1>5, AnnotationTypedIs DEF Table, Chained
<1>7. y \in RowOfAnnotations /\ (y.by # "nobody" => y.chain \in Rows)
  <2>1. withNew[old] \in RowOfAnnotations
        /\ (withNew[old].by # "nobody" => withNew[old].chain \in Rows)
    BY <1>3, <1>6 DEF Table, Chained
  <2> HIDE DEF withNew
  <2>2. QED
    BY <1>1, <2>1 DEF RowOfAnnotations
<1>8. annotation' = [withNew EXCEPT ![old] = y]
  <2>1. withNew \in [Rows -> RowOfAnnotations]
    BY <1>6 DEF Table
  <2>2. annotation' = [withNew EXCEPT ![old].current = FALSE, ![old].superseded_by = used + 1]
    BY DEF Commits
  <2> HIDE DEF withNew
  <2>3. QED
    BY <1>3, <2>1, <2>2
<1>9. Table(annotation')
  <2> HIDE DEF withNew, y
  <2>1. QED
    BY <1>3, <1>6, <1>7, <1>8 DEF Table, Chained
<1>10. edit' \in [Edits -> EditOfAnnotations]
  <2>1. \A f \in Edits : [edit[f] EXCEPT !.overlapped = @ \/ edit[f].row = old] \in EditOfAnnotations
    BY AnnotationTypedIs DEF EditOfAnnotations
  <2>2. QED
    BY <2>1, BlankAnnotations DEF Commits
<1>11. forked' \subseteq Rows
  BY <1>4, AnnotationTypedIs DEF Commits
<1>12. used' = used + 1 /\ UNCHANGED <<author, cut>>
  BY DEF Commits
<1> HIDE DEF old, chain, x, withNew, y
<1>13. QED
  BY <1>1, <1>9, <1>10, <1>11, <1>12, AnnotationTypedIs
  DEF AnnotationTyped, AnnotationTypeOK, Table, Chained, RowOfAnnotations, EditOfAnnotations

LEMMA DepartureIsTyped ==
    ASSUME AnnotationTyped, NEW u \in Authors, AccountDeleted(u) PROVE AnnotationTyped'
<1> DEFINE gone == {r \in Rows : annotation[r].by = u}
<1>1. u # "nobody"
  BY AnnotationsAssumption
<1>2. \A r \in Rows : /\ annotation[r] \in RowOfAnnotations
                      /\ [annotation[r] EXCEPT !.superseded_by = NoneYet] \in RowOfAnnotations
  BY AnnotationTypedIs, Bounds DEF Table, RowOfAnnotations, NoneYet
<1>3. annotation' \in [Rows -> RowOfAnnotations]
  BY <1>2, BlankAnnotations DEF AccountDeleted
<1>4. \A r \in Rows : annotation'[r].by # "nobody" =>
         annotation'[r].by = annotation[r].by /\ annotation'[r].chain = annotation[r].chain
  BY <1>2, BlankAnnotations DEF AccountDeleted, RowOfAnnotations
<1>5. Table(annotation')
  BY <1>3, <1>4, AnnotationTypedIs DEF Table, Chained
<1>6. cut' \subseteq Rows
  BY <1>1, AnnotationTypedIs DEF AccountDeleted, Table, Chained
<1>7. author' \subseteq Authors /\ UNCHANGED <<used, edit, forked>>
  BY AnnotationTypedIs DEF AccountDeleted
<1>8. QED
  BY <1>5, <1>6, <1>7
  DEF AnnotationTyped, AnnotationTypeOK, Table, Chained, RowOfAnnotations

LEMMA AnnotationTypedKept == AnnotationTyped /\ [AnnotationsNext]_annotationVars => AnnotationTyped'
<1> SUFFICES ASSUME AnnotationTyped, [AnnotationsNext]_annotationVars PROVE AnnotationTyped'
  OBVIOUS
<1>1. CASE UNCHANGED annotationVars
  BY <1>1 DEF annotationVars, AnnotationTyped, AnnotationTypeOK, Chained
<1>2. QED
  BY <1>1, CreatingIsTyped, LoadingIsTyped, CommittingIsTyped, DepartureIsTyped DEF AnnotationsNext

-----------------------------------------------------------------------------
(* The token bucket                                                        *)

LEMMA BucketTypedBegins == BucketInit => BucketTypeOK
<1> SUFFICES ASSUME BucketInit PROVE BucketTypeOK
  OBVIOUS
<1>1. BucketSize \in Nat /\ Period \in Nat /\ Full \in Nat
  BY BucketAssumption DEF Full
<1>2. QED
  BY <1>1 DEF BucketInit, BucketTypeOK, Away

LEMMA BucketTypedKept == BucketTypeOK /\ [BucketNext]_bucketVars => BucketTypeOK'
<1> SUFFICES ASSUME BucketTypeOK, [BucketNext]_bucketVars PROVE BucketTypeOK'
  OBVIOUS
<1>1. BucketSize \in Nat /\ Period \in Nat \ {0} /\ Full \in Nat
  BY BucketAssumption DEF Full
<1>2. /\ tokens \in 0..BucketSize /\ since \in 0..Full /\ exact \in Int
      /\ waiter \in [Waiters -> Away..Period]
  BY DEF BucketTypeOK
<1>3. CASE UNCHANGED bucketVars
  BY <1>3 DEF bucketVars, BucketTypeOK
<1>4. CASE Tick
  <2>1. waiter' \in [Waiters -> Away..Period]
    BY <1>1, <1>2, <1>4 DEF Tick, Away
  <2>2. QED
    BY <1>1, <1>2, <1>4, <2>1 DEF Tick, AtMost, BucketTypeOK
<1>5. ASSUME NEW w \in Waiters, Arrives(w) PROVE BucketTypeOK'
  <2>1. 0 \in Away..Period
    BY <1>1 DEF Away
  <2>2. QED
    BY <1>5, <2>1 DEF Arrives, BucketTypeOK
<1>6. ASSUME NEW w \in Waiters, acquire(w) PROVE BucketTypeOK'
  <2>1. since \div Period \in Nat
    BY <1>1, <1>2
  <2> DEFINE whole == since \div Period
  <2>2. Refilled = AtMost(BucketSize, tokens + whole) /\ whole \in Nat
    BY <2>1 DEF Refilled
  <2> HIDE DEF whole
  <2>3. Refilled \in 0..BucketSize
    BY <1>1, <1>2, <2>2 DEF AtMost
  <2>4. tokens' \in 0..BucketSize /\ exact' \in Int
    BY <1>1, <1>2, <1>6, <2>3 DEF acquire
  <2>5. waiter' \in [Waiters -> Away..Period]
    BY <1>1, <1>2, <1>6 DEF acquire, Away
  <2>6. since' \in 0..Full
    BY <1>1, <1>6 DEF acquire, LastRefill
  <2>7. QED
    BY <2>4, <2>5, <2>6 DEF BucketTypeOK
<1>7. QED
  BY <1>3, <1>4, <1>5, <1>6 DEF BucketNext

-----------------------------------------------------------------------------
(* Peak tiles                                                              *)

LEMMA PeakTypedKept == PeakTypeOK /\ [PeakNext]_peakVars => PeakTypeOK'
<1> SUFFICES ASSUME PeakTypeOK, [PeakNext]_peakVars PROVE PeakTypeOK'
  OBVIOUS
<1>1. CASE UNCHANGED peakVars
  BY <1>1 DEF peakVars, PeakTypeOK
<1>2. ASSUME NEW q \in Lookups, Join(q) \/ Woken(q) \/ ClientLeaves(q) PROVE PeakTypeOK'
  BY <1>2 DEF Join, Woken, ClientLeaves, PeakTypeOK
<1>3. ASSUME NEW q \in Lookups, NEW f \in Fetches, Start(q, f) PROVE PeakTypeOK'
  BY <1>3 DEF Start, PeakTypeOK
<1>4. ASSUME NEW f \in Fetches, PopCallback(f) \/ \E ok \in BOOLEAN : AttemptEnds(f, ok)
      PROVE  PeakTypeOK'
  BY <1>4 DEF PopCallback, AttemptEnds, PeakTypeOK
<1>5. CASE AttemptExpires
  BY <1>5 DEF AttemptExpires, PeakTypeOK
<1>6. QED
  BY <1>1, <1>2, <1>3, <1>4, <1>5 DEF PeakNext

LEMMA PeakTypedBegins == PeakInit => PeakTypeOK
<1> SUFFICES ASSUME PeakInit PROVE PeakTypeOK
  OBVIOUS
<1>1. fetch \in [Fetches -> [at : {"new", "running", "ended", "gone"}, ok : BOOLEAN]]
  BY DEF PeakInit
<1>2. QED
  BY <1>1 DEF PeakInit, PeakTypeOK

-----------------------------------------------------------------------------
(* Streams: what one has sent is within the limit, too                     *)

StreamRecords ==
    [at : {"idle", "open", "insert", "fetch", "got", "cached", "done", "error"},
     sent : SUBSET Pictures, count : 0..Limit, attempt : 0..MaxRetries, batch : SUBSET Pictures]

StreamTyped ==
    /\ cache \subseteq Pictures /\ hidden \subseteq Pictures
    /\ region \in {"none", "incomplete", "complete"}
    /\ stream \in [Streams -> StreamRecords]
    /\ twice \in BOOLEAN /\ upstream \subseteq Streams
    /\ \A s \in Streams : stream[s].at = "idle" => stream[s].count = 0

LEMMA StreamBounds == Limit \in Nat /\ MaxRetries \in Nat /\ IsFiniteSet(Pictures)
  BY StreamAssumption

LEMMA StreamTypesFollow == StreamTyped => StreamTypeOK
<1>1. Cardinality(Pictures) \in Nat
  BY StreamBounds, FS_CardinalityType
<1>2. 0..Limit \subseteq 0..Cardinality(Pictures) + Limit
  BY <1>1, StreamBounds
<1>3. QED
  BY <1>2 DEF StreamTyped, StreamTypeOK, StreamRecords

LEMMA StreamTypedBegins == StreamInit => StreamTyped
<1> SUFFICES ASSUME StreamInit PROVE StreamTyped
  OBVIOUS
<1>1. IdleStream \in StreamRecords /\ IdleStream.count = 0
  BY StreamBounds DEF IdleStream, StreamRecords
<1>2. QED
  BY <1>1 DEF StreamInit, StreamTyped

\* A stream that goes on is a stream's record that is not idle.
LEMMA StreamGoes ==
    ASSUME StreamTyped, NEW s \in Streams, NEW x \in StreamRecords, x.at # "idle",
           stream' = [stream EXCEPT ![s] = x],
           cache' \subseteq Pictures, hidden' \subseteq Pictures,
           region' \in {"none", "incomplete", "complete"}, twice' \in BOOLEAN,
           upstream' \subseteq Streams
    PROVE  StreamTyped'
  BY DEF StreamTyped

LEMMA StreamSteps ==
    ASSUME StreamTyped, NEW s \in Streams
    PROVE  /\ \A to \in {"insert", "fetch", "cached", "done", "error"} :
                 Becomes(s, to) \/ StreamEnds(s, to) =>
                 \E x \in StreamRecords : x.at # "idle" /\ stream' = [stream EXCEPT ![s] = x]
           /\ \A to \in {"open", "done"}, pictures, seen \in SUBSET Pictures :
                 Send(s, to, pictures, seen)
                   /\ stream[s].count + Cardinality(pictures) \in 0..Limit =>
                 \E x \in StreamRecords : x.at # "idle" /\ stream' = [stream EXCEPT ![s] = x]
<1>1. stream[s] \in StreamRecords
  BY DEF StreamTyped
<1>2. ASSUME NEW to \in {"insert", "fetch", "cached", "done", "error"}, Becomes(s, to) \/ StreamEnds(s, to)
      PROVE  \E x \in StreamRecords : x.at # "idle" /\ stream' = [stream EXCEPT ![s] = x]
  <2>1. [stream[s] EXCEPT !.at = to] \in StreamRecords /\ [stream[s] EXCEPT !.at = to].at = to
    BY <1>1 DEF StreamRecords
  <2>2. [IdleStream EXCEPT !.at = to] \in StreamRecords /\ [IdleStream EXCEPT !.at = to].at = to
    BY StreamBounds DEF StreamRecords, IdleStream
  <2>3. \/ stream' = [stream EXCEPT ![s] = [stream[s] EXCEPT !.at = to]]
        \/ stream' = [stream EXCEPT ![s] = [IdleStream EXCEPT !.at = to]]
    BY <1>2 DEF Becomes, StreamEnds
  <2>4. to # "idle"
    OBVIOUS
  <2>5. QED
    BY <2>1, <2>2, <2>3, <2>4
<1>3. ASSUME NEW to \in {"open", "done"}, NEW pictures \in SUBSET Pictures,
             NEW seen \in SUBSET Pictures, Send(s, to, pictures, seen),
             stream[s].count + Cardinality(pictures) \in 0..Limit
      PROVE  \E x \in StreamRecords : x.at # "idle" /\ stream' = [stream EXCEPT ![s] = x]
  <2> DEFINE x == [stream[s] EXCEPT !.at = to, !.sent = @ \cup seen, !.batch = {},
                                    !.count = @ + Cardinality(pictures)]
  <2>1. x \in StreamRecords /\ x.at = to
    BY <1>1, <1>3 DEF StreamRecords
  <2>2. stream' = [stream EXCEPT ![s] = x]
    BY <1>3 DEF Send
  <2> HIDE DEF x
  <2>3. QED
    BY <2>1, <2>2
<1>4. QED
  BY <1>2, <1>3

LEMMA SendingIsTyped ==
    ASSUME StreamTyped, NEW s \in Streams, SendsCached(s) \/ SendsLive(s) PROVE StreamTyped'
<1>1. stream[s] \in StreamRecords /\ stream[s].count \in 0..Limit
      /\ cache \subseteq Pictures /\ stream[s].batch \subseteq Pictures
  BY DEF StreamTyped, StreamRecords
<1>2. \A P \in SUBSET Pictures : Cardinality(P) \in Nat
  BY StreamBounds, FS_Subset, FS_CardinalityType
<1>3. CASE SendsCached(s)
  <2>1. PICK sample \in get_cached_photos_in_bbox : Send(s, "open", sample, sample)
    BY <1>3 DEF SendsCached
  <2>2. sample \subseteq Pictures /\ Cardinality(sample) <= Limit
    BY <1>1, <2>1 DEF get_cached_photos_in_bbox, apply_mapillary_hidden_content_filters
  <2>3. stream[s].count + Cardinality(sample) \in 0..Limit
    <3>1. stream[s].count = 0
      BY <1>3 DEF SendsCached, StreamTyped
    <3>2. QED
      BY <1>2, <2>2, <3>1, StreamBounds
  <2>4. PICK x \in StreamRecords : x.at # "idle" /\ stream' = [stream EXCEPT ![s] = x]
    BY <2>1, <2>2, <2>3, StreamSteps
  <2>5. twice' \in BOOLEAN
    BY <2>1 DEF Send, StreamTyped
  <2>6. QED
    BY <1>3, <2>4, <2>5, StreamGoes DEF SendsCached, StreamTyped
<1>4. CASE SendsLive(s)
  <2>1. PICK chunk : /\ chunk \subseteq Unsent(s) /\ Cardinality(chunk) <= Limit - stream[s].count
                     /\ Send(s, "done", chunk, Unsent(s))
    BY <1>4 DEF SendsLive, filter_mapillary_photos_list
  <2>2. Unsent(s) \subseteq Pictures /\ chunk \subseteq Pictures
    BY <1>1, <2>1 DEF Unsent
  <2>3. stream[s].count + Cardinality(chunk) \in 0..Limit
    BY <1>1, <1>2, <2>1, <2>2, StreamBounds
  <2>4. PICK x \in StreamRecords : x.at # "idle" /\ stream' = [stream EXCEPT ![s] = x]
    BY <2>1, <2>2, <2>3, StreamSteps
  <2>5. twice' \in BOOLEAN
    BY <2>1 DEF Send, StreamTyped
  <2>6. QED
    BY <1>4, <2>4, <2>5, StreamGoes DEF SendsLive, StreamTyped
<1>5. QED
  BY <1>3, <1>4

LEMMA FetchingIsTyped ==
    ASSUME StreamTyped, NEW s \in Streams,
           \/ FindsRegion(s) \/ InsertsRegion(s) \/ FetchRetries(s) \/ FetchFails(s)
           \/ CachesBatch(s) \/ Cancelled(s) \/ \E batch \in SUBSET Pictures : Fetched(s, batch)
    PROVE  StreamTyped'
<1>1. stream[s] \in StreamRecords
  BY DEF StreamTyped
<1>2. ASSUME \/ FindsRegion(s) \/ InsertsRegion(s) \/ FetchFails(s) \/ CachesBatch(s) \/ Cancelled(s)
      PROVE  \E x \in StreamRecords : x.at # "idle" /\ stream' = [stream EXCEPT ![s] = x]
  <2>1. \E to \in {"insert", "fetch", "cached", "done", "error"} : Becomes(s, to) \/ StreamEnds(s, to)
    BY <1>2 DEF FindsRegion, InsertsRegion, FetchFails, CachesBatch, Cancelled, FoundAgain
  <2>2. QED
    BY <2>1, StreamSteps
<1>3. ASSUME FetchRetries(s)
      PROVE  \E x \in StreamRecords : x.at # "idle" /\ stream' = [stream EXCEPT ![s] = x]
  <2> DEFINE x == [stream[s] EXCEPT !.attempt = @ + 1]
  <2>1. x \in StreamRecords /\ x.at = "fetch"
    BY <1>1, <1>3, StreamBounds DEF FetchRetries, StreamRecords
  <2>2. stream' = [stream EXCEPT ![s] = x]
    BY <1>3 DEF FetchRetries
  <2> HIDE DEF x
  <2>3. QED
    BY <2>1, <2>2
<1>4. ASSUME NEW batch \in SUBSET Pictures, Fetched(s, batch)
      PROVE  \E x \in StreamRecords : x.at # "idle" /\ stream' = [stream EXCEPT ![s] = x]
  <2> DEFINE x == [stream[s] EXCEPT !.at = "got", !.batch = batch]
  <2>1. x \in StreamRecords /\ x.at = "got"
    BY <1>1 DEF StreamRecords
  <2>2. stream' = [stream EXCEPT ![s] = x]
    BY <1>4 DEF Fetched
  <2> HIDE DEF x
  <2>3. QED
    BY <2>1, <2>2
<1>5. PICK x \in StreamRecords : x.at # "idle" /\ stream' = [stream EXCEPT ![s] = x]
  BY <1>2, <1>3, <1>4
<1>6. /\ region' \in {"none", "incomplete", "complete"} /\ UNCHANGED <<hidden, twice>>
      /\ upstream' \in {upstream, upstream \cup {s}}
      /\ cache' \in {cache, cache \cup stream[s].batch}
  BY DEF FindsRegion, InsertsRegion, FetchRetries, FetchFails, CachesBatch, Cancelled, Fetched,
         StreamTyped
<1>7. QED
  BY <1>1, <1>5, <1>6, StreamGoes DEF StreamTyped, StreamRecords

LEMMA StreamTypedKept == StreamTyped /\ [StreamNext]_streamVars => StreamTyped'
<1> SUFFICES ASSUME StreamTyped, [StreamNext]_streamVars PROVE StreamTyped'
  OBVIOUS
<1>1. CASE UNCHANGED streamVars
  BY <1>1 DEF streamVars, StreamTyped
<1>2. ASSUME NEW pictures \in SUBSET Pictures, UserHides(pictures) PROVE StreamTyped'
  BY <1>2 DEF UserHides, StreamTyped
<1>3. QED
  BY <1>1, <1>2, SendingIsTyped, FetchingIsTyped DEF StreamNext

-----------------------------------------------------------------------------
(* Graduation                                                              *)

MirrorRow == [has : BOOLEAN, row : Row, missing : BOOLEAN]

PackageRecord == [at : {"none", "incoming", "applied"},
                  creates : SUBSET Natives, sets : SUBSET Versions]

ApplyRecord == [at : {"idle", "read", "committed"}, of : Packages \cup {"nothing"},
                native : Natives \cup {NoNative}, head : 0..MaxVersions]

SyncRecord == [at : {"idle", "read", "written"}, quiet : BOOLEAN, changed : SUBSET Versions,
               missing : SUBSET Versions, reappeared : SUBSET Versions]

HillviewTyped == /\ version \in [Versions -> Row] /\ versions \in 0..MaxVersions
                 /\ unlinked \subseteq Natives

LEMMA GraduationTypedIs ==
    GraduationTypeOK <=>
        /\ HillviewTyped /\ dump \in [Versions -> Row] /\ native \in [Natives -> {"live", "retired"}]
        /\ mirror \in [Versions -> MirrorRow] /\ package \in [Packages -> PackageRecord]
        /\ applying \in [Appliers -> ApplyRecord] /\ sync \in SyncRecord
  BY DEF GraduationTypeOK, HillviewTyped, MirrorRow, PackageRecord, ApplyRecord, SyncRecord

LEMMA GraduationBounds == MaxVersions \in Nat /\ 0 \in 0..MaxVersions /\ Versions \subseteq 0..MaxVersions
<1>1. MaxVersions \in Nat
  BY GraduationAssumption
<1>2. QED
  BY <1>1 DEF Versions

LEMMA GraduationBlanks ==
    /\ NotThere \in Row /\ NotMirrored \in MirrorRow /\ NoPackage \in PackageRecord
    /\ NoApply \in ApplyRecord /\ NoSync \in SyncRecord
<1>1. NotThere \in Row
  BY GraduationBounds DEF NotThere, Row, NoVersion
<1>2. NotMirrored \in MirrorRow
  BY <1>1 DEF NotMirrored, MirrorRow
<1>3. NoPackage \in PackageRecord /\ NoSync \in SyncRecord
  BY DEF NoPackage, PackageRecord, NoSync, SyncRecord
<1>4. NoApply \in ApplyRecord
  BY GraduationBounds DEF NoApply, ApplyRecord, NoVersion
<1>5. QED
  BY <1>1, <1>2, <1>3, <1>4

LEMMA GraduationTypedBegins == GraduationInit => GraduationTypeOK
<1> SUFFICES ASSUME GraduationInit PROVE GraduationTypeOK
  OBVIOUS
<1>1. HillviewTyped
  BY GraduationBlanks, GraduationBounds DEF GraduationInit, HillviewTyped
<1>2. QED
  BY <1>1, GraduationBlanks, GraduationTypedIs DEF GraduationInit, HillviewTyped

-----------------------------------------------------------------------------
\* A set of numbers that is not empty has a least one.
LEMMA LeastNumber ==
    ASSUME NEW T, T \subseteq Nat, T # {}
    PROVE  \E x \in T : \A y \in T : x <= y
<1> DEFINE Smaller == OpToRel(<, Nat)
<1>1. \A x, y \in Nat : y < x => <<y, x>> \in Smaller
  BY DEF OpToRel
<1>2. IsWellFoundedOn(Smaller, Nat)
  BY NatLessThanWellFounded
<1> HIDE DEF Smaller
<1>3. PICK x \in T : \A y \in T : ~ (<<y, x>> \in Smaller)
  BY <1>2, WFMin
<1>4. \A y \in T : x \in Nat /\ y \in Nat /\ ~ (y < x)
  BY <1>1, <1>3
<1>5. QED
  BY <1>4

\* The walk that _resolve_head makes, over the first n rows.
HeadWalk(v, n, f) == f = [i \in 0..n |-> IF i = 0 THEN v ELSE Follow(f[i - 1])]

LEMMA WalksExist == ASSUME NEW v PROVE \A n \in Nat : \E f : HeadWalk(v, n, f)
<1> DEFINE Short == {n \in Nat : ~ \E f : HeadWalk(v, n, f)}
<1> SUFFICES ASSUME Short # {} PROVE FALSE
  OBVIOUS
<1>1. PICK m \in Short : \A n \in Short : m <= n
  BY LeastNumber
<1>2. m \in Nat /\ ~ \E f : HeadWalk(v, m, f)
  BY <1>1
<1>3. CASE m = 0
  <2> DEFINE f == [i \in 0..0 |-> v]
  <2>1. HeadWalk(v, 0, f)
    BY DEF HeadWalk
  <2>2. QED
    BY <1>2, <1>3, <2>1
<1>4. CASE m # 0
  <2>1. m - 1 \in Nat /\ m - 1 \notin Short
    BY <1>1, <1>2, <1>4
  <2>2. PICK f : HeadWalk(v, m - 1, f)
    BY <2>1
  <2> DEFINE g == [i \in 0..m |-> IF i = 0 THEN v ELSE Follow(f[i - 1])]
  <2>3. \A i \in 0..(m - 1) : f[i] = IF i = 0 THEN v ELSE Follow(f[i - 1])
    BY <2>2 DEF HeadWalk
  <2>4. \A i \in 0..m : i # 0 => i - 1 \in 0..(m - 1) /\ i - 1 \in 0..m
    BY <1>2
  <2>5. \A i \in 0..m : i # 0 => g[i - 1] = f[i - 1]
    BY <2>3, <2>4
  <2>6. g = [i \in 0..m |-> IF i = 0 THEN v ELSE Follow(g[i - 1])]
    BY <2>5
  <2>7. HeadWalk(v, m, g)
    BY <2>6 DEF HeadWalk
  <2>8. QED
    BY <1>2, <2>7
<1>5. QED
  BY <1>3, <1>4

\* Following the chain from a row ends at a row.
LEMMA HeadIsRow ==
    ASSUME version \in [Versions -> Row], NEW v \in Versions
    PROVE  _resolve_head(v) \in Versions
<1> DEFINE at == CHOOSE at : at = [i \in 0..MaxVersions |-> IF i = 0 THEN v ELSE Follow(at[i - 1])]
<1>1. MaxVersions \in Nat
  BY GraduationBounds
<1>2. at = [i \in 0..MaxVersions |-> IF i = 0 THEN v ELSE Follow(at[i - 1])]
  <2>1. \E f : f = [i \in 0..MaxVersions |-> IF i = 0 THEN v ELSE Follow(f[i - 1])]
    BY <1>1, WalksExist DEF HeadWalk
  <2>2. QED
    BY <2>1
<1>3. _resolve_head(v) = at[MaxVersions]
  BY DEF _resolve_head
<1> HIDE DEF at
<1>4. \A i \in 0..MaxVersions : at[i] = IF i = 0 THEN v ELSE Follow(at[i - 1])
  BY <1>2
<1>5. \A w \in Versions : Follow(w) \in Versions
  BY <1>1 DEF Follow, Versions, Row, NoVersion
<1> DEFINE Astray == {i \in 0..MaxVersions : at[i] \notin Versions}
<1>6. Astray = {}
  <2> SUFFICES ASSUME Astray # {} PROVE FALSE
    OBVIOUS
  <2>1. PICK m \in Astray : \A n \in Astray : m <= n
    <3>1. Astray \subseteq Nat /\ Astray # {}
      BY <1>1
    <3> HIDE DEF Astray
    <3>2. QED
      BY <3>1, LeastNumber
  <2>2. m \in 0..MaxVersions /\ at[m] \notin Versions
    BY <2>1
  <2>3. m # 0
    BY <1>4, <2>2
  <2>4. m - 1 \in 0..MaxVersions /\ m - 1 < m
    BY <1>1, <2>2, <2>3
  <2>5. m - 1 \notin Astray
    BY <1>1, <2>1, <2>2, <2>4
  <2>6. at[m] = Follow(at[m - 1])
    BY <1>4, <2>2, <2>3
  <2>7. QED
    BY <1>5, <2>2, <2>4, <2>5, <2>6
<1>7. QED
  BY <1>1, <1>3, <1>6

-----------------------------------------------------------------------------
(* Graduation: the steps of Hillview and of the workbench                  *)

LEMMA NextVersion ==
    ASSUME HillviewTyped, versions < MaxVersions
    PROVE  versions + 1 \in Versions /\ versions + 1 \in 0..MaxVersions
<1>1. versions \in 0..MaxVersions /\ MaxVersions \in Nat
  BY GraduationBounds DEF HillviewTyped
<1>2. QED
  BY <1>1 DEF Versions

\* What is not Hillview's own does not move with it.
LEMMA HillviewMoves ==
    ASSUME GraduationTypeOK, HillviewTyped', UNCHANGED <<dump, native, mirror, package, sync>>,
           applying' \in [Appliers -> ApplyRecord]
    PROVE  GraduationTypeOK'
  BY DEF GraduationTypeOK, HillviewTyped, ApplyRecord

LEMMA EditingIsTyped ==
    ASSUME GraduationTypeOK,
           \/ UserCreates
           \/ \E v \in Versions :
               UserChanges(v, "updated") \/ UserChanges(v, "deleted") \/ AuthorLeaves(v)
    PROVE  GraduationTypeOK'
<1>1. HillviewTyped /\ applying \in [Appliers -> ApplyRecord]
  BY GraduationTypedIs
<1>2. CASE UserCreates
  <2>1. [NotThere EXCEPT !.there = TRUE, !.current = TRUE] \in Row
    BY GraduationBlanks DEF Row
  <2>2. versions' \in 0..MaxVersions /\ versions + 1 \in Versions
    BY <1>1, <1>2, NextVersion DEF UserCreates
  <2>3. HillviewTyped'
    BY <1>1, <1>2, <2>1, <2>2 DEF UserCreates, HillviewTyped
  <2>4. QED
    BY <1>1, <1>2, <2>3, HillviewMoves DEF UserCreates, workbench, transport
<1>3. ASSUME NEW v \in Versions, NEW event \in {"updated", "deleted"}, UserChanges(v, event)
      PROVE  GraduationTypeOK'
  <2> DEFINE x == Superseded(v, versions + 1)
             y == Superseding(v, event, FALSE)
  <2>1. versions' \in 0..MaxVersions /\ versions + 1 \in Versions
    BY <1>1, <1>3, NextVersion DEF UserChanges
  <2>2. version[v] \in Row /\ NotThere \in Row /\ versions + 1 \in 0..MaxVersions
    BY <1>1, <2>1, GraduationBlanks, GraduationBounds DEF HillviewTyped
  <2>3. x \in Row /\ y \in Row /\ Lost(v) \subseteq Natives
    BY <2>2 DEF Superseded, Superseding, Lost, Row
  <2>4. version' = [version EXCEPT ![v] = x, ![versions + 1] = y]
    BY <1>3 DEF UserChanges
  <2> HIDE DEF x, y
  <2>5. version' \in [Versions -> Row] /\ unlinked' \subseteq Natives
    BY <1>1, <1>3, <2>3, <2>4 DEF UserChanges, HillviewTyped
  <2>6. QED
    BY <1>1, <1>3, <2>1, <2>5, HillviewMoves DEF UserChanges, workbench, transport, HillviewTyped
<1>4. ASSUME NEW v \in Versions, AuthorLeaves(v) PROVE GraduationTypeOK'
  <2>1. \A w \in Versions :
           [version[w] EXCEPT !.next = IF @ = v THEN NoVersion ELSE @] \in Row
    BY <1>1, GraduationBounds DEF HillviewTyped, Row, NoVersion
  <2>2. version' \in [Versions -> Row]
    BY <1>4, <2>1, GraduationBlanks DEF AuthorLeaves
  <2>3. Lost(v) \subseteq Natives
    BY <1>1 DEF Lost, HillviewTyped, Row
  <2>4. HillviewTyped'
    BY <1>1, <1>4, <2>2, <2>3 DEF AuthorLeaves, HillviewTyped
  <2>5. QED
    BY <1>1, <1>4, <2>4, HillviewMoves DEF AuthorLeaves, workbench, transport
<1>5. QED
  BY <1>2, <1>3, <1>4

LEMMA PackagesAreTyped ==
    ASSUME GraduationTypeOK,
           \/ DumpRestored
           \/ \E k \in Packages : export(k)
    PROVE  GraduationTypeOK'
<1>1. HillviewTyped /\ package \in [Packages -> PackageRecord] /\ sync \in SyncRecord
  BY GraduationTypedIs
<1>2. CASE DumpRestored
  <2>1. [sync EXCEPT !.quiet = FALSE] \in SyncRecord
    BY <1>1 DEF SyncRecord
  <2>2. dump' \in [Versions -> Row] /\ sync' \in SyncRecord
    BY <1>1, <1>2, <2>1 DEF DumpRestored, HillviewTyped
  <2>3. QED
    BY <1>2, <2>2 DEF DumpRestored, hillview, transport, GraduationTypeOK, SyncRecord
<1>3. ASSUME NEW k \in Packages, export(k) PROVE GraduationTypeOK'
  <2>1. PICK creates \in SUBSET {n \in Natives : native[n] = "live"}, sets \in SUBSET Suggestible :
            package' = [package EXCEPT ![k] = [at |-> "incoming", creates |-> creates, sets |-> sets]]
    BY <1>3 DEF export
  <2>2. [at |-> "incoming", creates |-> creates, sets |-> sets] \in PackageRecord
    BY DEF PackageRecord, Suggestible
  <2>3. package' \in [Packages -> PackageRecord]
    BY <1>1, <2>1, <2>2
  <2>4. QED
    BY <1>3, <2>3 DEF export, hillview, workbench, GraduationTypeOK, PackageRecord
<1>4. QED
  BY <1>2, <1>3

LEMMA ReadingIsTyped ==
    ASSUME GraduationTypeOK, NEW a \in Appliers, NEW k \in Packages, ApplyReads(a, k)
    PROVE  GraduationTypeOK'
<1>1. /\ version \in [Versions -> Row] /\ package[k] \in PackageRecord
      /\ applying \in [Appliers -> ApplyRecord]
  BY GraduationTypedIs DEF HillviewTyped
<1>2. package[k].creates \subseteq Natives /\ package[k].sets \subseteq Versions
  BY <1>1 DEF PackageRecord
<1>3. \A n \in Natives : [NoApply EXCEPT !.of = k, !.at = "read", !.native = n] \in ApplyRecord
  BY GraduationBlanks DEF ApplyRecord
<1>4. \A v \in Versions :
         [NoApply EXCEPT !.of = k, !.at = "read", !.head = _resolve_head(v)] \in ApplyRecord
  <2>1. \A h \in 0..MaxVersions :
           [NoApply EXCEPT !.of = k, !.at = "read", !.head = h] \in ApplyRecord
    BY GraduationBlanks DEF ApplyRecord
  <2>2. \A v \in Versions : _resolve_head(v) \in 0..MaxVersions
    BY <1>1, HeadIsRow, GraduationBounds
  <2>3. QED
    BY <2>1, <2>2
<1>5. [NoApply EXCEPT !.of = k, !.at = "committed"] \in ApplyRecord
  BY GraduationBlanks DEF ApplyRecord
<1>6. \E op \in ApplyRecord : applying' = [applying EXCEPT ![a] = op]
  BY <1>2, <1>3, <1>4, <1>5 DEF ApplyReads
<1>7. applying' \in [Appliers -> ApplyRecord]
  BY <1>1, <1>6
<1>8. QED
  BY <1>7, HillviewMoves, GraduationTypedIs DEF ApplyReads, hillview, workbench, HillviewTyped

LEMMA ApplyingIsTyped ==
    ASSUME GraduationTypeOK, NEW a \in Appliers, ApplyCommits(a) PROVE GraduationTypeOK'
<1> DEFINE op == applying[a]
           new == versions + 1
<1>1. HillviewTyped /\ applying \in [Appliers -> ApplyRecord] /\ op \in ApplyRecord
  BY GraduationTypedIs
<1>2. new \in Versions /\ versions' \in 0..MaxVersions
  BY <1>1, NextVersion DEF ApplyCommits
<1>3. applying' \in [Appliers -> ApplyRecord]
  <2>1. [NoApply EXCEPT !.of = op.of, !.at = "committed"] \in ApplyRecord
    BY <1>1, GraduationBlanks DEF ApplyRecord
  <2>2. applying' = [applying EXCEPT ![a] = [NoApply EXCEPT !.of = op.of, !.at = "committed"]]
    BY DEF ApplyCommits
  <2>3. QED
    BY <1>1, <2>1, <2>2
<1>4. CASE op.native # NoNative /\ versions' = new
           /\ version' = [version EXCEPT ![new] =
                 [NotThere EXCEPT !.there = TRUE, !.current = TRUE, !.suggested = TRUE,
                                  !.source = op.native, !.of = op.native]]
           /\ unlinked' \subseteq unlinked \cup {op.native}
  <2>1. op.native \in Natives
    BY <1>1, <1>4 DEF ApplyRecord
  <2>2. [NotThere EXCEPT !.there = TRUE, !.current = TRUE, !.suggested = TRUE,
                         !.source = op.native, !.of = op.native] \in Row
    BY <2>1, GraduationBlanks DEF Row
  <2>3. HillviewTyped'
    BY <1>1, <1>2, <1>4, <2>1, <2>2 DEF HillviewTyped
  <2>4. QED
    BY <1>3, <2>3, HillviewMoves DEF ApplyCommits, workbench
<1>5. CASE op.head # NoVersion
           /\ version' = [version EXCEPT ![op.head] = Superseded(op.head, new),
                                         ![new] = Superseding(op.head, "updated", TRUE)]
           /\ unlinked' = unlinked \cup Lost(op.head)
  <2> DEFINE x == Superseded(op.head, new)
             y == Superseding(op.head, "updated", TRUE)
  <2>1. op.head \in Versions
    BY <1>1, <1>5, GraduationBounds DEF ApplyRecord, Versions, NoVersion
  <2>2. version[op.head] \in Row /\ NotThere \in Row /\ new \in 0..MaxVersions
    BY <1>1, <1>2, <2>1, GraduationBlanks, GraduationBounds DEF HillviewTyped
  <2>3. x \in Row
    BY <2>2 DEF Superseded, Row
  <2>4. y \in Row /\ Lost(op.head) \subseteq Natives
    BY <2>2 DEF Superseding, Lost, Row
  <2>5. version' = [version EXCEPT ![op.head] = x, ![new] = y]
    BY <1>5
  <2> HIDE DEF x, y
  <2>6. version' \in [Versions -> Row] /\ unlinked' \subseteq Natives
    BY <1>1, <1>5, <2>3, <2>4, <2>5 DEF HillviewTyped
  <2>7. HillviewTyped'
    BY <1>2, <2>6 DEF HillviewTyped
  <2>8. QED
    BY <1>3, <2>7, HillviewMoves DEF ApplyCommits, workbench
<1>6. QED
  BY <1>4, <1>5 DEF ApplyCommits

LEMMA ArchivingIsTyped ==
    ASSUME GraduationTypeOK, NEW a \in Appliers, ApplyFails(a) \/ ApplyArchives(a)
    PROVE  GraduationTypeOK'
<1>1. applying' \in [Appliers -> ApplyRecord]
  BY GraduationTypedIs, GraduationBlanks DEF ApplyFails, ApplyArchives
<1>2. package' \in [Packages -> PackageRecord]
  <2>1. package \in [Packages -> PackageRecord]
    BY GraduationTypedIs
  <2>2. \A k \in Packages : [package[k] EXCEPT !.at = "applied"] \in PackageRecord
    BY <2>1 DEF PackageRecord
  <2>3. \A k : [package EXCEPT ![k].at = "applied"] \in [Packages -> PackageRecord]
    BY <2>1, <2>2
  <2>4. QED
    BY <2>1, <2>3 DEF ApplyFails, ApplyArchives
<1>3. QED
  BY <1>1, <1>2 DEF ApplyFails, ApplyArchives, hillview, workbench, GraduationTypeOK, ApplyRecord,
     PackageRecord

LEMMA SyncIsTyped ==
    ASSUME GraduationTypeOK, SyncReads \/ SyncWrites \/ SyncStamps \/ SyncFails
    PROVE  GraduationTypeOK'
<1>1. /\ sync \in SyncRecord /\ mirror \in [Versions -> MirrorRow] /\ dump \in [Versions -> Row]
      /\ native \in [Natives -> {"live", "retired"}]
  BY GraduationTypedIs
<1>2. ASSUME SyncReads \/ SyncFails PROVE sync' \in SyncRecord /\ UNCHANGED <<mirror, native>>
  <2>1. {v \in InDump : Changed(v)} \subseteq Versions
        /\ {v \in InDump : mirror[v].missing /\ ~ Changed(v)} \subseteq Versions
    BY DEF InDump
  <2>2. [at |-> "read", quiet |-> TRUE,
         changed |-> {v \in InDump : Changed(v)},
         missing |-> {v \in Versions \ InDump : Mirrored(v) /\ ~ mirror[v].missing},
         reappeared |-> {v \in InDump : mirror[v].missing /\ ~ Changed(v)}] \in SyncRecord
    BY <2>1 DEF SyncRecord
  <2>3. QED
    BY <1>2, <2>2, GraduationBlanks DEF SyncReads, SyncFails
<1>3. ASSUME SyncWrites
      PROVE  sync' \in SyncRecord /\ mirror' \in [Versions -> MirrorRow] /\ native' = native
  <2>1. \A v \in Versions : [has |-> TRUE, row |-> dump[v], missing |-> FALSE] \in MirrorRow
    BY <1>1 DEF MirrorRow
  <2>2. [sync EXCEPT !.at = "written"] \in SyncRecord
    BY <1>1 DEF SyncRecord
  <2>3. QED
    BY <1>1, <1>3, <2>1, <2>2 DEF SyncWrites
<1>4. ASSUME SyncStamps
      PROVE  sync' \in SyncRecord /\ mirror' \in [Versions -> MirrorRow]
             /\ native' \in [Natives -> {"live", "retired"}]
  <2>1. \A v \in Versions, yes \in BOOLEAN : [mirror[v] EXCEPT !.missing = yes] \in MirrorRow
    BY <1>1 DEF MirrorRow
  <2>2. mirror' \in [Versions -> MirrorRow]
    BY <1>1, <1>4, <2>1 DEF SyncStamps
  <2>3. QED
    BY <1>1, <1>4, <2>2, GraduationBlanks DEF SyncStamps
<1>5. sync' \in SyncRecord /\ mirror' \in [Versions -> MirrorRow]
      /\ native' \in [Natives -> {"live", "retired"}]
  BY <1>1, <1>2, <1>3, <1>4
<1>6. UNCHANGED <<version, versions, unlinked, dump, package, applying>>
  BY DEF SyncReads, SyncWrites, SyncStamps, SyncFails, hillview, transport
<1>7. QED
  BY <1>5, <1>6 DEF GraduationTypeOK, SyncRecord, MirrorRow

LEMMA GraduationTypedKept ==
    GraduationTypeOK /\ [GraduationNext]_graduationVars => GraduationTypeOK'
<1> SUFFICES ASSUME GraduationTypeOK, [GraduationNext]_graduationVars PROVE GraduationTypeOK'
  OBVIOUS
<1>1. CASE UNCHANGED graduationVars
  BY <1>1 DEF graduationVars, GraduationTypeOK
<1>2. QED
  BY <1>1, EditingIsTyped, PackagesAreTyped, ReadingIsTyped, ApplyingIsTyped, ArchivingIsTyped,
     SyncIsTyped DEF GraduationNext

-----------------------------------------------------------------------------
(* Photo files                                                             *)

EntryRecord == [status : {"authorized", "completed", "error"}, auth : 1..MaxAuth,
                deleted : BOOLEAN]

FileRecord == [auth : 0..MaxAuth, whole : BOOLEAN]

RenderingRecords == [at : {"idle", "dzi", "tile", "done", "over"}, auth : 0..MaxAuth,
                     base : Pools \cup {NoPool}]

PostFits(j) == post[j] # NoPost => post[j].part = rendering[j].at

LEMMA FilesTypedIs ==
    FilesTypeOK <=>
        /\ entry \in EntryRecord /\ url \in Pools \cup {NoPool} /\ pool \in Pools
        /\ switched \in BOOLEAN /\ disk \in [Parts \X Pools -> FileRecord]
        /\ rendering \in [Renderings -> RenderingRecords]
        /\ post \in [Renderings -> Posts] /\ adrift \in Posts /\ stray \in BOOLEAN
        /\ \A j \in Renderings : PostFits(j)
  BY DEF FilesTypeOK, EntryRecord, FileRecord, RenderingRecords, PostFits

LEMMA FilesBounds ==
    /\ MaxAuth \in Nat /\ 0 \in 0..MaxAuth /\ 1..MaxAuth \subseteq 0..MaxAuth /\ 1 \in 1..MaxAuth
    /\ NoPost \in Posts /\ IdleRendering \in RenderingRecords /\ NoFile \in FileRecord
<1>1. MaxAuth \in Nat \ {0}
  BY FilesAssumption
<1>2. 0 \in 0..MaxAuth /\ 1..MaxAuth \subseteq 0..MaxAuth /\ 1 \in 1..MaxAuth
  BY <1>1
<1>3. NoPost \in Posts
  BY <1>2 DEF NoPost, Posts, Parts
<1>4. IdleRendering \in RenderingRecords /\ NoFile \in FileRecord
  BY <1>2 DEF IdleRendering, RenderingRecords, NoFile, FileRecord
<1>5. QED
  BY <1>1, <1>2, <1>3, <1>4

LEMMA FilesTypedBegins == FilesInit => FilesTypeOK
<1> SUFFICES ASSUME FilesInit PROVE FilesTypeOK
  OBVIOUS
<1>1. entry \in EntryRecord
  BY FilesBounds DEF FilesInit, EntryRecord
<1>2. \A j \in Renderings : PostFits(j)
  BY DEF FilesInit, PostFits
<1>3. QED
  BY <1>1, <1>2, FilesBounds, FilesTypedIs DEF FilesInit

\* What a step leaves is typed if each variable is.
LEMMA FilesAre ==
    ASSUME /\ entry' \in EntryRecord /\ url' \in Pools \cup {NoPool} /\ pool' \in Pools
           /\ switched' \in BOOLEAN /\ disk' \in [Parts \X Pools -> FileRecord]
           /\ rendering' \in [Renderings -> RenderingRecords]
           /\ post' \in [Renderings -> Posts] /\ adrift' \in Posts /\ stray' \in BOOLEAN
           /\ \A j \in Renderings : PostFits(j)'
    PROVE  FilesTypeOK'
  BY DEF FilesTypeOK, EntryRecord, FileRecord, RenderingRecords, PostFits

LEMMA RowsOfFilesAreTyped ==
    ASSUME FilesTypeOK, Authorize \/ DeleteFiles \/ PoolSwitched PROVE FilesTypeOK'
<1>1. /\ entry \in EntryRecord /\ url \in Pools \cup {NoPool} /\ pool \in Pools
      /\ switched \in BOOLEAN /\ disk \in [Parts \X Pools -> FileRecord]
  BY FilesTypedIs
<1>2. entry' \in EntryRecord
  <2>1. CASE Authorize
    <3>1. entry.auth + 1 \in 1..MaxAuth
      BY <1>1, <2>1, FilesBounds DEF Authorize, EntryRecord
    <3>2. QED
      BY <2>1, <3>1 DEF Authorize, EntryRecord
  <2>2. CASE DeleteFiles \/ PoolSwitched
    BY <1>1, <2>2 DEF DeleteFiles, PoolSwitched, EntryRecord
  <2>3. QED
    BY <2>1, <2>2
<1>3. disk' \in [Parts \X Pools -> FileRecord]
  BY <1>1, FilesBounds DEF Authorize, DeleteFiles, PoolSwitched
<1>4. url' \in Pools \cup {NoPool} /\ pool' \in Pools /\ switched' \in BOOLEAN
  BY <1>1 DEF Authorize, DeleteFiles, PoolSwitched
<1>5. UNCHANGED <<rendering, post, adrift, stray>>
  BY DEF Authorize, DeleteFiles, PoolSwitched
<1>6. QED
  BY <1>2, <1>3, <1>4, <1>5, FilesAre, FilesTypedIs DEF PostFits

LEMMA OverIsTyped ==
    ASSUME FilesTypeOK, NEW j \in Renderings PROVE Over(j) \in RenderingRecords
<1>1. rendering[j] \in RenderingRecords
  BY FilesTypedIs
<1>2. QED
  BY <1>1, FilesBounds DEF Over, RenderingRecords

\* A job that awaits no post moves, and the others stay.
LEMMA JobsAreTyped ==
    ASSUME FilesTypeOK, NEW j \in Renderings,
           Starts(j) \/ ReportError(j) \/ ReportDone(j) \/ PostRefused(j)
    PROVE  FilesTypeOK'
<1>1. /\ entry \in EntryRecord /\ url \in Pools \cup {NoPool} /\ post[j] \in Posts
      /\ rendering \in [Renderings -> RenderingRecords] /\ rendering[j] \in RenderingRecords
      /\ \A k \in Renderings : PostFits(k)
  BY FilesTypedIs
<1>2. PICK x \in RenderingRecords : rendering' = [rendering EXCEPT ![j] = x]
  <2>1. CASE Starts(j)
    <3>1. [rendering[j] EXCEPT !.at = "dzi", !.auth = entry.auth] \in RenderingRecords
      BY <1>1, FilesBounds DEF RenderingRecords, EntryRecord
    <3>2. rendering' = [rendering EXCEPT ![j] = [rendering[j] EXCEPT !.at = "dzi", !.auth = entry.auth]]
      BY <1>1, <2>1 DEF Starts, RenderingRecords
    <3>3. QED
      BY <3>1, <3>2
  <2>2. CASE ReportError(j) \/ ReportDone(j) \/ PostRefused(j)
    BY <2>2, OverIsTyped DEF ReportError, ReportDone, PostRefused
  <2>3. QED
    BY <2>1, <2>2
<1>3. post[j] = NoPost
  BY <1>1 DEF Starts, ReportError, ReportDone, PostRefused, Waits, PostFits, Posts, Parts
<1>4. entry' \in EntryRecord
  BY <1>1 DEF Starts, ReportError, ReportDone, PostRefused, EntryRecord
<1>5. url' \in Pools \cup {NoPool}
  BY <1>1 DEF Starts, ReportError, ReportDone, PostRefused, RenderingRecords
<1>6. UNCHANGED <<pool, switched, disk, post, adrift, stray>>
  BY DEF Starts, ReportError, ReportDone, PostRefused
<1>7. \A k \in Renderings : PostFits(k)'
  BY <1>1, <1>2, <1>3, <1>6 DEF PostFits
<1>8. QED
  BY <1>1, <1>2, <1>4, <1>5, <1>6, <1>7, FilesAre, FilesTypedIs

\* A job's post is over, and the job may have moved with it.
LEMMA PostEnds ==
    ASSUME FilesTypeOK, NEW j \in Renderings, post' = [post EXCEPT ![j] = NoPost],
           NEW x \in RenderingRecords, rendering' \in {rendering, [rendering EXCEPT ![j] = x]},
           disk' \in [Parts \X Pools -> FileRecord], adrift' \in Posts,
           UNCHANGED <<entry, url, pool, switched, stray>>
    PROVE  FilesTypeOK'
<1>1. /\ post \in [Renderings -> Posts] /\ rendering \in [Renderings -> RenderingRecords]
      /\ \A k \in Renderings : PostFits(k)
  BY FilesTypedIs
<1>2. post' \in [Renderings -> Posts] /\ rendering' \in [Renderings -> RenderingRecords]
  BY <1>1, FilesBounds
<1>3. \A k \in Renderings : PostFits(k)'
  BY <1>1 DEF PostFits
<1>4. QED
  BY <1>2, <1>3, FilesAre, FilesTypedIs

LEMMA DisksAreTyped ==
    ASSUME FilesTypeOK, NEW r \in Posts
    PROVE  /\ Whole(r) \/ Torn(r) => disk' \in [Parts \X Pools -> FileRecord]
           /\ PathOpens(r) => disk' \in [Parts \X Pools -> FileRecord] /\ stray' \in BOOLEAN
<1>1. disk \in [Parts \X Pools -> FileRecord] /\ pool \in Pools /\ stray \in BOOLEAN
  BY FilesTypedIs
<1>2. r.auth \in 0..MaxAuth
  BY DEF Posts
<1>3. ASSUME Whole(r) PROVE disk' \in [Parts \X Pools -> FileRecord]
  <2>1. \A f \in Parts \X Pools, yes \in BOOLEAN : [disk[f] EXCEPT !.whole = yes] \in FileRecord
    BY <1>1 DEF FileRecord
  <2>2. \A f : \A yes \in BOOLEAN : [disk EXCEPT ![f].whole = yes] \in [Parts \X Pools -> FileRecord]
    BY <1>1, <2>1
  <2> DEFINE yes == disk[<<r.part, r.pool>>] # NoFile
  <2>3. yes \in BOOLEAN
    OBVIOUS
  <2>4. disk' = [disk EXCEPT ![<<r.part, r.pool>>].whole = yes]
    BY <1>3 DEF Whole
  <2> HIDE DEF yes
  <2>5. QED
    BY <2>2, <2>3, <2>4
<1>4. ASSUME Torn(r) PROVE disk' \in [Parts \X Pools -> FileRecord]
  BY <1>1, <1>4, FilesBounds DEF Torn
<1>5. ASSUME PathOpens(r) PROVE disk' \in [Parts \X Pools -> FileRecord] /\ stray' \in BOOLEAN
  <2>1. [auth |-> r.auth, whole |-> FALSE] \in FileRecord
    BY <1>2 DEF FileRecord
  <2>2. QED
    BY <1>1, <1>5, <2>1 DEF PathOpens
<1>6. QED
  BY <1>3, <1>4, <1>5

LEMMA PostsAreTyped ==
    ASSUME FilesTypeOK, NEW j \in Renderings,
           GivesUp(j) \/ PostChecked(j) \/ PostOpens(j) \/ BodyStreams(j) \/ BodyBreaks(j)
    PROVE  FilesTypeOK'
<1>1. /\ entry \in EntryRecord /\ url \in Pools \cup {NoPool} /\ pool \in Pools
      /\ post \in [Renderings -> Posts] /\ post[j] \in Posts
      /\ rendering \in [Renderings -> RenderingRecords] /\ rendering[j] \in RenderingRecords
      /\ disk \in [Parts \X Pools -> FileRecord] /\ adrift \in Posts
      /\ \A k \in Renderings : PostFits(k)
  BY FilesTypedIs
<1>2. CASE GivesUp(j)
  <2>1. rendering' \in {rendering, [rendering EXCEPT ![j] = Over(j)]}
    BY <1>2 DEF GivesUp, Tried
  <2>2. QED
    BY <1>1, <1>2, <2>1, OverIsTyped, PostEnds DEF GivesUp
<1>3. CASE PostChecked(j)
  <2> DEFINE x == [post[j] EXCEPT !.at = "checked", !.part = rendering[j].at,
                                  !.auth = rendering[j].auth]
  <2>1. x \in Posts /\ x.part = rendering[j].at
    BY <1>1, <1>3 DEF PostChecked, Posts, RenderingRecords
  <2>2. post' = [post EXCEPT ![j] = x]
    BY <1>3 DEF PostChecked
  <2> HIDE DEF x
  <2>3. UNCHANGED <<entry, url, pool, switched, disk, rendering, adrift, stray>>
    BY <1>3 DEF PostChecked
  <2>4. \A k \in Renderings : PostFits(k)'
    BY <1>1, <2>1, <2>2, <2>3 DEF PostFits
  <2>5. QED
    BY <1>1, <2>1, <2>2, <2>3, <2>4, FilesAre, FilesTypedIs
<1>4. CASE PostOpens(j)
  <2> DEFINE x == [post[j] EXCEPT !.at = "open", !.pool = pool]
  <2>1. x \in Posts /\ x.part = post[j].part
    BY <1>1 DEF Posts
  <2>2. post' = [post EXCEPT ![j] = x]
    BY <1>4 DEF PostOpens
  <2> HIDE DEF x
  <2>3. UNCHANGED <<entry, url, pool, switched, rendering, adrift>>
    BY <1>4 DEF PostOpens, PathOpens
  <2>4. post[j] # NoPost
    BY <1>4 DEF PostOpens, PathOpens, NoPost
  <2>5. \A k \in Renderings : PostFits(k)'
    BY <1>1, <2>1, <2>2, <2>3, <2>4 DEF PostFits
  <2>6. disk' \in [Parts \X Pools -> FileRecord] /\ stray' \in BOOLEAN
    BY <1>1, <1>4, DisksAreTyped DEF PostOpens
  <2>7. QED
    BY <1>1, <2>1, <2>2, <2>3, <2>5, <2>6, FilesAre, FilesTypedIs
<1>5. CASE BodyStreams(j)
  <2>1. PICK x \in RenderingRecords : rendering' = [rendering EXCEPT ![j] = x]
    <3>1. [rendering[j] EXCEPT !.at = "tile", !.base = post[j].pool] \in RenderingRecords
      BY <1>1 DEF RenderingRecords, Posts
    <3>2. [rendering[j] EXCEPT !.at = "done"] \in RenderingRecords
      BY <1>1 DEF RenderingRecords
    <3>3. QED
      BY <1>5, <3>1, <3>2, OverIsTyped DEF BodyStreams, Uploaded
  <2>2. disk' \in [Parts \X Pools -> FileRecord]
    BY <1>1, <1>5, DisksAreTyped DEF BodyStreams
  <2>3. QED
    BY <1>1, <1>5, <2>1, <2>2, PostEnds DEF BodyStreams
<1>6. CASE BodyBreaks(j)
  <2>1. rendering' \in {rendering, [rendering EXCEPT ![j] = Over(j)]}
    BY <1>6 DEF BodyBreaks, Tried
  <2>2. disk' \in [Parts \X Pools -> FileRecord]
    BY <1>1, <1>6, DisksAreTyped DEF BodyBreaks
  <2>3. QED
    BY <1>1, <1>6, <2>1, <2>2, OverIsTyped, PostEnds DEF BodyBreaks
<1>7. QED
  BY <1>2, <1>3, <1>4, <1>5, <1>6

LEMMA AdriftIsTyped ==
    ASSUME FilesTypeOK, AdriftEnds \/ AdriftOpens \/ AdriftCloses PROVE FilesTypeOK'
<1>1. adrift \in Posts /\ pool \in Pools
  BY FilesTypedIs
<1>2. [adrift EXCEPT !.at = "open", !.pool = pool] \in Posts
  BY <1>1 DEF Posts
<1>3. adrift' \in Posts
  BY <1>2, FilesBounds DEF AdriftEnds, AdriftOpens, AdriftCloses
<1>4. disk' \in [Parts \X Pools -> FileRecord] /\ stray' \in BOOLEAN
  BY <1>1, DisksAreTyped, FilesTypedIs DEF AdriftEnds, AdriftOpens, AdriftCloses
<1>5. UNCHANGED <<entry, url, pool, switched, rendering, post>>
  BY DEF AdriftEnds, AdriftOpens, AdriftCloses, PathOpens
<1>6. QED
  BY <1>3, <1>4, <1>5, FilesAre, FilesTypedIs DEF PostFits

LEMMA FilesTypedKept == FilesTypeOK /\ [FilesNext]_fileVars => FilesTypeOK'
<1> SUFFICES ASSUME FilesTypeOK, [FilesNext]_fileVars PROVE FilesTypeOK'
  OBVIOUS
<1>1. CASE UNCHANGED fileVars
  BY <1>1 DEF fileVars, FilesTypeOK
<1>2. QED
  BY <1>1, RowsOfFilesAreTyped, JobsAreTyped, PostsAreTyped, AdriftIsTyped DEF FilesNext


-----------------------------------------------------------------------------
(* The stamp refiner. *)

TakenRecord == [status : {"pending", "uploading", "processing", "completed", "failed"},
                stamp : Stamps, hold : 0..(BracketTimeout + 1), deleted : BOOLEAN]
RefinerRecord == [at : {"waiting", "write", "release", "over"}, left : 0..2,
                  deadline : 0..(MaxTime + BracketTimeout), found : BOOLEAN]
StampUploader == [at : {"idle", "read", "marked"}, stamp : Stamps,
                  prior : {"pending", "uploading", "failed"}]

LEMMA StampTypedIs ==
    StampTypeOK <=> /\ clock \in 0..MaxTime /\ taken \in TakenRecord
                    /\ refiner \in RefinerRecord /\ brackets \in 0..2
                    /\ uploader \in StampUploader /\ sent \in Stamps \cup {"none"}
                    /\ overlap \in BOOLEAN
  BY DEF StampTypeOK, TakenRecord, RefinerRecord, StampUploader

\* What a step leaves is typed if each variable is.
LEMMA StampIsTyped ==
    ASSUME /\ clock' \in 0..MaxTime /\ taken' \in TakenRecord
           /\ refiner' \in RefinerRecord /\ brackets' \in 0..2
           /\ uploader' \in StampUploader /\ sent' \in Stamps \cup {"none"}
           /\ overlap' \in BOOLEAN
    PROVE  StampTypeOK'
  BY DEF StampTypeOK, TakenRecord, RefinerRecord, StampUploader

LEMMA StampTypedBegins == StampInit => StampTypeOK
<1> SUFFICES ASSUME StampInit PROVE StampTypeOK
  OBVIOUS
<1>1. 0 \in 0..MaxTime /\ UploadHold \in 0..(BracketTimeout + 1)
      /\ BracketTimeout \in 0..(MaxTime + BracketTimeout)
  BY StampAssumption DEF UploadHold
<1>2. brackets \in 0..2
  BY DEF StampInit
<1>3. taken \in TakenRecord
  BY <1>1 DEF StampInit, TakenRecord, Stamps
<1>4. refiner \in RefinerRecord
  BY <1>1, <1>2 DEF StampInit, RefinerRecord
<1>5. uploader \in StampUploader
  BY DEF StampInit, StampUploader, Stamps
<1>6. QED
  BY <1>1, <1>2, <1>3, <1>4, <1>5, StampTypedIs DEF StampInit

LEMMA RefinerIsTyped ==
    ASSUME StampTypeOK, NEW found \in BOOLEAN,
           ClockTicks \/ ApplyRefinedStamp \/ ClearUploadHold \/ Await(found) \/ Refined(found)
    PROVE  StampTypeOK'
<1>1. /\ clock \in 0..MaxTime /\ taken \in TakenRecord /\ refiner \in RefinerRecord
      /\ brackets \in 0..2 /\ uploader \in StampUploader /\ sent \in Stamps \cup {"none"}
      /\ overlap \in BOOLEAN
  BY StampTypedIs
<1>2. clock' \in 0..MaxTime
  <2>1. CASE ClockTicks
    BY <2>1, <1>1, StampAssumption DEF ClockTicks
  <2>2. QED
    BY <2>1, <1>1 DEF ApplyRefinedStamp, ClearUploadHold, Await, Refined
<1>3. taken' \in TakenRecord
  <2>1. [taken EXCEPT !.stamp = "refined"] \in TakenRecord
    BY <1>1 DEF TakenRecord, Stamps
  <2>2. [taken EXCEPT !.hold = 0] \in TakenRecord
    BY <1>1, StampAssumption DEF TakenRecord
  <2>3. QED
    BY <1>1, <2>1, <2>2 DEF ClockTicks, ApplyRefinedStamp, ClearUploadHold, Await, Refined
<1>4. refiner' \in RefinerRecord
  <2>1. CASE Await(found)
    <3>1. clock + BracketTimeout \in 0..(MaxTime + BracketTimeout)
      BY <1>1, StampAssumption
    <3>2. refiner.left - 1 \in 0..2
      BY <1>1, <2>1 DEF Await, RefinerRecord
    <3>3. (refiner.found \/ found) \in BOOLEAN
      OBVIOUS
    <3> DEFINE seen == refiner.found \/ found
               r == [refiner EXCEPT !.left = refiner.left - 1,
                                    !.deadline = clock + BracketTimeout, !.found = seen]
    <3> HIDE DEF seen
    <3>4. r \in RefinerRecord
      BY <1>1, <3>1, <3>2, <3>3 DEF RefinerRecord, seen
    <3>5. refiner' = r
      BY <2>1 DEF Await, seen
    <3>6. QED
      BY <3>4, <3>5
  <2>2. \A s \in {"write", "release", "over"} : [refiner EXCEPT !.at = s] \in RefinerRecord
    BY <1>1 DEF RefinerRecord
  <2>3. QED
    BY <1>1, <2>1, <2>2 DEF ClockTicks, ApplyRefinedStamp, ClearUploadHold, Refined
<1>5. overlap' \in BOOLEAN
  <2>1. CASE ApplyRefinedStamp
    BY <2>1 DEF ApplyRefinedStamp
  <2>2. QED
    BY <2>1, <1>1 DEF ClockTicks, ClearUploadHold, Await, Refined
<1>6. UNCHANGED <<brackets, uploader, sent>>
  BY DEF ClockTicks, ApplyRefinedStamp, ClearUploadHold, Await, Refined
<1>7. QED
  BY <1>1, <1>2, <1>3, <1>4, <1>5, <1>6, StampIsTyped

LEMMA StampDrainIsTyped ==
    ASSUME StampTypeOK,
           \/ ReadNext \/ PassOver \/ MarkUploading \/ Accepted \/ Duplicate \/ Fails \/ Restores
           \/ StatusSynced \/ Discard \/ AppDies
    PROVE  StampTypeOK'
<1>1. /\ clock \in 0..MaxTime /\ taken \in TakenRecord /\ refiner \in RefinerRecord
      /\ brackets \in 0..2 /\ uploader \in StampUploader /\ sent \in Stamps \cup {"none"}
      /\ overlap \in BOOLEAN
  BY StampTypedIs
<1>2. uploader.stamp \in Stamps /\ uploader.prior \in {"pending", "uploading", "failed"}
      /\ taken.stamp \in Stamps
  BY <1>1 DEF StampUploader, TakenRecord
<1>3. \A s \in {"idle", "read", "marked"} : [uploader EXCEPT !.at = s] \in StampUploader
  BY <1>1 DEF StampUploader
<1>4. \A s \in {"pending", "uploading", "processing", "completed", "failed"} :
          [taken EXCEPT !.status = s] \in TakenRecord
  BY <1>1 DEF TakenRecord
<1>5. uploader' \in StampUploader
  <2>1. CASE ReadNext
    <3>1. taken.status \in {"pending", "uploading", "failed"}
      BY <2>1 DEF ReadNext, Due
    <3>2. [at |-> "read", stamp |-> taken.stamp, prior |-> taken.status] \in StampUploader
      BY <1>2, <3>1 DEF StampUploader
    <3>3. QED
      BY <2>1, <3>2 DEF ReadNext
  <2>2. QED
    BY <1>1, <1>3, <2>1
    DEF PassOver, MarkUploading, Accepted, Duplicate, Fails, Restores, Outcome, StatusSynced,
        Discard, AppDies
<1>6. taken' \in TakenRecord
  <2>1. [taken EXCEPT !.deleted = TRUE] \in TakenRecord
    BY <1>1 DEF TakenRecord
  <2>2. QED
    BY <1>1, <1>2, <1>4, <2>1
    DEF ReadNext, PassOver, MarkUploading, Accepted, Duplicate, Fails, Restores, Outcome,
        StatusSynced, Discard, AppDies
<1>7. refiner' \in RefinerRecord
  <2>1. [refiner EXCEPT !.at = "over"] \in RefinerRecord
    BY <1>1 DEF RefinerRecord
  <2>2. QED
    BY <1>1, <2>1
    DEF ReadNext, PassOver, MarkUploading, Accepted, Duplicate, Fails, Restores, Outcome,
        StatusSynced, Discard, AppDies
<1>8. sent' \in Stamps \cup {"none"}
  BY <1>1, <1>2
  DEF ReadNext, PassOver, MarkUploading, Accepted, Duplicate, Fails, Restores, Outcome,
      StatusSynced, Discard, AppDies
<1>9. UNCHANGED <<clock, brackets, overlap>>
  BY DEF ReadNext, PassOver, MarkUploading, Accepted, Duplicate, Fails, Restores, Outcome,
         StatusSynced, Discard, AppDies
<1>10. QED
  BY <1>1, <1>5, <1>6, <1>7, <1>8, <1>9, StampIsTyped

LEMMA StampTypedKept == StampTypeOK /\ [StampNext]_stampVars => StampTypeOK'
<1> SUFFICES ASSUME StampTypeOK, [StampNext]_stampVars PROVE StampTypeOK'
  OBVIOUS
<1>1. CASE UNCHANGED stampVars
  BY <1>1 DEF stampVars, StampTypeOK
<1>2. CASE StampNext
  BY <1>2, RefinerIsTyped, StampDrainIsTyped DEF StampNext
<1>3. QED
  BY <1>1, <1>2

-----------------------------------------------------------------------------
(* The transfers of annotations.  What is said to depict something is a    *)
(* point of interest that has been found or made.                          *)

TransferRecord == [status : {"open", "accepted"}, clone : Clones \cup {Unmade}]
MadeRecord == [clones : 0..MaxClones, pois : 0..MaxClones]
AcceptRecord == [at : {"idle", "read", "cloned", "found", "minting", "minted", "related"},
                 target : Targets, id : Clones \cup {Unmade}, poi : Clones \cup {Unmade}]

KnowsPoi(x) == x.at \in {"found", "minting", "minted", "related"} => x.poi \in Clones

TransfersTyped == TransfersTypeOK /\ \A a \in Accepts : KnowsPoi(accept[a])

LEMMA TransfersTypedIs ==
    TransfersTyped <=>
        /\ transfer \in [Targets -> TransferRecord] /\ clone \subseteq Clones
        /\ made \in MadeRecord /\ depicts \subseteq (Clones \cup {Donor}) \X Clones
        /\ accept \in [Accepts -> AcceptRecord] /\ twins \in BOOLEAN
        /\ \A a \in Accepts : KnowsPoi(accept[a])
  BY DEF TransfersTyped, TransfersTypeOK, TransferRecord, MadeRecord, AcceptRecord

\* What a step leaves is typed if each variable is.
LEMMA TransfersAre ==
    ASSUME /\ transfer' \in [Targets -> TransferRecord] /\ clone' \subseteq Clones
           /\ made' \in MadeRecord /\ depicts' \subseteq (Clones \cup {Donor}) \X Clones
           /\ accept' \in [Accepts -> AcceptRecord] /\ twins' \in BOOLEAN
           /\ \A a \in Accepts : KnowsPoi(accept'[a])
    PROVE  TransfersTyped'
  BY DEF TransfersTyped, TransfersTypeOK, TransferRecord, MadeRecord, AcceptRecord, KnowsPoi

LEMMA IdleAcceptIs == IdleAccept \in AcceptRecord /\ KnowsPoi(IdleAccept) /\ Unmade \in 0..MaxClones
                      /\ IdleAccept.at = "idle"
<1>1. PICK t : t = CHOOSE y \in Targets : TRUE
  OBVIOUS
<1>2. t \in Targets
  BY <1>1, TransferAssumption
<1>3. IdleAccept = [at |-> "idle", target |-> t, id |-> Unmade, poi |-> Unmade]
  BY <1>1 DEF IdleAccept
<1>4. [at |-> "idle", target |-> t, id |-> Unmade, poi |-> Unmade] \in AcceptRecord
  BY <1>2 DEF AcceptRecord
<1>5. QED
  BY <1>3, <1>4, TransferAssumption DEF KnowsPoi, Unmade

LEMMA TransfersTypedBegins == TransfersInit => TransfersTyped
<1> SUFFICES ASSUME TransfersInit PROVE TransfersTyped
  OBVIOUS
<1>1. [status |-> "open", clone |-> Unmade] \in TransferRecord
  BY DEF TransferRecord
<1>2. [clones |-> 0, pois |-> 0] \in MadeRecord
  BY TransferAssumption DEF MadeRecord
<1>3. QED
  BY <1>1, <1>2, IdleAcceptIs, TransfersTypedIs DEF TransfersInit

\* One request moves.
LEMMA OneAcceptMoves ==
    ASSUME TransfersTyped, NEW a \in Accepts, NEW x \in AcceptRecord, KnowsPoi(x),
           accept' = [accept EXCEPT ![a] = x],
           transfer' \in [Targets -> TransferRecord], clone' \subseteq Clones,
           made' \in MadeRecord, depicts' \subseteq (Clones \cup {Donor}) \X Clones,
           twins' \in BOOLEAN
    PROVE  TransfersTyped'
<1>1. accept \in [Accepts -> AcceptRecord] /\ \A b \in Accepts : KnowsPoi(accept[b])
  BY TransfersTypedIs
<1>2. accept' \in [Accepts -> AcceptRecord] /\ \A b \in Accepts : KnowsPoi(accept'[b])
  BY <1>1
<1>3. QED
  BY <1>2, TransfersAre

LEMMA AcceptIsTyped ==
    ASSUME TransfersTyped, NEW a \in Accepts,
           \/ \E t \in Targets : AcceptReads(a, t)
           \/ Cloned(a) \/ FindsPoi(a) \/ Relates(a) \/ MintsDonor(a) \/ MintsClone(a)
           \/ Concludes(a) \/ AcceptFails(a)
    PROVE  TransfersTyped'
<1>1. /\ transfer \in [Targets -> TransferRecord] /\ clone \subseteq Clones
      /\ made \in MadeRecord /\ depicts \subseteq (Clones \cup {Donor}) \X Clones
      /\ accept \in [Accepts -> AcceptRecord] /\ accept[a] \in AcceptRecord /\ twins \in BOOLEAN
      /\ KnowsPoi(accept[a])
  BY TransfersTypedIs
<1>2. accept[a].target \in Targets /\ accept[a].id \in Clones \cup {Unmade}
      /\ (Clones \cup {Unmade} = Clones \cup {Donor})
  BY <1>1 DEF AcceptRecord, Donor, Unmade
<1>3. \A s \in {"cloned", "related"} : [accept[a] EXCEPT !.at = s] \in AcceptRecord
      /\ [accept[a] EXCEPT !.at = s].poi = accept[a].poi
      /\ [accept[a] EXCEPT !.at = s].at = s
  BY <1>1 DEF AcceptRecord
<1>4. ASSUME NEW t \in Targets, AcceptReads(a, t) PROVE TransfersTyped'
  <2>1. transfer[t].clone \in Clones \cup {Unmade}
    BY <1>1 DEF TransferRecord
  <2> DEFINE x == [IdleAccept EXCEPT !.at = "read", !.target = t, !.id = transfer[t].clone]
  <2>2. x \in AcceptRecord /\ KnowsPoi(x)
    BY <2>1, IdleAcceptIs DEF AcceptRecord, KnowsPoi
  <2>3. accept' = [accept EXCEPT ![a] = x] /\ UNCHANGED <<transfer, clone, made, depicts, twins>>
    BY <1>4 DEF AcceptReads
  <2> HIDE DEF x
  <2>4. QED
    BY <1>1, <2>2, <2>3, OneAcceptMoves
<1>5. ASSUME Cloned(a) PROVE TransfersTyped'
  <2>1. accept[a].at = "read"
    BY <1>5 DEF Cloned
  <2>2. KnowsPoi([accept[a] EXCEPT !.at = "cloned"])
    BY <1>3 DEF KnowsPoi
  <2>3. CASE accept[a].id # Unmade
    <3>1. accept' = [accept EXCEPT ![a] = [accept[a] EXCEPT !.at = "cloned"]]
          /\ UNCHANGED <<transfer, clone, made, depicts, twins>>
      BY <1>1, <1>5, <2>3 DEF Cloned
    <3>2. QED
      BY <1>1, <1>3, <2>2, <3>1, OneAcceptMoves
  <2>4. CASE accept[a].id = Unmade
    <3>1. PICK new : new = made.clones + 1
      OBVIOUS
    <3> DEFINE x == [accept[a] EXCEPT !.at = "cloned", !.id = new]
    <3>2. /\ new \in Clones /\ clone' = clone \cup {new} /\ made' = [made EXCEPT !.clones = new]
          /\ accept' = [accept EXCEPT ![a] = x] /\ UNCHANGED <<transfer, depicts, twins>>
      BY <1>1, <1>5, <2>4, <3>1 DEF Cloned
    <3>3. x \in AcceptRecord /\ KnowsPoi(x)
      BY <1>1, <3>2 DEF AcceptRecord, KnowsPoi
    <3>4. made' \in MadeRecord
      BY <1>1, <3>2, TransferAssumption DEF MadeRecord, Clones
    <3> HIDE DEF x
    <3>5. QED
      BY <1>1, <3>2, <3>3, <3>4, OneAcceptMoves
  <2>5. QED
    BY <2>3, <2>4
<1>6. ASSUME FindsPoi(a) PROVE TransfersTyped'
  <2>1. \A p \in PoisKnown(a) : p \in Clones
    BY DEF PoisKnown, PoisOf
  <2>2. ASSUME NEW p \in Clones, NEW s \in {"found", "minting"}
        PROVE  [accept[a] EXCEPT !.at = s, !.poi = p] \in AcceptRecord
               /\ KnowsPoi([accept[a] EXCEPT !.at = s, !.poi = p])
    BY <1>1 DEF AcceptRecord, KnowsPoi
  <2>3. UNCHANGED <<transfer, clone, depicts, twins>>
    BY <1>6 DEF FindsPoi
  <2>4. ASSUME NEW p \in PoisKnown(a), UNCHANGED made,
               accept' = [accept EXCEPT ![a].at = "found", ![a].poi = p]
        PROVE  TransfersTyped'
    <3>1. accept' = [accept EXCEPT ![a] = [accept[a] EXCEPT !.at = "found", !.poi = p]]
      BY <1>1, <2>4
    <3>2. QED
      BY <1>1, <2>1, <2>2, <2>3, <2>4, <3>1, OneAcceptMoves
  <2>5. ASSUME made.pois < MaxClones, made' = [made EXCEPT !.pois = made.pois + 1],
               accept' = [accept EXCEPT ![a].at = "minting", ![a].poi = made.pois + 1]
        PROVE  TransfersTyped'
    <3>1. made.pois \in 0..MaxClones
      BY <1>1 DEF MadeRecord
    <3>2. made.pois + 1 \in Clones /\ made.pois + 1 \in 0..MaxClones
      BY <2>5, <3>1, TransferAssumption DEF Clones
    <3>3. made' \in MadeRecord
      BY <1>1, <2>5, <3>2 DEF MadeRecord
    <3>4. accept' = [accept EXCEPT ![a] = [accept[a] EXCEPT !.at = "minting", !.poi = made.pois + 1]]
      BY <1>1, <2>5
    <3>5. QED
      BY <1>1, <2>2, <2>3, <3>2, <3>3, <3>4, OneAcceptMoves
  <2>6. QED
    BY <1>6, <2>4, <2>5 DEF FindsPoi
<1>7. ASSUME Relates(a) \/ MintsDonor(a) \/ MintsClone(a) PROVE TransfersTyped'
  <2>1. accept[a].poi \in Clones
    BY <1>1, <1>7 DEF Relates, MintsDonor, MintsClone, KnowsPoi
  <2>2. depicts' \subseteq (Clones \cup {Donor}) \X Clones
    BY <1>1, <1>2, <1>7, <2>1 DEF Relates, MintsDonor, MintsClone
  <2>3. twins' \in BOOLEAN
    <3>1. CASE MintsDonor(a)
      BY <3>1 DEF MintsDonor
    <3>2. QED
      BY <1>1, <1>7, <3>1 DEF Relates, MintsClone
  <2>4. PICK s \in {"minted", "related"} : accept' = [accept EXCEPT ![a].at = s]
    BY <1>7 DEF Relates, MintsDonor, MintsClone
  <2> DEFINE x == [accept[a] EXCEPT !.at = s]
  <2>5. x \in AcceptRecord /\ KnowsPoi(x) /\ accept' = [accept EXCEPT ![a] = x]
    BY <1>1, <2>1, <2>4 DEF AcceptRecord, KnowsPoi
  <2>6. UNCHANGED <<transfer, clone, made>>
    BY <1>7 DEF Relates, MintsDonor, MintsClone
  <2> HIDE DEF x
  <2>7. QED
    BY <1>1, <2>2, <2>3, <2>5, <2>6, OneAcceptMoves
<1>8. ASSUME Concludes(a) \/ AcceptFails(a) PROVE TransfersTyped'
  <2>1. [status |-> "accepted", clone |-> accept[a].id] \in TransferRecord
    BY <1>2 DEF TransferRecord
  <2>2. transfer' \in [Targets -> TransferRecord]
    BY <1>1, <1>8, <2>1 DEF Concludes, AcceptFails
  <2>3. accept' = [accept EXCEPT ![a] = IdleAccept] /\ UNCHANGED <<clone, made, depicts, twins>>
    BY <1>8 DEF Concludes, AcceptFails
  <2>4. QED
    BY <1>1, <2>2, <2>3, IdleAcceptIs, OneAcceptMoves
<1>9. QED
  BY <1>4, <1>5, <1>6, <1>7, <1>8

LEMMA TransfersTypedKept == TransfersTyped /\ [TransfersNext]_transferVars => TransfersTyped'
<1> SUFFICES ASSUME TransfersTyped, [TransfersNext]_transferVars PROVE TransfersTyped'
  OBVIOUS
<1>1. /\ transfer \in [Targets -> TransferRecord] /\ clone \subseteq Clones
      /\ made \in MadeRecord /\ depicts \subseteq (Clones \cup {Donor}) \X Clones
      /\ accept \in [Accepts -> AcceptRecord] /\ twins \in BOOLEAN
      /\ \A a \in Accepts : KnowsPoi(accept[a])
  BY TransfersTypedIs
<1>2. CASE UNCHANGED transferVars
  BY <1>1, <1>2, TransfersAre DEF transferVars
<1>3. ASSUME NEW t \in Targets, reopen(t) PROVE TransfersTyped'
  <2>1. [transfer[t] EXCEPT !.status = "open"] \in TransferRecord
    BY <1>1 DEF TransferRecord
  <2>2. transfer' \in [Targets -> TransferRecord]
    BY <1>1, <1>3, <2>1 DEF reopen
  <2>3. QED
    BY <1>1, <1>3, <2>2, TransfersAre DEF reopen
<1>4. ASSUME NEW c \in Clones, CloneDeleted(c) PROVE TransfersTyped'
  BY <1>1, <1>4, TransfersAre DEF CloneDeleted
<1>5. QED
  BY <1>2, <1>3, <1>4, AcceptIsTyped DEF TransfersNext

-----------------------------------------------------------------------------
(* The API's limits: no more requests are remembered than a window admits. *)

FailureRecord == [age : 0..AttemptTicks, count : 0..(3 * MaxAttempts)]
AdviceRecord == [wait : WaitTicks, waits : BOOLEAN, since : BOOLEAN]

LimitsTyped == LimitsTypeOK /\ history[0] + history[1] + history[2] <= MaxRequests

LEMMA LimitsTypedIs ==
    LimitsTyped <=>
        /\ limiter \in Identifiers /\ history \in [0..2 -> 0..MaxRequests]
        /\ failure \in FailureRecord /\ trying \subseteq LoginTries /\ advice \in AdviceRecord
        /\ history[0] + history[1] + history[2] <= MaxRequests
  BY DEF LimitsTyped, LimitsTypeOK, FailureRecord, AdviceRecord, WindowTicks

\* What a step leaves is typed if each variable is.
LEMMA LimitsAre ==
    ASSUME /\ limiter' \in Identifiers /\ history' \in [0..2 -> 0..MaxRequests]
           /\ failure' \in FailureRecord /\ trying' \subseteq LoginTries /\ advice' \in AdviceRecord
           /\ history'[0] + history'[1] + history'[2] <= MaxRequests
    PROVE  LimitsTyped'
  BY DEF LimitsTyped, LimitsTypeOK, FailureRecord, AdviceRecord, WindowTicks

LEMMA LimitsBounds ==
    /\ MaxRequests \in Nat \ {0} /\ MaxAttempts \in Nat \ {0} /\ WaitTicks = 0..36
    /\ NoFailure \in FailureRecord /\ NotTold \in AdviceRecord
<1>1. MaxRequests \in Nat \ {0} /\ MaxAttempts \in Nat \ {0} /\ WaitTicks = 0..36
  BY LimitsAssumption DEF WaitTicks, LockoutTicks
<1>2. NoFailure \in FailureRecord /\ NotTold \in AdviceRecord
  BY <1>1 DEF NoFailure, FailureRecord, NotTold, AdviceRecord, AttemptTicks
<1>3. QED
  BY <1>1, <1>2

LEMMA LimitsTypedBegins == LimitsInit => LimitsTyped
  BY LimitsBounds, LimitsTypedIs DEF LimitsInit, WindowTicks

\* A window that is moved on or counted in remembers no more than it admits.
LEMMA WindowsAreTyped ==
    ASSUME LimitsTyped, NEW r \in Requests, check_rate_limit(r) \/ TimePasses
    PROVE  /\ history' \in [0..2 -> 0..MaxRequests]
           /\ history'[0] + history'[1] + history'[2] <= MaxRequests
<1>1. /\ history \in [0..2 -> 0..MaxRequests] /\ MaxRequests \in Nat \ {0}
      /\ history[0] \in 0..MaxRequests /\ history[1] \in 0..MaxRequests /\ history[2] \in 0..MaxRequests
      /\ history[0] + history[1] + history[2] <= MaxRequests
  BY LimitsTypedIs, LimitsBounds
<1>2. CASE check_rate_limit(r)
  <2> DEFINE h == InWindow(history)
  <2>1. h \in [0..2 -> 0..MaxRequests] /\ h[0] = history[0] /\ h[1] = history[1] /\ h[2] = 0
    BY <1>1 DEF InWindow, WindowTicks
  <2>2. \/ history' = h
        \/ ~ WindowFull(h) /\ history' = [h EXCEPT ![0] = h[0] + 1]
    BY <1>2 DEF check_rate_limit
  <2> HIDE DEF h
  <2>3. CASE history' = h
    BY <1>1, <2>1, <2>3
  <2>4. CASE ~ WindowFull(h) /\ history' = [h EXCEPT ![0] = h[0] + 1]
    <3>1. h[0] + h[1] < MaxRequests
      BY <1>1, <2>1, <2>4 DEF WindowFull
    <3>2. h[0] + 1 \in 0..MaxRequests
      BY <1>1, <2>1, <3>1
    <3>3. history' \in [0..2 -> 0..MaxRequests] /\ history'[0] = h[0] + 1
          /\ history'[1] = h[1] /\ history'[2] = h[2]
      BY <2>1, <2>4, <3>2
    <3>4. QED
      BY <1>1, <2>1, <3>1, <3>3
  <2>5. QED
    BY <2>2, <2>3, <2>4
<1>3. CASE TimePasses
  <2>1. history' = [a \in 0..2 |-> CASE a = 0 -> 0 [] a = 2 -> history[a] + history[a - 1]
                                      [] OTHER -> history[a - 1]]
    BY <1>3 DEF TimePasses, WindowTicks
  <2>2. history'[0] = 0 /\ history'[1] = history[0] /\ history'[2] = history[2] + history[1]
    BY <2>1
  <2>3. \A a \in 0..2 : history'[a] \in 0..MaxRequests
    BY <1>1, <2>2
  <2>4. history' \in [0..2 -> 0..MaxRequests]
    BY <2>1, <2>3
  <2>5. QED
    BY <1>1, <2>2, <2>4
<1>4. QED
  BY <1>2, <1>3

LEMMA LimitsStepIsTyped ==
    ASSUME LimitsTyped, NEW r \in Requests, check_rate_limit(r) \/ TimePasses
    PROVE  LimitsTyped'
<1>1. /\ limiter \in Identifiers /\ failure \in FailureRecord /\ trying \subseteq LoginTries
      /\ advice \in AdviceRecord
  BY LimitsTypedIs
<1>2. failure' \in FailureRecord
  <2>1. CASE TimePasses
    <3>1. failure.age \in 0..AttemptTicks /\ AttemptTicks = 6
      BY <1>1 DEF FailureRecord, AttemptTicks
    <3>2. failure.age # AttemptTicks => failure.age + 1 \in 0..AttemptTicks
      BY <3>1
    <3>3. QED
      BY <1>1, <2>1, <3>2 DEF TimePasses, FailureRecord
  <2>2. QED
    BY <1>1, <2>1 DEF check_rate_limit
<1>3. advice' \in AdviceRecord
  <2>1. CASE TimePasses
    <3>1. advice.wait \in 0..36
      BY <1>1, LimitsBounds DEF AdviceRecord
    <3>2. advice.wait # 0 => advice.wait - 1 \in WaitTicks
      BY <3>1, LimitsBounds
    <3>3. QED
      BY <1>1, <2>1, <3>2 DEF TimePasses, AdviceRecord
  <2>2. CASE check_rate_limit(r)
    <3>1. [wait |-> WindowTicks, waits |-> TRUE, since |-> FALSE] \in AdviceRecord
      BY LimitsBounds DEF AdviceRecord, WindowTicks
    <3>2. [advice EXCEPT !.since = advice.waits] \in AdviceRecord
      BY <1>1 DEF AdviceRecord
    <3>3. QED
      BY <2>2, <3>1, <3>2 DEF check_rate_limit, Tells, Recorded
  <2>3. QED
    BY <2>1, <2>2
<1>4. UNCHANGED <<limiter, trying>>
  BY DEF check_rate_limit, TimePasses
<1>5. QED
  BY <1>1, <1>2, <1>3, <1>4, WindowsAreTyped, LimitsAre

LEMMA LoginTriesAreTyped ==
    ASSUME LimitsTyped, NEW t \in LoginTries,
           check_auth_rate_limit(t) \/ record_failed_attempt(t) \/ clear_failed_attempts(t)
    PROVE  LimitsTyped'
<1>1. /\ limiter \in Identifiers /\ failure \in FailureRecord /\ trying \subseteq LoginTries
      /\ advice \in AdviceRecord /\ history \in [0..2 -> 0..MaxRequests]
      /\ history[0] + history[1] + history[2] <= MaxRequests
      /\ MaxAttempts \in Nat \ {0} /\ WaitTicks = 0..36
  BY LimitsTypedIs, LimitsBounds
<1>2. Remembered(failure) \in FailureRecord
  BY <1>1, LimitsBounds DEF Remembered
<1>3. failure' \in FailureRecord
  <2>1. CASE check_auth_rate_limit(t)
    BY <1>2, <2>1 DEF check_auth_rate_limit
  <2>2. CASE clear_failed_attempts(t)
    BY <2>2, LimitsBounds DEF clear_failed_attempts
  <2>3. CASE record_failed_attempt(t)
    <3>1. PICK n : n = IF failure.count = 3 * MaxAttempts THEN failure.count ELSE failure.count + 1
      OBVIOUS
    <3>2. failure.count \in 0..(3 * MaxAttempts)
      BY <1>1 DEF FailureRecord
    <3>3. n \in 0..(3 * MaxAttempts)
      BY <1>1, <3>1, <3>2
    <3>4. failure' = [age |-> 0, count |-> n]
      BY <2>3, <3>1 DEF record_failed_attempt
    <3>5. [age |-> 0, count |-> n] \in FailureRecord
      BY <3>3 DEF FailureRecord, AttemptTicks
    <3>6. QED
      BY <3>4, <3>5
  <2>4. QED
    BY <2>1, <2>2, <2>3
<1>4. advice' \in AdviceRecord
  <2>1. CASE check_auth_rate_limit(t)
    <3>1. PICK f : f = Remembered(failure)
      OBVIOUS
    <3>2. f.age \in 0..6
      BY <1>2, <3>1 DEF FailureRecord, AttemptTicks
    <3>3. Lockout(f.count) \in {0, 2, 12, 36}
      BY DEF Lockout, LockoutTicks, FirstTicks
    <3>4. ASSUME Locked(f) PROVE Remaining(f) \in WaitTicks
      <4>1. LockoutLeft(f) \in 1..36
        BY <3>2, <3>3, <3>4 DEF LockoutLeft, Locked
      <4>2. Remaining(f) \in 0..36
        BY <4>1 DEF Remaining, SecondTicks
      <4>3. QED
        BY <1>1, <4>2
    <3>5. ASSUME Locked(f)
          PROVE  [wait |-> Remaining(f), waits |-> TRUE, since |-> FALSE] \in AdviceRecord
      BY <3>4, <3>5 DEF AdviceRecord
    <3>6. \/ advice' = advice
          \/ Locked(f) /\ advice' = [wait |-> Remaining(f), waits |-> TRUE, since |-> FALSE]
      BY <2>1, <3>1 DEF check_auth_rate_limit, Tells
    <3>7. QED
      BY <1>1, <3>5, <3>6
  <2>2. CASE record_failed_attempt(t)
    <3>1. [advice EXCEPT !.since = advice.waits] \in AdviceRecord
      BY <1>1 DEF AdviceRecord
    <3>2. QED
      BY <2>2, <3>1 DEF record_failed_attempt, Recorded
  <2>3. QED
    BY <1>1, <2>1, <2>2 DEF clear_failed_attempts
<1>5. UNCHANGED <<limiter, history>> /\ trying' \subseteq LoginTries
  BY <1>1 DEF check_auth_rate_limit, record_failed_attempt, clear_failed_attempts
<1>6. QED
  BY <1>1, <1>3, <1>4, <1>5, LimitsAre

LEMMA LimitsTypedKept == LimitsTyped /\ [LimitsNext]_limitVars => LimitsTyped'
<1> SUFFICES ASSUME LimitsTyped, [LimitsNext]_limitVars PROVE LimitsTyped'
  OBVIOUS
<1>1. CASE UNCHANGED limitVars
  BY <1>1 DEF limitVars, LimitsTyped, LimitsTypeOK
<1>2. CASE TimePasses
  <2>1. [endpoint |-> "listing", user |-> FALSE, chained |-> FALSE] \in Requests
    BY DEF Requests, Routes
  <2>2. QED
    BY <1>2, <2>1, LimitsStepIsTyped
<1>3. QED
  BY <1>1, <1>2, LimitsStepIsTyped, LoginTriesAreTyped DEF LimitsNext

-----------------------------------------------------------------------------
(* The worker's renditions: whole records, of boxes that a picture has.    *)

Paths == Range(Sizes)
ObjectRecord == [from : Cells, to : 1..Width, conf : {"none", "low", "high"},
                 blurred : {"yes", "no", "unset"}]
ImageRecord == [content : {"image", "junk", "badRaw"}, readable : BOOLEAN,
                exif : [Fields -> {"some", "none", "zero", "bad"}],
                colour : {"plain", "doubtful", "untagged"},
                with : {"nothing", "orientation", "encoding"},
                meta : {Nowhere, Somewhere}, boxes : Seq(Findable), looked : BOOLEAN]
WorkRecord == [at : {"none", "started", "examined", "publishing", "over"},
               override : {"auto", "skip", "rectangles", "legacy", "stored"},
               left : Seq(Paths), objects : SUBSET ObjectRecord, made : SUBSET Paths,
               outcome : {"none", "completed", "permanent", "retry", "deleted"}]
SavedRecord == [done : BOOLEAN, auto : BOOLEAN, objects : SUBSET ObjectRecord, made : SUBSET Paths]
OnlineRecord == [by : {"nobody", "saved", "later"}, hides : SUBSET Cells]

RendersTyped ==
    /\ image \in ImageRecord /\ work \in WorkRecord /\ saved \in SavedRecord
    /\ online \in [Paths -> OnlineRecord] /\ jobs \in 0..MaxJobs

LEMMA RendersTypesFollow == RendersTyped => RendersTypeOK
<1> SUFFICES ASSUME RendersTyped PROVE RendersTypeOK
  OBVIOUS
<1>1. /\ work.at \in {"none", "started", "examined", "publishing", "over"}
      /\ work.override \in {"auto", "skip", "rectangles", "legacy", "stored"}
      /\ work.outcome \in {"none", "completed", "permanent", "retry", "deleted"}
      /\ work.left \in Seq(Paths) /\ work.objects \subseteq ObjectRecord /\ work.made \subseteq Paths
  BY DEF RendersTyped, WorkRecord
<1>2. saved.objects \subseteq ObjectRecord /\ saved.made \subseteq Paths
  BY DEF RendersTyped, SavedRecord
<1>3. Range(work.left) \subseteq Paths
  <2>1. \A i \in DOMAIN work.left : work.left[i] \in Paths
    BY <1>1
  <2>2. QED
    BY <2>1 DEF Range
<1>4. online \in [Range(Sizes) -> OnlineRecord] /\ jobs \in 0..MaxJobs
  BY DEF RendersTyped, Paths
<1>5. QED
  BY <1>1, <1>2, <1>3, <1>4 DEF RendersTypeOK, OnlineRecord, ObjectRecord, Paths

LEMMA RendersBounds ==
    /\ Width \in Nat \ {0, 1, 2} /\ MaxJobs \in Nat /\ MaxBoxes \in Nat
    /\ Sizes \in Seq(Paths)
    /\ {0, 1, 2} \subseteq Cells /\ {1, 2, 3} \subseteq 1..Width
<1>1. Width \in Nat \ {0, 1, 2} /\ MaxJobs \in Nat /\ MaxBoxes \in Nat
  BY RenditionsAssumption
<1>2. Sizes \in Seq(Paths)
  BY DEF Sizes, Paths, Range
<1>3. {0, 1, 2} \subseteq Cells /\ {1, 2, 3} \subseteq 1..Width
  BY <1>1 DEF Cells
<1>4. QED
  BY <1>1, <1>2, <1>3

LEMMA RendersTypedBegins == RendersInit => RendersTyped
<1> SUFFICES ASSUME RendersInit PROVE RendersTyped
  OBVIOUS
<1>1. <<>> \in Seq(Findable)
  OBVIOUS
<1>2. Images \subseteq ImageRecord
  BY <1>1 DEF Images, ImageRecord
<1>3. PlainImage \in ImageRecord
  BY <1>1 DEF PlainImage, ImageRecord, Somewhere
<1>4. image \in ImageRecord
  BY <1>2, <1>3 DEF RendersInit, OddImages
<1>5. work \in WorkRecord
  BY DEF RendersInit, NoJob, WorkRecord
<1>6. saved \in SavedRecord
  BY DEF RendersInit, SavedRecord
<1>7. [by |-> "nobody", hides |-> {}] \in OnlineRecord
  BY DEF OnlineRecord
<1>8. QED
  BY <1>4, <1>5, <1>6, <1>7, RendersBounds DEF RendersInit, RendersTyped, Paths

\* What is found, and decided about, lies in the picture.
LEMMA DecidedIsObject ==
    ASSUME NEW raw \in Seq(Findable)
    PROVE  {Decided(o) : o \in deduplicate_boxes(raw)} \subseteq ObjectRecord
<1>1. \A o \in Findable : Decided(o) \in ObjectRecord
  BY DEF Findable, Found, Decided, ObjectRecord
<1>2. deduplicate_boxes(raw) \subseteq Findable
  <2>1. \A i \in DOMAIN raw : raw[i] \in Findable
    OBVIOUS
  <2>2. QED
    BY <2>1 DEF deduplicate_boxes, KeptBoxes
<1>3. QED
  BY <1>1, <1>2

LEMMA DetectionsAreBoxes ==
    ASSUME RendersTyped, NEW raw \in Detections
    PROVE  raw \in Seq(Findable)
<1>1. image.boxes \in Seq(Findable)
  BY DEF RendersTyped, ImageRecord
<1>2. CASE image.looked
  BY <1>1, <1>2 DEF Detections
<1>3. CASE ~ image.looked
  <2>1. PICK n \in 0..(IF image = PlainImage THEN MaxBoxes ELSE 0) : raw \in [1..n -> Findable]
    BY <1>3 DEF Detections
  <2>2. n \in Nat
    BY RendersBounds
  <2>3. QED
    BY <2>1, <2>2
<1>4. QED
  BY <1>2, <1>3

LEMMA OverridesAreObjects ==
    ASSUME RendersTyped, NEW o \in {"skip", "rectangles", "legacy", "stored"}
    PROVE  Objects(o) \subseteq ObjectRecord
<1>1. saved.objects \subseteq ObjectRecord
  BY DEF RendersTyped, SavedRecord
<1>2. Rectangles \subseteq ObjectRecord
  BY RendersBounds DEF Rectangles, Box, ObjectRecord
<1>3. Legacy \subseteq ObjectRecord
  BY RendersBounds DEF Legacy, Box, ObjectRecord
<1>4. QED
  BY <1>1, <1>2, <1>3 DEF Objects

LEMMA HidingIsCells == ASSUME NEW r, NEW objects PROVE HiddenIn(r, objects) \subseteq Cells
<1>1. CellsOfAll({o \in objects : IsBlurred(o)}) \subseteq Cells
  BY DEF CellsOfAll
<1>2. QED
  BY <1>1 DEF HiddenIn, Blackened, Painted

LEMMA JobsOfPhotoAreTyped ==
    ASSUME RendersTyped,
           \/ \E o \in {"auto", "skip", "rectangles", "legacy", "stored"} : StartJob(o)
           \/ Examine \/ anonymize_image \/ ApplyOverride \/ Fail
    PROVE  RendersTyped'
<1>1. /\ image \in ImageRecord /\ work \in WorkRecord /\ saved \in SavedRecord
      /\ online \in [Paths -> OnlineRecord] /\ jobs \in 0..MaxJobs
  BY DEF RendersTyped
<1>2. \A s \in {"none", "completed", "permanent", "retry", "deleted"} :
          [work EXCEPT !.at = "over", !.outcome = s] \in WorkRecord
  BY <1>1 DEF WorkRecord
<1>3. \A objects \in SUBSET ObjectRecord :
          [work EXCEPT !.at = "publishing", !.objects = objects] \in WorkRecord
  BY <1>1 DEF WorkRecord
<1>4. ASSUME NEW o \in {"auto", "skip", "rectangles", "legacy", "stored"}, StartJob(o)
      PROVE  RendersTyped'
  <2> DEFINE w == [NoJob EXCEPT !.at = "started", !.override = o, !.left = Sizes]
  <2>1. w \in WorkRecord
    BY RendersBounds DEF NoJob, WorkRecord
  <2>2. work' = w /\ UNCHANGED <<image, saved, online>>
    BY <1>4 DEF StartJob
  <2>3. jobs' \in 0..MaxJobs
    BY <1>1, <1>4, RendersBounds DEF StartJob
  <2> HIDE DEF w
  <2>4. QED
    BY <1>1, <2>1, <2>2, <2>3 DEF RendersTyped
<1>5. ASSUME Examine \/ Fail PROVE RendersTyped'
  <2>1. [work EXCEPT !.at = "examined"] \in WorkRecord
    BY <1>1 DEF WorkRecord
  <2>2. work' \in WorkRecord /\ UNCHANGED <<image, saved, online, jobs>>
    BY <1>2, <1>5, <2>1 DEF Examine, Fail, JobEnds, JobBecomes
  <2>3. QED
    BY <1>1, <2>2 DEF RendersTyped
<1>6. ASSUME anonymize_image PROVE RendersTyped'
  <2>1. PICK raw \in Detections :
           /\ image' = [image EXCEPT !.boxes = raw, !.looked = TRUE]
           /\ Hidden({Decided(o) : o \in deduplicate_boxes(raw)})
    BY <1>6 DEF anonymize_image
  <2>2. raw \in Seq(Findable)
    BY DetectionsAreBoxes
  <2>3. image' \in ImageRecord
    BY <1>1, <2>1, <2>2 DEF ImageRecord
  <2>4. work' \in WorkRecord
    BY <1>3, <2>1, <2>2, DecidedIsObject DEF Hidden
  <2>5. QED
    BY <1>1, <1>6, <2>3, <2>4 DEF RendersTyped, anonymize_image
<1>7. ASSUME ApplyOverride PROVE RendersTyped'
  <2>1. work.override \in {"auto", "skip", "rectangles", "legacy", "stored"}
    BY <1>1 DEF WorkRecord
  <2>2. CASE Decodable
    <3>1. work.override \in {"skip", "rectangles", "legacy", "stored"}
          /\ work' = [work EXCEPT !.at = "publishing", !.objects = Objects(work.override)]
      BY <1>7, <2>1, <2>2 DEF ApplyOverride, Hidden
    <3>2. Objects(work.override) \subseteq ObjectRecord
      BY <3>1, OverridesAreObjects
    <3>3. work' \in WorkRecord
      BY <1>3, <3>1, <3>2
    <3>4. QED
      BY <1>1, <1>7, <3>3 DEF RendersTyped, ApplyOverride
  <2>3. CASE ~ Decodable
    BY <1>1, <1>2, <1>7, <2>3 DEF RendersTyped, ApplyOverride
  <2>4. QED
    BY <2>2, <2>3
<1>8. QED
  BY <1>4, <1>5, <1>6, <1>7

LEMMA PublishingIsTyped ==
    ASSUME RendersTyped, PublishNext \/ Report
    PROVE  RendersTyped'
<1>1. /\ image \in ImageRecord /\ work \in WorkRecord /\ saved \in SavedRecord
      /\ online \in [Paths -> OnlineRecord] /\ jobs \in 0..MaxJobs
  BY DEF RendersTyped
<1>2. work.left \in Seq(Paths) /\ work.made \subseteq Paths /\ work.objects \subseteq ObjectRecord
  BY <1>1 DEF WorkRecord
<1>3. ASSUME PublishNext PROVE RendersTyped'
  <2>1. PICK r : r = Head(work.left)
    OBVIOUS
  <2>2. r \in Paths /\ Tail(work.left) \in Seq(Paths)
    BY <1>2, <1>3, <2>1 DEF PublishNext
  <2>3. PICK w : w = [by |-> "later", hides |-> HiddenIn(r, work.objects)]
    OBVIOUS
  <2>4. w \in OnlineRecord
    BY <2>3, HidingIsCells DEF OnlineRecord
  <2>5. PICK m : m = work.made \cup {r}
    OBVIOUS
  <2> DEFINE j == [work EXCEPT !.left = Tail(work.left), !.made = m]
  <2>6. online' = [online EXCEPT ![r] = w] /\ work' = j /\ UNCHANGED <<image, saved, jobs>>
    BY <1>3, <2>1, <2>3, <2>5 DEF PublishNext
  <2>7. j \in WorkRecord
    BY <1>1, <1>2, <2>2, <2>5 DEF WorkRecord
  <2> HIDE DEF j
  <2>8. QED
    BY <1>1, <2>4, <2>6, <2>7 DEF RendersTyped
<1>4. ASSUME Report PROVE RendersTyped'
  <2>1. [work EXCEPT !.at = "over", !.outcome = "completed"] \in WorkRecord
    BY <1>1 DEF WorkRecord
  <2>2. [done |-> TRUE, auto |-> work.override = "auto", objects |-> work.objects,
         made |-> work.made] \in SavedRecord
    BY <1>2 DEF SavedRecord
  <2>3. \A r \in Paths : [online[r] EXCEPT !.by = "saved"] \in OnlineRecord
    BY <1>1 DEF OnlineRecord
  <2>4. DOMAIN online = Paths /\ \A r \in Paths : online[r] \in OnlineRecord
    BY <1>1
  <2>5. online' \in [Paths -> OnlineRecord]
    BY <1>4, <2>3, <2>4 DEF Report
  <2>6. QED
    BY <1>1, <1>4, <2>1, <2>2, <2>5 DEF RendersTyped, Report
<1>5. QED
  BY <1>3, <1>4

LEMMA RendersTypedKept == RendersTyped /\ [RendersNext]_renderVars => RendersTyped'
<1> SUFFICES ASSUME RendersTyped, [RendersNext]_renderVars PROVE RendersTyped'
  OBVIOUS
<1>1. CASE UNCHANGED renderVars
  BY <1>1 DEF renderVars, RendersTyped
<1>2. QED
  BY <1>1, JobsOfPhotoAreTyped, PublishingIsTyped DEF RendersNext

-----------------------------------------------------------------------------
(* The patches of the generated Android project                            *)

LEMMA ThirteenSteps == \A dev \in BOOLEAN : Len(Steps(dev)) = 13
  BY DEF Steps, fix_kotlin_versions

LEMMA PatchesTypedBegins == GenInit => GenTypeOK
<1> SUFFICES ASSUME GenInit PROVE GenTypeOK
  OBVIOUS
<1>1. Anchors.plugin \subseteq AllAnchors
  BY DEF Anchors, AllAnchors
<1>2. inserted \in [InsertedMarks -> 0..MaxCopies]
  BY GenPatchesAssumption DEF GenInit
<1>3. Len(Steps(FALSE)) = 13
  BY ThirteenSteps
<1>4. patching \in 0..Len(Steps(devMode))
  BY <1>3 DEF GenInit
<1>5. generated \in BOOLEAN /\ devMode \in BOOLEAN /\ wentWrong \in BOOLEAN
  BY DEF GenInit
<1>6. anchors \subseteq AllAnchors /\ services = "none" /\ verdict = "none"
  BY <1>1 DEF GenInit
<1>7. QED
  BY <1>2, <1>4, <1>5, <1>6 DEF GenTypeOK

LEMMA PatchedIsTyped ==
    ASSUME inserted \in [InsertedMarks -> 0..MaxCopies], NEW step
    PROVE  Patched(step) \in [InsertedMarks -> 0..MaxCopies]
<1>1. ASSUME NEW m \in InsertedMarks, inserted[m] < MaxCopies PROVE inserted[m] + 1 \in 0..MaxCopies
  BY <1>1, GenPatchesAssumption
<1>2. QED
  BY <1>1 DEF Patched

LEMMA PatchesTypedKept == GenTypeOK /\ [GenNext]_genVars => GenTypeOK'
<1> SUFFICES ASSUME GenTypeOK, [GenNext]_genVars PROVE GenTypeOK'
  OBVIOUS
<1>1. /\ generated \in BOOLEAN /\ devMode \in BOOLEAN /\ wentWrong \in BOOLEAN
      /\ anchors \subseteq AllAnchors /\ inserted \in [InsertedMarks -> 0..MaxCopies]
      /\ services \in {"none", SchemeOf(TRUE), SchemeOf(FALSE)}
      /\ patching \in 0..13 /\ verdict \in {"none", "refused", "failed", "succeeded"}
  BY ThirteenSteps DEF GenTypeOK
<1>2. ASSUME /\ generated' \in BOOLEAN /\ devMode' \in BOOLEAN /\ wentWrong' \in BOOLEAN
             /\ anchors' \subseteq AllAnchors /\ inserted' \in [InsertedMarks -> 0..MaxCopies]
             /\ services' \in {"none", SchemeOf(TRUE), SchemeOf(FALSE)}
             /\ patching' \in 0..13 /\ verdict' \in {"none", "refused", "failed", "succeeded"}
      PROVE  GenTypeOK'
  <2>1. Len(Steps(devMode)') = 13
    BY <1>2, ThirteenSteps DEF Steps, fix_kotlin_versions
  <2>2. QED
    BY <1>2, <2>1 DEF GenTypeOK
<1>3. CASE UNCHANGED genVars
  BY <1>1, <1>2, <1>3 DEF genVars
<1>4. CASE StartRun
  <2>1. /\ patching' \in {0, 1} /\ verdict' \in {"none", "refused"}
        /\ UNCHANGED <<generated, anchors, inserted, services, devMode, wentWrong>>
    BY <1>4 DEF StartRun
  <2>2. patching' \in 0..13
    BY <2>1
  <2>3. QED
    BY <1>1, <1>2, <2>1, <2>2
<1>5. CASE RunStep
  <2>1. Len(Steps(devMode)) = 13
    BY <1>1, ThirteenSteps
  <2>2. services' \in {services, SchemeOf(TRUE), SchemeOf(FALSE)}
    BY <1>1, <1>5 DEF RunStep, CopyServices
  <2>3. inserted' \in [InsertedMarks -> 0..MaxCopies]
    BY <1>1, <1>5, PatchedIsTyped DEF RunStep
  <2>4. patching' \in 0..13
    BY <1>1, <1>5, <2>1 DEF RunStep
  <2> DEFINE wrong == wentWrong \/ StepFails(CurrentStep)
  <2>7. wrong \in BOOLEAN
    OBVIOUS
  <2>8. wentWrong' \in {wrong, FALSE} /\ verdict' \in {verdict, "failed", "succeeded"}
    BY <1>5 DEF RunStep
  <2> HIDE DEF wrong
  <2>5. UNCHANGED <<generated, anchors, devMode>>
    BY <1>5 DEF RunStep
  <2>6. QED
    BY <1>1, <1>2, <2>2, <2>3, <2>4, <2>5, <2>7, <2>8
<1>6. CASE Stopped
  <2>1. anchors' \subseteq AllAnchors /\ inserted' \in [InsertedMarks -> 0..MaxCopies]
    BY <1>1, <1>6, GenPatchesAssumption DEF Stopped
  <2>2. patching' = 0 /\ wentWrong' = FALSE /\ UNCHANGED <<generated, services, devMode, verdict>>
    BY <1>6 DEF Stopped
  <2>3. patching' \in 0..13
    BY <2>2
  <2>4. wentWrong' \in BOOLEAN
    BY <2>2
  <2>5. QED
    BY <1>1, <1>2, <2>1, <2>2, <2>3, <2>4
<1>7. CASE Generate
  <2>1. anchors' \subseteq AllAnchors
    BY <1>7 DEF Generate
  <2>2. inserted' \in [InsertedMarks -> 0..MaxCopies]
    BY <1>1, <1>7, GenPatchesAssumption DEF Generate
  <2>3. generated' = TRUE /\ services' = "none" /\ verdict' = "none"
        /\ UNCHANGED <<devMode, patching, wentWrong>>
    BY <1>7 DEF Generate
  <2>4. QED
    BY <1>1, <1>2, <2>1, <2>2, <2>3
<1>8. CASE SwitchMode
  <2>1. devMode' \in BOOLEAN /\ verdict' = "none"
        /\ UNCHANGED <<generated, anchors, inserted, services, patching, wentWrong>>
    BY <1>1, <1>8 DEF SwitchMode
  <2>2. QED
    BY <1>1, <1>2, <2>1
<1>9. QED
  BY <1>3, <1>4, <1>5, <1>6, <1>7, <1>8 DEF GenNext

-----------------------------------------------------------------------------
(* The panorama pipeline                                                   *)

PastRecord == [hands : 0..MaxHands, accepted : BOOLEAN, gap : BOOLEAN, edited : BOOLEAN,
               warned : BOOLEAN, torn : BOOLEAN]

PanoDirectories == out \in [1..9 -> Outputs] /\ staging \in [1..9 -> Outputs]
                   /\ outdated \in [1..9 -> BOOLEAN]
PanoRun == stage \in 0..9 /\ redoing \in 0..9 /\ suffix \in {"none", "tmp"}
           /\ stopAfter \in StopPoints \cup {0}
           /\ exitCode \in {"none", "stopped", "done", "failed"}

LEMMA NinePhases ==
    /\ Indices = 1..9 /\ LastPhase = 9
    /\ \A i \in 1..9 : PhaseNames[i] \in {"tiff", "fused", "pto", "topmost", "baseline",
                                          "optimize", "stitch", "render", "pyramid"}
<1>1. Indices = 1..9 /\ LastPhase = 9
  BY DEF Indices, LastPhase, PhaseNames
<1>2. \A i \in 1..9 : PhaseNames[i] \in {"tiff", "fused", "pto", "topmost", "baseline",
                                         "optimize", "stitch", "render", "pyramid"}
  BY DEF PhaseNames
<1>3. QED
  BY <1>1, <1>2

LEMMA PanoTypedIs ==
    PanoTypeOK <=> PanoDirectories /\ PanoRun /\ xmp \in {"none", "default", "edited"}
                   /\ past \in PastRecord
  BY NinePhases DEF PanoTypeOK, PanoDirectories, PanoRun, PastRecord

\* What a step leaves is typed if its parts are.
LEMMA PanoIsTyped ==
    ASSUME PanoDirectories', PanoRun', xmp' \in {"none", "default", "edited"}, past' \in PastRecord
    PROVE  PanoTypeOK'
<1>1. Indices = 1..9 /\ LastPhase = 9
  BY NinePhases
<1>2. Indices' = Indices /\ LastPhase' = LastPhase
  OBVIOUS
<1>3. QED
  BY <1>1, <1>2 DEF PanoTypeOK, PanoDirectories, PanoRun, PastRecord

LEMMA PanoTypedBegins == PanoInit => PanoTypeOK
<1> SUFFICES ASSUME PanoInit PROVE PanoTypeOK
  OBVIOUS
<1>1. PanoDirectories
  BY NinePhases DEF PanoInit, PanoDirectories, Outputs
<1>2. PanoRun /\ xmp \in {"none", "default", "edited"}
  BY DEF PanoInit, PanoRun
<1>3. past \in PastRecord
  BY PanoAssumption DEF PanoInit, PastRecord
<1>4. QED
  BY <1>1, <1>2, <1>3, PanoTypedIs

LEMMA BodiesMakeOutputs ==
    ASSUME PanoDirectories, NEW i \in 1..9
    PROVE  PhaseBody(i, Input(i)) \subseteq Outputs /\ LeftBehind(i) \subseteq Outputs
<1>1. PICK input : input = Input(i)
  OBVIOUS
<1>2. input \in Outputs
  <2>1. i # 1 => i - 1 \in 1..9
    OBVIOUS
  <2>2. QED
    BY <1>1, <2>1 DEF Input, PanoDirectories, Outputs
<1>3. PhaseBody(i, input) \subseteq Outputs
  <2>1. Handed(input) \subseteq Outputs /\ _fused(input) \subseteq Outputs
        /\ {"whole", "wrong"} \subseteq Outputs
    BY <1>2 DEF Handed, _fused, Outputs
  <2>2. _render(input) \subseteq Outputs
    BY <2>1 DEF _render
  <2>3. _pyramid(input) \subseteq Outputs
    BY <2>1 DEF _pyramid, exr_to_webp_pyramid
  <2>4. QED
    BY <2>1, <2>2, <2>3, NinePhases
    DEF PhaseBody, _tiff, _pto, pto_cp_topmost, pto_horizontal_baseline, pto_optvars,
        _stitch, pto_stitch_exr
<1>4. LeftBehind(i) \subseteq Outputs
  BY DEF LeftBehind, linearize, set_encoding, Outputs
<1>5. QED
  BY <1>1, <1>3, <1>4

LEMMA OnwardIsTyped == ASSUME PanoRun, stage > 0, Onward PROVE PanoRun'
<1>1. /\ stage \in 1..9 /\ redoing \in 0..9 /\ suffix \in {"none", "tmp"}
      /\ stopAfter \in StopPoints \cup {0}
      /\ exitCode \in {"none", "stopped", "done", "failed"}
  BY DEF PanoRun
<1>2. CASE stage' = stage + 1 /\ UNCHANGED <<redoing, suffix, stopAfter, exitCode>> /\ stage # 9
  <2>1. stage' \in 0..9
    BY <1>1, <1>2
  <2>2. QED
    BY <1>1, <1>2, <2>1 DEF PanoRun
<1>3. CASE \E code \in {"stopped", "done", "failed"} : ExitsWith(code)
  BY <1>3 DEF ExitsWith, PanoRun
<1>4. QED
  BY <1>2, <1>3, NinePhases DEF Onward

LEMMA EndingIsTyped == ExitsWith("failed") => PanoRun'
  BY DEF ExitsWith, PanoRun

LEMMA PhasesAreTyped ==
    ASSUME PanoTypeOK,
           \/ StartPipeline \/ RedoFinal \/ RedoStaging \/ SkipPhase \/ RefusePhase
           \/ CommitPhase \/ BodyFails
    PROVE  PanoTypeOK'
<1>1. /\ PanoDirectories /\ PanoRun /\ xmp \in {"none", "default", "edited"} /\ past \in PastRecord
      /\ out \in [1..9 -> Outputs] /\ staging \in [1..9 -> Outputs] /\ outdated \in [1..9 -> BOOLEAN]
      /\ stage \in 0..9 /\ redoing \in 0..9 /\ stopAfter \in StopPoints \cup {0}
  BY PanoTypedIs DEF PanoDirectories, PanoRun
<1>2. past' \in PastRecord
  <2>1. CASE CommitPhase
    <3>1. PICK b \in BOOLEAN : past' = [past EXCEPT !.warned = b]
      BY <1>1, <2>1 DEF CommitPhase, PastRecord
    <3>2. QED
      BY <1>1, <3>1 DEF PastRecord
  <2>2. QED
    BY <1>1, <2>1 DEF StartPipeline, RedoFinal, RedoStaging, SkipPhase, RefusePhase, BodyFails
<1>3. xmp' \in {"none", "default", "edited"}
  <2>1. CASE CommitPhase \/ BodyFails
    BY <1>1, <2>1 DEF CommitPhase, BodyFails, Works, _ensure_render_workspace
  <2>2. QED
    BY <1>1, <2>1 DEF StartPipeline, RedoFinal, RedoStaging, SkipPhase, RefusePhase
<1>4. PanoDirectories'
  <2>1. CASE RedoFinal \/ RedoStaging
    BY <1>1, <2>1 DEF RedoFinal, RedoStaging, PanoDirectories, Outputs
  <2>2. CASE CommitPhase
    <3>1. stage \in 1..9 /\ UNCHANGED staging
      BY <1>1, <2>2 DEF CommitPhase, Works
    <3>2. out' \in [1..9 -> Outputs]
      BY <1>1, <2>2, <3>1, BodiesMakeOutputs DEF CommitPhase
    <3>3. outdated' \in [1..9 -> BOOLEAN]
      BY <1>1, <2>2, NinePhases DEF CommitPhase
    <3>4. QED
      BY <1>1, <3>1, <3>2, <3>3 DEF PanoDirectories
  <2>3. CASE BodyFails
    <3>1. stage \in 1..9 /\ UNCHANGED <<out, outdated>>
      BY <1>1, <2>3 DEF BodyFails, Works
    <3>2. staging' \in [1..9 -> Outputs]
      BY <1>1, <2>3, <3>1, BodiesMakeOutputs DEF BodyFails
    <3>3. QED
      BY <1>1, <3>1, <3>2 DEF PanoDirectories
  <2>4. QED
    BY <1>1, <2>1, <2>2, <2>3 DEF StartPipeline, SkipPhase, RefusePhase, PanoDirectories
<1>5. PanoRun'
  <2>1. CASE StartPipeline
    BY <2>1, PanoAssumption, NinePhases DEF StartPipeline, PanoRun
  <2>2. CASE RedoFinal \/ RedoStaging
    <3>1. redoing' \in 0..9
      BY <1>1, <2>2, NinePhases DEF RedoFinal, RedoStaging
    <3>2. QED
      BY <1>1, <2>2, <3>1 DEF RedoFinal, RedoStaging, PanoRun
  <2>3. CASE SkipPhase \/ CommitPhase
    BY <1>1, <2>3, OnwardIsTyped DEF SkipPhase, CommitPhase, Works
  <2>4. CASE RefusePhase \/ BodyFails
    BY <2>4, EndingIsTyped DEF RefusePhase, BodyFails
  <2>5. QED
    BY <2>1, <2>2, <2>3, <2>4
<1>6. QED
  BY <1>2, <1>3, <1>4, <1>5, PanoIsTyped

LEMMA HandsAreTyped ==
    ASSUME PanoTypeOK, NEW i \in 1..9,
           Interrupted \/ EditXmp \/ Accept(i) \/ Retry(i) \/ RemovePhase(i)
    PROVE  PanoTypeOK'
<1>1. /\ PanoDirectories /\ PanoRun /\ xmp \in {"none", "default", "edited"} /\ past \in PastRecord
      /\ out \in [1..9 -> Outputs] /\ staging \in [1..9 -> Outputs] /\ outdated \in [1..9 -> BOOLEAN]
  BY PanoTypedIs DEF PanoDirectories
<1>2. past' \in PastRecord
  <2>1. CASE Interrupted \/ Accept(i) \/ RemovePhase(i)
    <3>1. past.hands \in 0..MaxHands /\ past.hands < MaxHands
      BY <1>1, <2>1 DEF PastRecord, Interrupted, Accept, RemovePhase, ByHand
    <3>2. past.hands + 1 \in 0..MaxHands
      BY <3>1, PanoAssumption
    <3>3. \A yes \in BOOLEAN : [past EXCEPT !.hands = past.hands + 1, !.gap = yes] \in PastRecord
      BY <1>1, <3>2 DEF PastRecord
    <3>4. [past EXCEPT !.hands = past.hands + 1, !.accepted = TRUE] \in PastRecord
      BY <1>1, <3>2 DEF PastRecord
    <3>5. (past.gap \/ Gap(out', staging)) \in BOOLEAN
      OBVIOUS
    <3>6. CASE Interrupted
      <4>1. PICK gap \in BOOLEAN, torn \in BOOLEAN :
               past' = [past EXCEPT !.hands = past.hands + 1, !.gap = gap, !.torn = torn]
        BY <3>6 DEF Interrupted
      <4>2. QED
        BY <1>1, <3>2, <4>1 DEF PastRecord
    <3>7. CASE RemovePhase(i)
      BY <3>3, <3>5, <3>7 DEF RemovePhase
    <3>8. CASE Accept(i)
      BY <3>4, <3>8 DEF Accept
    <3>9. QED
      BY <2>1, <3>6, <3>7, <3>8
  <2>2. [past EXCEPT !.edited = TRUE] \in PastRecord
    BY <1>1 DEF PastRecord
  <2>3. QED
    BY <1>1, <2>1, <2>2 DEF EditXmp, Retry
<1>3. xmp' \in {"none", "default", "edited"}
  BY <1>1 DEF Interrupted, EditXmp, Accept, Retry, RemovePhase
<1>4. PanoDirectories'
  <2>1. CASE Accept(i)
    <3>1. (i > 1 /\ outdated[i - 1]) \in BOOLEAN
      OBVIOUS
    <3>2. staging[i] \in Outputs /\ "none" \in Outputs
      BY <1>1 DEF Outputs
    <3>3. QED
      BY <1>1, <2>1, <3>1, <3>2 DEF Accept, PanoDirectories
  <2>2. CASE Retry(i) \/ RemovePhase(i)
    BY <1>1, <2>2 DEF Retry, RemovePhase, PanoDirectories, Outputs
  <2>3. CASE Interrupted
    <3>1. ASSUME NEW was \in Outputs PROVE Remnants(redoing, was) \subseteq Outputs
      BY DEF Remnants, Outputs
    <3>2. redoing \in 1..9
      BY <1>1, <2>3 DEF Interrupted, PanoRun
    <3>3. PICK left \in Outputs :
            /\ out' = IF suffix = "none" THEN [out EXCEPT ![redoing] = left] ELSE out
            /\ staging' = IF suffix = "none" THEN staging
                          ELSE [staging EXCEPT ![redoing] = left]
      <4>1. out[redoing] \in Outputs /\ staging[redoing] \in Outputs
        BY <1>1, <3>2
      <4>2. QED
        BY <2>3, <3>1, <4>1 DEF Interrupted
    <3>4. outdated' = outdated
      BY <2>3 DEF Interrupted
    <3>5. QED
      BY <1>1, <3>3, <3>4 DEF PanoDirectories
  <2>4. QED
    BY <1>1, <2>1, <2>2, <2>3 DEF EditXmp, PanoDirectories
<1>5. PanoRun'
  <2>1. CASE Interrupted
    BY <2>1, EndingIsTyped DEF Interrupted
  <2>2. QED
    BY <1>1, <2>1 DEF EditXmp, Accept, Retry, RemovePhase, ByHand, PanoRun
<1>6. QED
  BY <1>2, <1>3, <1>4, <1>5, PanoIsTyped

LEMMA PanoTypedKept == PanoTypeOK /\ [PanoNext]_panoVars => PanoTypeOK'
<1> SUFFICES ASSUME PanoTypeOK, [PanoNext]_panoVars PROVE PanoTypeOK'
  OBVIOUS
<1>1. CASE UNCHANGED panoVars
  <2>1. PanoDirectories' /\ PanoRun' /\ xmp' \in {"none", "default", "edited"} /\ past' \in PastRecord
    BY <1>1, PanoTypedIs DEF panoVars, PanoDirectories, PanoRun
  <2>2. QED
    BY <2>1, PanoIsTyped
<1>2. CASE PanoNext
  <2>1. Indices = 1..9 /\ 1 \in 1..9
    BY NinePhases
  <2>2. QED
    BY <1>2, <2>1, PhasesAreTyped, HandsAreTyped DEF PanoNext
<1>3. QED
  BY <1>1, <1>2

-----------------------------------------------------------------------------
(* Curation.  What a run writes is a fact that says something.             *)

SubjectRecord == [origin : {"none", "hillview", "workbench", "deleted"}, current : BOOLEAN,
                  says : Sayings]
VerbRecord == [way : {"edit", "approve", "load", "verdict"},
               at : Writing \cup {"idle", "succeeded", "stopped"},
               fact : Sayings, prior : SUBSET Meanings, to : Decisions]
AnswerRecord == [at : {"none", "read", "landed", "pending", "create", "search"}, fact : Sayings]

SaysSomething(v) == v.at \in Writing => v.fact \in Meanings

CurationTyped == CurationTypeOK /\ \A a \in Verbs : SaysSomething(verb[a])

LEMMA CurationTypedIs ==
    CurationTyped <=>
        /\ aspect \in Aspects /\ subject \in SubjectRecord
        /\ loaded \subseteq Meanings /\ linked \subseteq Meanings
        /\ decision \in [Meanings -> Decisions] /\ verb \in [Verbs -> VerbRecord]
        /\ answer \in AnswerRecord /\ undisturbed \subseteq Verbs /\ standing \in Sayings
        /\ \A a \in Verbs : SaysSomething(verb[a])
  BY DEF CurationTyped, CurationTypeOK, SubjectRecord, VerbRecord, AnswerRecord

\* What a step leaves is typed if each variable is.
LEMMA CurationAre ==
    ASSUME /\ aspect' \in Aspects /\ subject' \in SubjectRecord
           /\ loaded' \subseteq Meanings /\ linked' \subseteq Meanings
           /\ decision' \in [Meanings -> Decisions] /\ verb' \in [Verbs -> VerbRecord]
           /\ answer' \in AnswerRecord /\ undisturbed' \subseteq Verbs /\ standing' \in Sayings
           /\ \A a \in Verbs : SaysSomething(verb'[a])
    PROVE  CurationTyped'
  BY DEF CurationTyped, CurationTypeOK, SubjectRecord, VerbRecord, AnswerRecord, SaysSomething

LEMMA CurationBlanks ==
    /\ NoSubject \in SubjectRecord /\ IdleVerb \in VerbRecord /\ NoAnswer \in AnswerRecord
    /\ SaysSomething(IdleVerb)
<1>1. NoSubject \in SubjectRecord
  BY DEF NoSubject, SubjectRecord, Sayings
<1>2. IdleVerb \in VerbRecord
  BY DEF IdleVerb, VerbRecord, Sayings, Decisions
<1>3. NoAnswer \in AnswerRecord
  BY DEF NoAnswer, AnswerRecord, Sayings
<1>4. SaysSomething(IdleVerb)
  BY DEF IdleVerb, SaysSomething, Writing
<1>5. QED
  BY <1>1, <1>2, <1>3, <1>4

LEMMA CurationTypedBegins == CurationInit => CurationTyped
<1> SUFFICES ASSUME CurationInit PROVE CurationTyped
  OBVIOUS
<1>1. subject \in SubjectRecord
  BY CurationBlanks DEF CurationInit, SubjectRecord
<1>2. aspect \in Aspects /\ loaded = {} /\ linked = {} /\ answer = NoAnswer /\ undisturbed = {}
      /\ standing = Unsaid
  BY DEF CurationInit
<1>3. decision \in [Meanings -> Decisions]
  BY DEF CurationInit, Decisions
<1>4. verb = [a \in Verbs |-> IdleVerb]
  BY DEF CurationInit
<1>5. QED
  BY <1>1, <1>2, <1>3, <1>4, CurationBlanks, CurationTypedIs DEF Sayings

LEMMA RowsAreTyped ==
    ASSUME CurationTyped, RowChanges
    PROVE  CurationTyped'
<1>1. subject \in SubjectRecord /\ answer \in AnswerRecord
  BY CurationTypedIs
<1>2. subject' \in SubjectRecord
  <2>1. ASSUME NEW s \in Sayings PROVE [origin |-> "workbench", current |-> TRUE, says |-> s] \in SubjectRecord
    BY DEF SubjectRecord
  <2>2. \A s \in Sayings : [subject EXCEPT !.says = s] \in SubjectRecord
    BY <1>1 DEF SubjectRecord
  <2>3. \A s \in Sayings, c \in BOOLEAN : [subject EXCEPT !.says = s, !.current = c] \in SubjectRecord
    BY <1>1 DEF SubjectRecord
  <2>4. [NoSubject EXCEPT !.origin = "deleted"] \in SubjectRecord
    BY CurationBlanks DEF SubjectRecord
  <2>5. QED
    BY <2>1, <2>2, <2>3, <2>4 DEF RowChanges, Draw, Redraw, Erase, SyncRow
<1>3. answer' \in AnswerRecord
  BY <1>1, CurationBlanks DEF RowChanges
<1>4. UNCHANGED <<aspect, loaded, linked, decision, verb, undisturbed, standing>>
  BY DEF RowChanges
<1>5. QED
  BY <1>2, <1>3, <1>4, CurationTypedIs, CurationAre

\* A run is made, or goes on.
LEMMA OneVerbMoves ==
    ASSUME CurationTyped, NEW a \in Verbs, NEW v \in VerbRecord, SaysSomething(v),
           verb' = [verb EXCEPT ![a] = v], UNCHANGED <<aspect, subject>>,
           loaded' \subseteq Meanings, linked' \subseteq Meanings,
           decision' \in [Meanings -> Decisions], answer' \in AnswerRecord,
           undisturbed' \subseteq Verbs, standing' \in Sayings
    PROVE  CurationTyped'
<1>1. /\ aspect \in Aspects /\ subject \in SubjectRecord
      /\ verb \in [Verbs -> VerbRecord] /\ \A b \in Verbs : SaysSomething(verb[b])
  BY CurationTypedIs
<1>2. verb' \in [Verbs -> VerbRecord] /\ \A b \in Verbs : SaysSomething(verb'[b])
  BY <1>1
<1>3. QED
  BY <1>1, <1>2, CurationAre

LEMMA VerbsBegin ==
    ASSUME CurationTyped, NEW a \in Verbs, AsksToWrite(a)
    PROVE  CurationTyped'
<1>1. /\ loaded \subseteq Meanings /\ linked \subseteq Meanings
      /\ decision \in [Meanings -> Decisions] /\ answer \in AnswerRecord
      /\ undisturbed \subseteq Verbs /\ standing \in Sayings /\ subject \in SubjectRecord
  BY CurationTypedIs
<1>2. ASSUME NEW way \in {"edit", "approve", "load", "verdict"}, NEW f \in Meanings,
             NEW prior \in SUBSET Meanings, NEW to \in Decisions, Begin(a, way, f, prior, to)
      PROVE  CurationTyped'
  <2> DEFINE v == [way |-> way, at |-> "ready", fact |-> f, prior |-> prior, to |-> to]
  <2>1. v \in VerbRecord /\ SaysSomething(v)
    BY DEF VerbRecord, SaysSomething, Writing, Sayings
  <2>2. /\ verb' = [verb EXCEPT ![a] = v] /\ undisturbed' = undisturbed \cup {a}
        /\ UNCHANGED <<aspect, subject, loaded, linked, decision, answer, standing>>
    BY <1>2 DEF Begin
  <2> HIDE DEF v
  <2>3. undisturbed' \subseteq Verbs
    BY <1>1, <2>2
  <2>4. QED
    BY <1>1, <2>1, <2>2, <2>3, OneVerbMoves
<1>3. "approved" \in Decisions /\ "proposed" \in Decisions /\ {} \in SUBSET Meanings
      /\ \A f : Prior(f) \in SUBSET Meanings
  BY DEF Decisions, Prior, Approved
<1>4. subject.says # Unsaid => subject.says \in Meanings
  BY <1>1 DEF SubjectRecord, Sayings
<1>5. CASE ParseRun(a)
  BY <1>2, <1>3, <1>4, <1>5 DEF ParseRun
<1>6. ASSUME NEW f \in Meanings,
             \/ SetLabel(a, f) \/ SetGeometry(a, f) \/ PinAnchor(a, f) \/ AttachWikipedia(a, f)
             \/ GeocodeRun(a, f) \/ PlacePoi(a, f) \/ AcceptCalibration(a, f)
             \/ \E to \in Decisions : Verdict(a, f, to)
      PROVE  CurationTyped'
  <2>1. PICK way \in {"edit", "approve", "load", "verdict"}, prior \in SUBSET Meanings,
             to \in Decisions : Begin(a, way, f, prior, to)
    BY <1>3, <1>6
    DEF SetLabel, SetGeometry, PinAnchor, AttachWikipedia, GeocodeRun, PlacePoi,
        AcceptCalibration, Verdict
  <2>2. QED
    BY <1>2, <2>1
<1>7. QED
  BY <1>5, <1>6 DEF AsksToWrite

LEMMA VerbsGoOn ==
    ASSUME CurationTyped, NEW a \in Verbs,
           \/ LoadFact(a) \/ LoadMeta(a) \/ Decide(a) \/ FinishRun(a) \/ Stops(a)
           \/ \E f \in Meanings : Demote(a, f)
    PROVE  CurationTyped'
<1>1. /\ loaded \subseteq Meanings /\ linked \subseteq Meanings
      /\ decision \in [Meanings -> Decisions] /\ answer \in AnswerRecord
      /\ undisturbed \subseteq Verbs /\ standing \in Sayings
      /\ verb[a] \in VerbRecord /\ SaysSomething(verb[a]) /\ verb \in [Verbs -> VerbRecord]
  BY CurationTypedIs
<1>2. /\ verb[a].fact \in Sayings /\ verb[a].prior \subseteq Meanings /\ verb[a].to \in Decisions
      /\ (verb[a].at \in Writing => verb[a].fact \in Meanings)
      /\ Unsaid \in Sayings
  BY <1>1 DEF VerbRecord, SaysSomething, Sayings
<1>3. ASSUME NEW at \in Writing, verb[a].at \in Writing, verb' = [verb EXCEPT ![a].at = at]
      PROVE  \E v \in VerbRecord : SaysSomething(v) /\ verb' = [verb EXCEPT ![a] = v]
  <2> DEFINE v == [verb[a] EXCEPT !.at = at]
  <2>1. v \in VerbRecord /\ v.fact = verb[a].fact /\ verb' = [verb EXCEPT ![a] = v]
    BY <1>1, <1>3 DEF VerbRecord
  <2>2. SaysSomething(v)
    BY <1>2, <1>3, <2>1 DEF SaysSomething
  <2>3. QED
    BY <2>1, <2>2
<1>4. CASE LoadFact(a)
  <2>1. verb[a].at \in Writing /\ "loaded" \in Writing /\ verb' = [verb EXCEPT ![a].at = "loaded"]
    BY <1>4 DEF LoadFact, Writing, MovesTo
  <2>2. /\ loaded' \subseteq Meanings
        /\ UNCHANGED <<aspect, subject, linked, decision, answer, undisturbed, standing>>
    BY <1>1, <1>2, <1>4, <2>1 DEF LoadFact
  <2>3. QED
    BY <1>1, <1>3, <2>1, <2>2, OneVerbMoves
<1>5. CASE LoadMeta(a)
  <2>1. verb[a].at \in Writing /\ "linked" \in Writing /\ verb' = [verb EXCEPT ![a].at = "linked"]
    BY <1>5 DEF LoadMeta, Writing, MovesTo
  <2>2. /\ linked' \subseteq Meanings
        /\ UNCHANGED <<aspect, subject, loaded, decision, answer, undisturbed, standing>>
    BY <1>1, <1>2, <1>5, <2>1 DEF LoadMeta
  <2>3. QED
    BY <1>1, <1>3, <2>1, <2>2, OneVerbMoves
<1>6. ASSUME NEW f \in Meanings, NEW to \in Decisions, NEW by, CurateUpdate(f, to, by)
      PROVE  /\ decision' \in [Meanings -> Decisions] /\ undisturbed' \subseteq Verbs
             /\ standing' \in Sayings /\ answer' \in AnswerRecord
             /\ UNCHANGED <<aspect, subject, loaded, linked>>
  BY <1>1, <1>2, <1>6, CurationBlanks DEF CurateUpdate
<1>7. CASE Decide(a)
  <2>1. verb[a].at \in Writing /\ "decided" \in Writing /\ verb' = [verb EXCEPT ![a].at = "decided"]
    BY <1>7 DEF Decide, Writing, MovesTo
  <2>2. CurateUpdate(verb[a].fact, verb[a].to, {a})
    BY <1>7 DEF Decide
  <2>3. QED
    BY <1>1, <1>2, <1>3, <1>6, <2>1, <2>2, OneVerbMoves
<1>8. ASSUME NEW f \in Meanings, Demote(a, f) PROVE CurationTyped'
  <2>1. PICK p : p = verb[a].prior \ {f}
    OBVIOUS
  <2> DEFINE v == [verb[a] EXCEPT !.prior = p]
  <2>2. /\ v \in VerbRecord /\ v.at = verb[a].at /\ v.fact = verb[a].fact
        /\ verb' = [verb EXCEPT ![a] = v]
    BY <1>1, <1>2, <1>8, <2>1 DEF Demote, VerbRecord
  <2>3. SaysSomething(v)
    BY <1>1, <2>2 DEF SaysSomething
  <2> HIDE DEF v
  <2>4. CurateUpdate(f, "rejected", {a}) /\ "rejected" \in Decisions
    BY <1>8 DEF Demote, Decisions
  <2>5. QED
    BY <1>1, <1>6, <2>2, <2>3, <2>4, OneVerbMoves
<1>9. CASE FinishRun(a)
  <2> DEFINE v == [IdleVerb EXCEPT !.at = "succeeded", !.fact = verb[a].fact]
  <2>1. v \in VerbRecord /\ SaysSomething(v)
    BY <1>2, CurationBlanks DEF VerbRecord, SaysSomething, Writing
  <2>2. /\ verb' = [verb EXCEPT ![a] = v] /\ undisturbed' = undisturbed \ {a}
        /\ UNCHANGED <<aspect, subject, loaded, linked, decision, answer>>
    BY <1>9 DEF FinishRun
  <2>3. standing' \in Sayings
    BY <1>1, <1>2, <1>9 DEF FinishRun
  <2> HIDE DEF v
  <2>4. undisturbed' \subseteq Verbs
    BY <1>1, <2>2
  <2>5. QED
    BY <1>1, <2>1, <2>2, <2>3, <2>4, OneVerbMoves
<1>10. CASE Stops(a)
  <2> DEFINE v == [IdleVerb EXCEPT !.at = "stopped"]
  <2>1. v \in VerbRecord /\ SaysSomething(v)
    BY CurationBlanks DEF VerbRecord, SaysSomething, Writing
  <2>2. /\ verb' = [verb EXCEPT ![a] = v] /\ undisturbed' = undisturbed \ {a}
        /\ UNCHANGED <<aspect, subject, loaded, linked, decision, answer, standing>>
    BY <1>10 DEF Stops
  <2> HIDE DEF v
  <2>3. undisturbed' \subseteq Verbs
    BY <1>1, <2>2
  <2>4. QED
    BY <1>1, <2>1, <2>2, <2>3, OneVerbMoves
<1>11. QED
  BY <1>4, <1>5, <1>7, <1>8, <1>9, <1>10

LEMMA FollowersAreTyped ==
    ASSUME CurationTyped, Curate \/ ReadApproved \/ ReadRows \/ Search
    PROVE  CurationTyped'
<1>1. /\ aspect \in Aspects /\ subject \in SubjectRecord
      /\ loaded \subseteq Meanings /\ linked \subseteq Meanings
      /\ decision \in [Meanings -> Decisions] /\ verb \in [Verbs -> VerbRecord]
      /\ answer \in AnswerRecord /\ undisturbed \subseteq Verbs /\ standing \in Sayings
      /\ \A a \in Verbs : SaysSomething(verb[a])
      /\ Unsaid \in Sayings /\ Meanings \subseteq Sayings
  BY CurationTypedIs DEF Sayings
<1>2. CASE Curate
  <2>1. ShownFacts \subseteq Meanings
    BY <1>1 DEF ShownFacts, FactsAbout, OnPages, Candidates, VerdictsFor, Protos, PhotoFacts
  <2>2. PICK f \in ShownFacts, to \in Decisions : CurateUpdate(f, to, {})
    BY <1>2 DEF Curate
  <2>3. /\ decision' \in [Meanings -> Decisions] /\ undisturbed' \subseteq Verbs
        /\ standing' \in Sayings /\ answer' \in AnswerRecord
        /\ UNCHANGED <<aspect, subject, loaded, linked>>
    BY <1>1, <2>1, <2>2, CurationBlanks DEF CurateUpdate
  <2>4. QED
    BY <1>1, <1>2, <2>3, CurationAre DEF Curate
<1>3. ASSUME answer' \in AnswerRecord,
             UNCHANGED <<aspect, subject, loaded, linked, decision, verb, undisturbed, standing>>
      PROVE  CurationTyped'
  BY <1>1, <1>3, CurationAre
<1>4. ASSUME NEW f \in Sayings, NEW at \in {"none", "read", "landed", "pending", "create", "search"}
      PROVE  [at |-> at, fact |-> f] \in AnswerRecord
  BY DEF AnswerRecord
<1>5. CASE ReadApproved
  <2>1. Approved \subseteq Sayings
    BY <1>1 DEF Approved
  <2>2. QED
    BY <1>1, <1>3, <1>4, <1>5, <2>1 DEF ReadApproved
<1>6. CASE Search
  <2>1. LabelsFromGraph \subseteq Sayings
    BY <1>1 DEF LabelsFromGraph
  <2>2. QED
    BY <1>1, <1>3, <1>4, <1>6, <2>1 DEF Search
<1>7. CASE ReadRows
  <2>1. PICK item : item = Item(answer.fact)
    OBVIOUS
  <2>2. item \in {"none", "create", "pending", "landed"}
    BY <2>1 DEF Item
  <2>3. [answer EXCEPT !.at = item] \in AnswerRecord
    BY <1>1, <2>2 DEF AnswerRecord
  <2>4. QED
    BY <1>3, <1>7, <2>1, <2>3, CurationBlanks DEF ReadRows
<1>8. QED
  BY <1>2, <1>5, <1>6, <1>7

LEMMA CurationTypedKept == CurationTyped /\ [CurationNext]_curationVars => CurationTyped'
<1> SUFFICES ASSUME CurationTyped, [CurationNext]_curationVars PROVE CurationTyped'
  OBVIOUS
<1>1. CASE UNCHANGED curationVars
  BY <1>1, CurationTypedIs, CurationAre DEF curationVars
<1>2. QED
  BY <1>1, RowsAreTyped, VerbsBegin, VerbsGoOn, FollowersAreTyped DEF CurationNext

-----------------------------------------------------------------------------
(* The readers of the photo table.  That a walk shows photos is part of    *)
(* ListingsInv; here are the table and the rest of the walk.               *)

WalkStates == {"idle", "paging", "anchored", "older", "newer", "picked", "fallback", "done", "opened"}

WalkParts(w) == w.at \in WalkStates /\ w.older \in Seq(Shots) /\ w.cuts \subseteq Times

TableTyped ==
    /\ gallery \in [Shots -> Listed]
    /\ hides \in [shots : SUBSET Shots, user : BOOLEAN]
    /\ writes \in 0..MaxWrites

ListingsTyped ==
    /\ ListingsInv /\ TableTyped /\ WalkParts(walk)
    /\ viewer \in {"me", "anonymous"} /\ filter \in {"off", "strict", "lenient"}

LEMMA ListingTypesFollow == ListingsTyped => ListingTypeOK
<1> SUFFICES ASSUME ListingsTyped PROVE ListingTypeOK
  OBVIOUS
<1>1. feed \in Feeds /\ walk.seen \in Seq(Shots) /\ walk.steady \subseteq Shots
  BY DEF ListingsTyped, ListingsInv, ReadersTyped, IsWalk
<1>2. walk.at \in WalkStates /\ walk.older \in Seq(Shots) /\ walk.cuts \subseteq Times
  BY DEF ListingsTyped, WalkParts
<1>3. ASSUME NEW q \in Seq(Shots) PROVE Range(q) \subseteq Shots
  <2>1. \A i \in DOMAIN q : q[i] \in Shots
    OBVIOUS
  <2>2. QED
    BY <2>1 DEF Range
<1>4. Range(walk.seen) \cup Range(walk.older) \cup walk.steady \subseteq Shots
  BY <1>1, <1>2, <1>3
<1>5. QED
  BY <1>1, <1>2, <1>4 DEF ListingsTyped, TableTyped, ListingTypeOK, WalkStates

LEMMA TimesAre == (\A t \in 0..3 : t \in Times \cup {0}) /\ 3 \in Times
  BY DEF Times

LEMMA PlainIsListed == PlainRow \in Listed
  BY DEF PlainRow, Listed, Times

LEMMA FirstTablesAreListed == ASSUME NEW f \in Feeds PROVE RowsFor(f) \subseteq Listed
<1>1. \A t \in 0..3 : /\ [PlainRow EXCEPT !.at = t] \in Listed
                      /\ [PlainRow EXCEPT !.at = t, !.owner = "me"] \in Listed
                      /\ [PlainRow EXCEPT !.at = t, !.featured = TRUE] \in Listed
  BY PlainIsListed, TimesAre DEF Listed
<1>2. \A n \in 0..1 : [PlainRow EXCEPT !.liked = n] \in Listed /\ [PlainRow EXCEPT !.name = n] \in Listed
  BY PlainIsListed DEF Listed
<1>3. \A x \in BOOLEAN : [PlainRow EXCEPT !.featured = x, !.analysis = "fails"] \in Listed
  BY PlainIsListed DEF Listed
<1>4. 0..2 \subseteq 0..3 /\ 2 \in 0..3
  OBVIOUS
<1>5. CASE f \in {"recent", "user", "mine", "sitemap"}
  <2>1. ASSUME NEW r \in RowsFor(f) PROVE r \in Listed
    <3>1. \E t \in 0..2 : r \in {[PlainRow EXCEPT !.at = t], [PlainRow EXCEPT !.at = t, !.owner = "me"],
                                 [PlainRow EXCEPT !.at = t, !.featured = TRUE]}
      BY <1>5, <2>1 DEF RowsFor
    <3>2. QED
      BY <1>1, <1>4, <3>1
  <2>2. QED
    BY <2>1
<1>6. CASE f \in {"best", "welcome", "map", "timeline"}
  <2>1. ASSUME NEW r \in RowsFor(f) PROVE r \in Listed
    <3>1. CASE f \in {"best", "welcome"}
      <4>1. \E n \in 0..1 : r = [PlainRow EXCEPT !.liked = n]
        BY <2>1, <3>1 DEF RowsFor
      <4>2. QED
        BY <1>2, <4>1
    <3>2. CASE f = "map"
      <4>1. r = PlainRow \/ \E x \in BOOLEAN : r = [PlainRow EXCEPT !.featured = x, !.analysis = "fails"]
        BY <2>1, <3>2 DEF RowsFor
      <4>2. QED
        BY <1>3, <4>1, PlainIsListed
    <3>3. CASE f = "timeline"
      <4>1. r = [PlainRow EXCEPT !.at = 2] \/ \E n \in 0..1 : r = [PlainRow EXCEPT !.name = n]
        BY <2>1, <3>3 DEF RowsFor
      <4>2. QED
        BY <1>1, <1>2, <1>4, <4>1
    <3>4. QED
      BY <1>6, <3>1, <3>2, <3>3
  <2>2. QED
    BY <2>1
<1>7. QED
  BY <1>5, <1>6 DEF Feeds, CursorFeeds

LEMMA ListingsTypedBegins == ListingsInit => ListingsTyped
<1> SUFFICES ASSUME ListingsInit PROVE ListingsTyped
  OBVIOUS
<1>1. PICK f \in Feeds : ListingsStart(f)
  BY DEF ListingsInit
<1>2. gallery \in [Shots -> Listed]
  BY <1>1, FirstTablesAreListed DEF ListingsStart
<1>3. hides \in [shots : SUBSET Shots, user : BOOLEAN]
  BY <1>1 DEF ListingsStart
<1>4. writes \in 0..MaxWrites
  BY <1>1, ListingsAssumption DEF ListingsStart
<1>5. WalkParts(walk)
  BY <1>1 DEF ListingsStart, NewWalk, WalkParts, WalkStates
<1>6. viewer \in {"me", "anonymous"}
  BY <1>1 DEF ListingsStart, ReadersOf
<1>7. filter \in {"off", "strict", "lenient"}
  BY <1>1 DEF ListingsStart, FiltersOf
<1>8. QED
  BY <1>2, <1>3, <1>4, <1>5, <1>6, <1>7, ListingsBegin DEF ListingsTyped, TableTyped

\* The table changes; the walk goes on.
LEMMA WritesAreTyped ==
    ASSUME ListingsTyped, TableChanges
    PROVE  /\ TableTyped' /\ WalkParts(walk)' /\ UNCHANGED <<viewer, filter>>
<1>1. /\ gallery \in [Shots -> Listed] /\ hides \in [shots : SUBSET Shots, user : BOOLEAN]
      /\ writes \in 0..MaxWrites /\ WalkParts(walk) /\ IsWalk(walk)
  BY DEF ListingsTyped, TableTyped, ListingsInv, ReadersTyped
<1>2. ASSUME TableWritten
      PROVE  writes' \in 0..MaxWrites /\ WalkParts(walk)' /\ UNCHANGED <<viewer, filter>>
  <2>1. writes' \in 0..MaxWrites /\ UNCHANGED <<viewer, filter>>
    BY <1>1, <1>2, ListingsAssumption DEF TableWritten
  <2>2. PICK same : walk' = [walk EXCEPT !.quiet = FALSE, !.steady = same]
    BY <1>2 DEF TableWritten
  <2>3. walk'.at = walk.at /\ walk'.older = walk.older /\ walk'.cuts = walk.cuts
    BY <1>1, <2>2 DEF IsWalk
  <2>4. QED
    BY <1>1, <2>1, <2>3 DEF WalkParts
<1>3. ASSUME NEW s \in Shots, NEW r \in Listed, RowBecomes(s, r)
      PROVE  gallery' \in [Shots -> Listed] /\ UNCHANGED hides /\ TableWritten
  BY <1>1, <1>3 DEF RowBecomes
<1>4. ASSUME NEW h \in [shots : SUBSET Shots, user : BOOLEAN], Hides(h)
      PROVE  hides' \in [shots : SUBSET Shots, user : BOOLEAN] /\ UNCHANGED gallery /\ TableWritten
  BY <1>4 DEF Hides
<1>5. ASSUME NEW s \in Shots
      PROVE  /\ \A t \in Times : [gallery[s] EXCEPT !.status = "completed", !.at = t] \in Listed
             /\ [gallery[s] EXCEPT !.gone = TRUE] \in Listed
             /\ [gallery[s] EXCEPT !.featured = ~ gallery[s].featured] \in Listed
             /\ [gallery[s] EXCEPT !.liked = 1 - gallery[s].liked] \in Listed
             /\ \A a \in {"fits", "fails"} : [gallery[s] EXCEPT !.analysis = a] \in Listed
  <2>1. gallery[s] \in Listed /\ gallery[s].liked \in 0..1
    BY <1>1, <1>5 DEF Listed
  <2>2. 1 - gallery[s].liked \in 0..1
    BY <2>1
  <2>3. (~ gallery[s].featured) \in BOOLEAN
    OBVIOUS
  <2> DEFINE other == ~ gallery[s].featured
  <2> HIDE DEF other
  <2>4. [gallery[s] EXCEPT !.featured = other] \in Listed
    <3>1. other \in BOOLEAN
      BY <2>3 DEF other
    <3>2. QED
      BY <2>1, <3>1 DEF Listed
  <2>5. [gallery[s] EXCEPT !.featured = ~ gallery[s].featured] \in Listed
    BY <2>4 DEF other
  <2>6. [gallery[s] EXCEPT !.liked = 1 - gallery[s].liked] \in Listed
    BY <2>1, <2>2 DEF Listed
  <2>7. QED
    BY <2>1, <2>5, <2>6 DEF Listed
<1>6. ASSUME NEW s \in Shots, RowAppears(s)
      PROVE  gallery' \in [Shots -> Listed] /\ UNCHANGED hides /\ TableWritten
  <2>1. \A o \in {"me", "you"}, public \in BOOLEAN :
           [PlainRow EXCEPT !.at = 3, !.owner = o, !.status = "authorized", !.public = public] \in Listed
    BY PlainIsListed, TimesAre DEF Listed
  <2>2. PICK mine \in BOOLEAN, public \in BOOLEAN :
           gallery' = [gallery EXCEPT ![s] =
              [PlainRow EXCEPT !.at = 3, !.owner = IF mine THEN "me" ELSE "you",
                               !.status = "authorized", !.public = public]]
    BY <1>6 DEF RowAppears
  <2>3. PICK o \in {"me", "you"} : o = IF mine THEN "me" ELSE "you"
    OBVIOUS
  <2>4. gallery' = [gallery EXCEPT ![s] =
              [PlainRow EXCEPT !.at = 3, !.owner = o, !.status = "authorized", !.public = public]]
    BY <2>2, <2>3
  <2>5. QED
    BY <1>1, <1>6, <2>1, <2>4 DEF RowAppears
<1>7. ASSUME NEW s \in Shots,
             \/ RowCompletes(s) \/ RowGoes(s) \/ edit_photo(s) \/ Scored(s) \/ set_photo_analysis(s)
      PROVE  gallery' \in [Shots -> Listed] /\ UNCHANGED hides /\ TableWritten
  BY <1>3, <1>5, <1>7 DEF RowCompletes, RowGoes, edit_photo, Scored, set_photo_analysis
<1>8. ASSUME HidesOrShowsUser \/ \E s \in Shots : HidesOrShowsPhoto(s)
      PROVE  /\ hides' \in [shots : SUBSET Shots, user : BOOLEAN]
             /\ UNCHANGED gallery /\ TableWritten
  <2>1. \A S \in SUBSET Shots : [hides EXCEPT !.shots = S] \in [shots : SUBSET Shots, user : BOOLEAN]
    BY <1>1
  <2>2. hides.shots \in SUBSET Shots
    BY <1>1
  <2>3. \A yes \in BOOLEAN : [hides EXCEPT !.user = yes] \in [shots : SUBSET Shots, user : BOOLEAN]
    BY <1>1
  <2>4. CASE HidesOrShowsUser
    <3>1. (~ hides.user) \in BOOLEAN
      OBVIOUS
    <3>2. QED
      BY <1>4, <2>3, <2>4, <3>1 DEF HidesOrShowsUser
  <2>5. ASSUME NEW s \in Shots, HidesOrShowsPhoto(s)
        PROVE  /\ hides' \in [shots : SUBSET Shots, user : BOOLEAN]
               /\ UNCHANGED gallery /\ TableWritten
    <3>1. PICK S : S = IF s \in hides.shots THEN hides.shots \ {s} ELSE hides.shots \cup {s}
      OBVIOUS
    <3>2. S \in SUBSET Shots
      BY <2>2, <3>1
    <3>3. Hides([hides EXCEPT !.shots = S])
      BY <2>5, <3>1 DEF HidesOrShowsPhoto
    <3>4. QED
      BY <1>4, <2>1, <3>2, <3>3
  <2>6. QED
    BY <1>8, <2>4, <2>5
<1>9. TableWritten /\ gallery' \in [Shots -> Listed]
      /\ hides' \in [shots : SUBSET Shots, user : BOOLEAN]
  BY <1>1, <1>6, <1>7, <1>8 DEF TableChanges
<1>10. QED
  BY <1>2, <1>9 DEF TableTyped

\* A reader walks on.
LEMMA WalkTypesStart ==
    ASSUME ListingsTyped
    PROVE  /\ IsWalk(walk) /\ WalkParts(walk)
           /\ walk.at = "idle" => IsWalk(StartOfWalk) /\ WalkParts(StartOfWalk)
<1>1. IsWalk(walk) /\ WalkParts(walk)
  BY DEF ListingsTyped, ListingsInv, ReadersTyped
<1>2. /\ StartOfWalk.at = walk.at /\ StartOfWalk.older = walk.older
      /\ StartOfWalk.cuts = walk.cuts
  <2>1. PICK shown : StartOfWalk = [walk EXCEPT !.steady = shown]
    BY DEF StartOfWalk
  <2>2. QED
    BY <1>1, <2>1 DEF IsWalk
<1>3. walk.at = "idle" => IsWalk(StartOfWalk)
  BY WalkStarts DEF ListingsTyped
<1>4. QED
  BY <1>1, <1>2, <1>3 DEF WalkParts

LEMMA WalkGoes ==
    ASSUME ListingsTyped, NEW w, Walks(w), WalkParts(w)
    PROVE  TableTyped' /\ WalkParts(walk)' /\ UNCHANGED <<viewer, filter>>
<1>1. TableTyped /\ UNCHANGED <<gallery, hides, writes>> /\ walk' = w /\ UNCHANGED <<viewer, filter>>
  BY DEF ListingsTyped, Walks
<1>2. QED
  BY <1>1 DEF TableTyped, WalkParts

LEMMA PagesAreTyped ==
    ASSUME ListingsTyped, NEW f \in CursorFeeds, GetsPage(f)
    PROVE  TableTyped' /\ WalkParts(walk)' /\ UNCHANGED <<viewer, filter>>
<1>1. gallery \in [Shots -> Listed] /\ PageSize \in Nat \ {0}
  BY ListingsAssumption DEF ListingsTyped, TableTyped
<1> DEFINE w == IF walk.at = "idle" THEN StartOfWalk ELSE walk
<1>3. IsWalk(w) /\ WalkParts(w)
  BY WalkTypesStart
<1> DEFINE S == {s \in Shots : Shown(s) /\ Beyond(s)}
<1>4. PICK q \in Orderings(S) :
         LET page == FirstOf(PageSize, q) IN
         IF Len(q) > PageSize
           THEN Walks([w EXCEPT !.at = "paging", !.seen = @ \o page,
                                !.cursor = CursorAt(page[PageSize]),
                                !.cuts = @ \cup {gallery[page[PageSize]].at}])
           ELSE Walks([w EXCEPT !.at = "done", !.seen = @ \o page])
  BY ZenonT(30) DEF GetsPage
<1> HIDE DEF w
<1>5. q \in Seq(Shots) /\ \A i \in 1..Len(q) : q[i] \in S
  <2>1. S \in SUBSET Shots
    OBVIOUS
  <2>2. IsAnswer(q, S)
    BY <2>1, OrderedAnswers
  <2>3. QED
    BY <2>1, <2>2 DEF IsAnswer
<1> DEFINE page == FirstOf(PageSize, q)
<1>7. CASE Len(q) > PageSize
  <2>1. page[PageSize] \in S
    <3>1. Len(page) = PageSize /\ page[PageSize] = q[PageSize] /\ PageSize \in 1..Len(q)
      BY <1>1, <1>5, <1>7, FirstOfAnswers
    <3>2. QED
      BY <1>5, <3>1
  <2>2. gallery[page[PageSize]].at \in Times
    <3>1. page[PageSize] \in Shots /\ Present(page[PageSize])
      BY <2>1 DEF Shown
    <3>2. QED
      BY <1>1, <3>1 DEF Present, Listed
  <2> DEFINE seen == w.seen \o page
             cursor == CursorAt(page[PageSize])
             cuts == w.cuts \cup {gallery[page[PageSize]].at}
             u == [w EXCEPT !.at = "paging", !.seen = seen, !.cursor = cursor, !.cuts = cuts]
  <2>3. Walks(u)
    BY <1>4, <1>7
  <2>4. cuts \subseteq Times
    BY <1>3, <2>2 DEF WalkParts
  <2> HIDE DEF seen, cursor, cuts
  <2>5. u.at = "paging" /\ u.older = w.older /\ u.cuts = cuts
    BY <1>3 DEF IsWalk
  <2>6. WalkParts(u)
    BY <1>3, <2>4, <2>5 DEF WalkParts, WalkStates
  <2> HIDE DEF u
  <2>7. QED
    BY <2>3, <2>6, WalkGoes
<1>8. CASE ~ Len(q) > PageSize
  <2> DEFINE seen == w.seen \o page
             u == [w EXCEPT !.at = "done", !.seen = seen]
  <2>1. Walks(u)
    BY <1>4, <1>8
  <2> HIDE DEF seen
  <2>2. u.at = "done" /\ u.older = w.older /\ u.cuts = w.cuts
    BY <1>3 DEF IsWalk
  <2>3. WalkParts(u)
    BY <1>3, <2>2 DEF WalkParts, WalkStates
  <2>4. QED
    BY <2>1, <2>3, WalkGoes
<1>9. QED
  BY <1>7, <1>8

\* A step that only changes what is read of, and where in the walk it is.
LEMMA WalkMoves ==
    ASSUME ListingsTyped, NEW v, IsWalk(v), WalkParts(v), NEW at \in WalkStates,
           NEW older \in Seq(Shots), NEW u,
           Walks(u), u.at = at, u.older = older, u.cuts = v.cuts
    PROVE  TableTyped' /\ WalkParts(walk)' /\ UNCHANGED <<viewer, filter>>
<1>1. WalkParts(u)
  BY DEF WalkParts
<1>2. QED
  BY <1>1, WalkGoes

LEMMA OpeningsAreTyped ==
    ASSUME ListingsTyped, NEW s, NEW found, OpensShown(s, found)
    PROVE  TableTyped' /\ WalkParts(walk)' /\ UNCHANGED <<viewer, filter>>
<1> DEFINE o == IF found THEN "found" ELSE "missing"
           u == [walk EXCEPT !.at = "opened", !.cursor.id = s, !.opened = o]
<1>1. IsWalk(walk) /\ WalkParts(walk) /\ Walks(u)
  BY WalkTypesStart DEF OpensShown
<1> HIDE DEF o
<1>2. u.at = "opened" /\ u.older = walk.older /\ u.cuts = walk.cuts
  BY <1>1 DEF IsWalk
<1>3. "opened" \in WalkStates /\ walk.older \in Seq(Shots)
  BY <1>1 DEF WalkParts, WalkStates
<1> HIDE DEF u
<1>4. QED
  BY <1>1, <1>2, <1>3, WalkMoves

LEMMA OffsetsAreTyped ==
    ASSUME ListingsTyped, GetsSitemapTotal \/ GetsSitemap \/ GetsNearest \/ GetsGlobalBest
    PROVE  TableTyped' /\ WalkParts(walk)' /\ UNCHANGED <<viewer, filter>>
<1>1. IsWalk(walk) /\ WalkParts(walk)
  BY WalkTypesStart
<1>2. {"paging", "done", "fallback"} \subseteq WalkStates
  BY DEF WalkStates
<1>3. \A v : WalkParts(v) => v.older \in Seq(Shots)
  BY DEF WalkParts
<1>4. CASE GetsSitemapTotal
  <2> DEFINE at == IF StartOfWalk.steady = {} THEN "done" ELSE "paging"
             n == Cardinality(StartOfWalk.steady)
             u == [StartOfWalk EXCEPT !.at = at, !.cursor.at = n]
  <2>1. Walks(u) /\ IsWalk(StartOfWalk) /\ WalkParts(StartOfWalk) /\ at \in WalkStates
    BY <1>2, <1>4, WalkTypesStart DEF GetsSitemapTotal
  <2> HIDE DEF at, n
  <2>2. u.at = at /\ u.older = StartOfWalk.older /\ u.cuts = StartOfWalk.cuts
    BY <2>1 DEF IsWalk
  <2> HIDE DEF u
  <2>3. QED
    BY <1>3, <2>1, <2>2, WalkMoves
<1>5. CASE GetsSitemap
  <2> DEFINE next == walk.cursor.id + PageSize
             at == IF next < walk.cursor.at THEN "paging" ELSE "done"
  <2>1. PICK q : Walks([walk EXCEPT !.at = at,
                            !.seen = @ \o SubSeq(q, walk.cursor.id + 1,
                                                 IF next < Len(q) THEN next ELSE Len(q)),
                            !.cursor.id = next])
    BY <1>5, ZenonT(30) DEF GetsSitemap
  <2> DEFINE seen == walk.seen \o SubSeq(q, walk.cursor.id + 1,
                                         IF next < Len(q) THEN next ELSE Len(q))
             u == [walk EXCEPT !.at = at, !.seen = seen, !.cursor.id = next]
  <2>2. Walks(u) /\ at \in WalkStates
    BY <1>2, <2>1
  <2> HIDE DEF at, seen, next
  <2>3. u.at = at /\ u.older = walk.older /\ u.cuts = walk.cuts
    BY <1>1 DEF IsWalk
  <2> HIDE DEF u
  <2>4. QED
    BY <1>1, <1>3, <2>2, <2>3, WalkMoves
<1>6. CASE GetsNearest
  <2>1. IsWalk(StartOfWalk) /\ WalkParts(StartOfWalk)
    <3>1. walk.at = "idle"
      BY <1>6, ZenonT(30) DEF GetsNearest
    <3>2. QED
      BY <3>1, WalkTypesStart
  <2> DEFINE far == [StartOfWalk EXCEPT !.at = "fallback"]
             near(s) == [StartOfWalk EXCEPT !.at = "done", !.seen = <<s>>]
  <2>2. far.at = "fallback" /\ far.older = StartOfWalk.older /\ far.cuts = StartOfWalk.cuts
    BY <2>1 DEF IsWalk
  <2>3. ASSUME NEW s
        PROVE  /\ near(s).at = "done" /\ near(s).older = StartOfWalk.older
               /\ near(s).cuts = StartOfWalk.cuts
    <3> DEFINE seen == <<s>>
    <3> HIDE DEF seen
    <3>1. LET u == [StartOfWalk EXCEPT !.at = "done", !.seen = seen]
          IN  u.at = "done" /\ u.older = StartOfWalk.older /\ u.cuts = StartOfWalk.cuts
      BY <2>1 DEF IsWalk
    <3>2. QED
      BY <3>1 DEF seen
  <2>4. Walks(far) \/ \E s : Walks(near(s))
    BY <1>6, ZenonT(30) DEF GetsNearest
  <2> HIDE DEF far, near
  <2>5. QED
    BY <1>2, <1>3, <2>1, <2>2, <2>3, <2>4, WalkMoves
<1>7. CASE GetsGlobalBest
  <2>1. PICK q : Walks([walk EXCEPT !.at = "done", !.seen = FirstOf(1, q)])
    BY <1>7, ZenonT(30) DEF GetsGlobalBest
  <2> DEFINE seen == FirstOf(1, q)
             u == [walk EXCEPT !.at = "done", !.seen = seen]
  <2>2. Walks(u)
    BY <2>1
  <2> HIDE DEF seen
  <2>3. u.at = "done" /\ u.older = walk.older /\ u.cuts = walk.cuts
    BY <1>1 DEF IsWalk
  <2> HIDE DEF u
  <2>4. QED
    BY <1>1, <1>2, <1>3, <2>2, <2>3, WalkMoves
<1>8. QED
  BY <1>4, <1>5, <1>6, <1>7

\* The map's picks are put in any order.
LEMMA NothingInOrder == SetToSeq({}) \in Seq(Shots)
<1>1. <<>> \in [1..0 -> {}] /\ IsInjective(<<>>)
  BY DEF IsInjective
<1>2. Cardinality({}) = 0
  BY FS_EmptySet
<1>3. SetToSeq({}) \in [1..0 -> {}]
  BY <1>1, <1>2 DEF SetToSeq
<1>4. QED
  BY <1>3

LEMMA PickInOrder == ASSUME NEW s \in Shots PROVE SetToSeq({s}) \in Seq(Shots)
<1>1. <<s>> \in [1..1 -> {s}] /\ IsInjective(<<s>>)
  BY DEF IsInjective
<1>2. Cardinality({s}) = 1
  BY FS_Singleton
<1>3. SetToSeq({s}) \in [1..1 -> {s}]
  BY <1>1, <1>2 DEF SetToSeq
<1>4. SetToSeq({s}) \in [1..1 -> Shots]
  BY <1>3
<1>5. \A n \in Nat : \A f \in [1..n -> Shots] : f \in Seq(Shots)
  OBVIOUS
<1>6. QED
  BY <1>4, <1>5

LEMMA MapsAreTyped ==
    ASSUME ListingsTyped, GetsPicks \/ GetsBox
    PROVE  TableTyped' /\ WalkParts(walk)' /\ UNCHANGED <<viewer, filter>>
<1>1. IsWalk(walk) /\ WalkParts(walk)
  BY WalkTypesStart
<1>2. {"picked", "done"} \subseteq WalkStates /\ <<>> \in Seq(Shots)
  BY DEF WalkStates
<1>3. CASE GetsPicks
  <2>1. IsWalk(StartOfWalk) /\ WalkParts(StartOfWalk)
    <3>1. walk.at = "idle"
      BY <1>3, ZenonT(30) DEF GetsPicks
    <3>2. QED
      BY <3>1, WalkTypesStart
  <2>2. PICK picks \in {{}} \cup {{s} : s \in Shots} :
           \E q : Walks([StartOfWalk EXCEPT !.at = "picked", !.seen = q, !.older = SetToSeq(picks)])
    BY <1>3, ZenonT(30) DEF GetsPicks
  <2>3. PICK q : Walks([StartOfWalk EXCEPT !.at = "picked", !.seen = q, !.older = SetToSeq(picks)])
    BY <2>2, ZenonT(30)
  <2>4. SetToSeq(picks) \in Seq(Shots)
    <3>1. CASE picks = {}
      BY <3>1, NothingInOrder
    <3>2. CASE \E s \in Shots : picks = {s}
      BY <3>2, PickInOrder
    <3>3. QED
      BY <3>1, <3>2
  <2> DEFINE older == SetToSeq(picks)
             u == [StartOfWalk EXCEPT !.at = "picked", !.seen = q, !.older = older]
  <2>5. Walks(u) /\ older \in Seq(Shots)
    BY <2>3, <2>4
  <2> HIDE DEF older
  <2>6. u.at = "picked" /\ u.older = older /\ u.cuts = StartOfWalk.cuts
    BY <2>1 DEF IsWalk
  <2> HIDE DEF u
  <2>7. QED
    BY <1>2, <2>1, <2>5, <2>6, WalkMoves
<1>4. CASE GetsBox
  <2> DEFINE room == PageSize + 1 - Len(walk.seen)
  <2>1. PICK q : Walks([walk EXCEPT !.at = "done", !.older = <<>>,
                               !.seen = IF room > 0 THEN @ \o FirstOf(room, q) ELSE @])
    BY <1>4, ZenonT(30) DEF GetsBox
  <2> DEFINE seen == IF room > 0 THEN walk.seen \o FirstOf(room, q) ELSE walk.seen
             none == <<>>
             u == [walk EXCEPT !.at = "done", !.older = none, !.seen = seen]
  <2>2. Walks(u) /\ none \in Seq(Shots)
    BY <1>2, <2>1
  <2> HIDE DEF seen, room, none
  <2>3. u.at = "done" /\ u.older = none /\ u.cuts = walk.cuts
    BY <1>1 DEF IsWalk
  <2> HIDE DEF u
  <2>4. QED
    BY <1>1, <1>2, <2>2, <2>3, WalkMoves
<1>5. QED
  BY <1>3, <1>4

LEMMA TimelinesAreTyped ==
    ASSUME ListingsTyped,
           (\E s \in Shots : TimelineAnchor(s)) \/ TimelineOlder \/ TimelineNewer \/ TimelineAnswers
    PROVE  TableTyped' /\ WalkParts(walk)' /\ UNCHANGED <<viewer, filter>>
<1>1. IsWalk(walk) /\ WalkParts(walk) /\ walk.older \in Seq(Shots) /\ PageSize \in Nat \ {0}
  BY WalkTypesStart, ListingsAssumption DEF WalkParts
<1>2. {"anchored", "older", "newer", "done"} \subseteq WalkStates
  BY DEF WalkStates
<1>3. ASSUME NEW s \in Shots, TimelineAnchor(s)
      PROVE  TableTyped' /\ WalkParts(walk)' /\ UNCHANGED <<viewer, filter>>
  <2>1. walk.at = "idle"
    BY <1>3, ZenonT(30) DEF TimelineAnchor
  <2>2. IsWalk(StartOfWalk) /\ WalkParts(StartOfWalk)
    BY <2>1, WalkTypesStart
  <2>3. StartOfWalk.older \in Seq(Shots)
    BY <2>2 DEF WalkParts
  <2> DEFINE key == Position(s)
             u == [StartOfWalk EXCEPT !.at = "anchored", !.cursor = key]
  <2>4. Walks(u)
    BY <1>3, ZenonT(30) DEF TimelineAnchor
  <2> HIDE DEF key
  <2>5. u.at = "anchored" /\ u.older = StartOfWalk.older /\ u.cuts = StartOfWalk.cuts
    BY <2>2 DEF IsWalk
  <2> HIDE DEF u
  <2>6. QED
    BY <1>2, <2>2, <2>3, <2>4, <2>5, WalkMoves
<1>4. CASE TimelineOlder
  <2> DEFINE S == {s \in Shots : Shown(s) /\ OlderThanAnchor(Position(s), walk.cursor)}
  <2>1. PICK q \in Orderings(S) :
         Walks([walk EXCEPT !.at = "older", !.moreOlder = Len(q) > PageSize,
                            !.older = IF Len(q) > PageSize
                                        THEN SubSeq(q, Len(q) - PageSize + 1, Len(q)) ELSE q])
    BY <1>4, ZenonT(30) DEF TimelineOlder
  <2>2. q \in Seq(Shots)
    <3>1. S \in SUBSET Shots
      OBVIOUS
    <3>2. IsAnswer(q, S)
      BY <3>1, OrderedAnswers
    <3>3. QED
      BY <3>2 DEF IsAnswer
  <2> DEFINE older == IF Len(q) > PageSize
                        THEN SubSeq(q, Len(q) - PageSize + 1, Len(q)) ELSE q
             more == Len(q) > PageSize
             u == [walk EXCEPT !.at = "older", !.moreOlder = more, !.older = older]
  <2>3. older \in Seq(Shots)
    BY <1>1, <2>2, EndOfAnswers
  <2>4. Walks(u)
    BY <2>1
  <2> HIDE DEF older, more
  <2>5. u.at = "older" /\ u.older = older /\ u.cuts = walk.cuts
    BY <1>1 DEF IsWalk
  <2> HIDE DEF u
  <2>6. QED
    BY <1>1, <1>2, <2>3, <2>4, <2>5, WalkMoves
<1>5. CASE TimelineNewer
  <2>1. PICK q : Walks([walk EXCEPT !.at = "newer", !.moreNewer = Len(q) > PageSize,
                                    !.seen = FirstOf(PageSize, q)])
    BY <1>5, ZenonT(30) DEF TimelineNewer
  <2> DEFINE more == Len(q) > PageSize
             seen == FirstOf(PageSize, q)
             u == [walk EXCEPT !.at = "newer", !.moreNewer = more, !.seen = seen]
  <2>2. Walks(u)
    BY <2>1
  <2> HIDE DEF more, seen
  <2>3. u.at = "newer" /\ u.older = walk.older /\ u.cuts = walk.cuts
    BY <1>1 DEF IsWalk
  <2> HIDE DEF u
  <2>4. QED
    BY <1>1, <1>2, <2>2, <2>3, WalkMoves
<1>6. CASE TimelineAnswers
  <2> DEFINE seen == walk.older \o (IF Shown(walk.cursor.id) THEN <<walk.cursor.id>> ELSE <<>>)
                                \o walk.seen
             u == [walk EXCEPT !.at = "done", !.seen = seen]
  <2>1. Walks(u)
    BY <1>6 DEF TimelineAnswers
  <2> HIDE DEF seen
  <2>2. u.at = "done" /\ u.older = walk.older /\ u.cuts = walk.cuts
    BY <1>1 DEF IsWalk
  <2> HIDE DEF u
  <2>3. QED
    BY <1>1, <1>2, <2>1, <2>2, WalkMoves
<1>7. QED
  BY <1>3, <1>4, <1>5, <1>6

LEMMA ListingsTypedKept == ListingsTyped /\ [ListingsNext]_listingVars => ListingsTyped'
<1> SUFFICES ASSUME ListingsTyped, [ListingsNext]_listingVars PROVE ListingsTyped'
  OBVIOUS
<1>1. ListingsInv'
  BY ListingsStep DEF ListingsTyped
<1>2. SUFFICES TableTyped' /\ WalkParts(walk)' /\ UNCHANGED <<viewer, filter>>
  BY <1>1, <1>2 DEF ListingsTyped
<1>3. CASE UNCHANGED listingVars
  BY <1>3 DEF listingVars, ListingsTyped, TableTyped, WalkParts
<1>4. CASE TableChanges
  BY <1>4, WritesAreTyped
<1>5. CASE get_recent_activity \/ list_photos \/ get_user_photos \/ get_best_photos
  <2>1. \E f \in CursorFeeds : GetsPage(f)
    BY <1>5 DEF get_recent_activity, list_photos, get_user_photos, get_best_photos, CursorFeeds
  <2>2. QED
    BY <2>1, PagesAreTyped
<1>6. CASE GetsSitemapTotal \/ GetsSitemap \/ GetsNearest \/ GetsGlobalBest
  BY <1>6, OffsetsAreTyped
<1>7. CASE GetsPicks \/ GetsBox
  BY <1>7, MapsAreTyped
<1>8. CASE (\E s \in Shots : TimelineAnchor(s)) \/ TimelineOlder \/ TimelineNewer \/ TimelineAnswers
  BY <1>8, TimelinesAreTyped
<1>9. ASSUME NEW s \in Shots,
             \/ get_photo(s) \/ get_public_photo(s) \/ get_photo_detections(s)
             \/ get_photo_share_metadata(s) \/ mint_share_link(s)
      PROVE  TableTyped' /\ WalkParts(walk)' /\ UNCHANGED <<viewer, filter>>
  <2>1. \E found : OpensShown(s, found)
    BY <1>9, ZenonT(30) DEF get_photo, get_public_photo, get_photo_detections,
                            get_photo_share_metadata, mint_share_link
  <2>2. QED
    BY <2>1, OpeningsAreTyped
<1>10. QED
  BY <1>3, <1>4, <1>5, <1>6, <1>7, <1>8, <1>9 DEF ListingsNext

-----------------------------------------------------------------------------
(* The photo in the browser.  The override's menu only opens as long as    *)
(* there is another version to choose.                                     *)

Stored == [status : {"pending", "uploading", "processing", "completed", "failed"},
           version : 1..MaxVersion, deleted : BOOLEAN, blob : BOOLEAN]
Held == [at : {"idle", "look", "found", "sending", "accepted", "evict", "busy", "failed"},
         version : 1..MaxVersion]
OnServer == [status : RemoteStatus, version : 0..MaxVersion]

BrowserTyped == BrowserTypeOK /\ (dialog => kept.version < MaxVersion)

LEMMA BrowserTypedIs ==
    ASSUME BrowserTyped
    PROVE  /\ kept \in Stored /\ loop \in [Contexts -> Held]
           /\ query \in [Syncs -> {"idle", "asked"} \cup RemoteStatus]
           /\ dialog \in BOOLEAN /\ remote \in OnServer /\ raced \in BOOLEAN
           /\ dialog => kept.version < MaxVersion
  BY DEF BrowserTyped, BrowserTypeOK, Stored, Held, OnServer

LEMMA BrowserAre ==
    ASSUME kept' \in Stored, loop' \in [Contexts -> Held],
           query' \in [Syncs -> {"idle", "asked"} \cup RemoteStatus],
           dialog' \in BOOLEAN, remote' \in OnServer, raced' \in BOOLEAN,
           dialog' => kept'.version < MaxVersion
    PROVE  BrowserTyped'
  BY DEF BrowserTyped, BrowserTypeOK, Stored, Held, OnServer

LEMMA BrowserTypedBegins == BrowserInit => BrowserTyped
<1> SUFFICES ASSUME BrowserInit PROVE BrowserTyped
  OBVIOUS
<1>1. 1 \in 1..MaxVersion /\ 0 \in 0..MaxVersion
  BY BrowserAssumption
<1>2. QED
  BY <1>1 DEF BrowserInit, BrowserTyped, BrowserTypeOK, RemoteStatus

\* The versions a step finds are those the row has had.
LEMMA LoopIsTyped ==
    ASSUME BrowserTyped, NEW c \in Contexts,
           \/ StartLoop(c) \/ StopLoop(c) \/ FindNext(c) \/ TryClaim(c)
           \/ Answered(c) \/ Refused(c) \/ WorkerBusy(c)
           \/ MarkUploaded(c) \/ DeleteBlob(c) \/ ReleaseClaim(c) \/ MarkFailed(c)
           \/ ContextDies(c)
    PROVE  BrowserTyped'
<1>1. /\ kept \in Stored /\ loop \in [Contexts -> Held]
      /\ query \in [Syncs -> {"idle", "asked"} \cup RemoteStatus]
      /\ dialog \in BOOLEAN /\ remote \in OnServer /\ raced \in BOOLEAN
      /\ dialog => kept.version < MaxVersion
  BY BrowserTypedIs
<1>2. UNCHANGED <<query, dialog, raced>>
  BY DEF StartLoop, StopLoop, FindNext, TryClaim, Answered, Refused, WorkerBusy, MarkUploaded,
         DeleteBlob, ReleaseClaim, MarkFailed, ContextDies
<1> DEFINE Ats == {"idle", "look", "found", "sending", "accepted", "evict", "busy", "failed"}
<1>3. ASSUME NEW at \in Ats, Goes(c, at) \/ Forgets(c, at) PROVE loop' \in [Contexts -> Held]
  <2>1. 1 \in 1..MaxVersion /\ loop[c] \in Held
    BY <1>1, BrowserAssumption
  <2>2. [loop[c] EXCEPT !.at = at] \in Held /\ [at |-> at, version |-> 1] \in Held
    BY <1>3, <2>1 DEF Held
  <2>3. QED
    BY <1>1, <1>3, <2>2 DEF Goes, Forgets
<1>4. /\ \A s \in {"pending", "uploading", "processing", "failed", kept.status} :
            [kept EXCEPT !.status = s] \in Stored
      /\ \A b \in BOOLEAN : [kept EXCEPT !.blob = b] \in Stored
      /\ \A s, b : /\ [kept EXCEPT !.status = s].version = kept.version
                   /\ [kept EXCEPT !.blob = b].version = kept.version
  BY <1>1 DEF Stored
<1>5. Sent(c) \in OnServer
  <2>1. loop[c].version \in 0..MaxVersion
    BY <1>1, BrowserAssumption DEF Held
  <2>2. QED
    BY <2>1 DEF Sent, OnServer, RemoteStatus
<1>6. loop' \in [Contexts -> Held]
  <2>1. CASE FindNext(c)
    <3>1. [at |-> "found", version |-> kept.version] \in Held
      BY <1>1 DEF Stored, Held
    <3>2. QED
      BY <1>1, <2>1, <3>1 DEF FindNext
  <2>2. CASE ~ FindNext(c)
    <3>1. \E at \in Ats : Goes(c, at) \/ Forgets(c, at)
      BY <2>2 DEF StartLoop, StopLoop, TryClaim, Answered, Refused, WorkerBusy, MarkUploaded,
                  DeleteBlob, ReleaseClaim, MarkFailed, ContextDies
    <3>2. QED
      BY <1>3, <3>1
  <2>3. QED
    BY <2>1, <2>2
<1>7. kept' \in Stored /\ kept'.version = kept.version
  <2>1. \/ UNCHANGED kept
        \/ \E s \in {"pending", "uploading", "processing", "failed", kept.status} :
              kept' = [kept EXCEPT !.status = s]
        \/ \E b \in BOOLEAN : kept' = [kept EXCEPT !.blob = b]
    <3>1. CASE DeleteBlob(c)
      <4> DEFINE b == kept.blob /\ kept.status \notin {"processing", "completed"}
      <4>1. kept' = [kept EXCEPT !.blob = b]
        BY <3>1 DEF DeleteBlob
      <4>2. b \in BOOLEAN
        OBVIOUS
      <4> HIDE DEF b
      <4>3. QED
        BY <4>1, <4>2
    <3>2. CASE ReleaseClaim(c)
      <4> DEFINE s == IF kept.status = "uploading" THEN "pending" ELSE kept.status
      <4>1. kept' = [kept EXCEPT !.status = s]
        BY <3>2 DEF ReleaseClaim
      <4>2. s \in {"pending", "uploading", "processing", "failed", kept.status}
        OBVIOUS
      <4> HIDE DEF s
      <4>3. QED
        BY <4>1, <4>2
    <3>3. QED
      BY <3>1, <3>2 DEF StartLoop, StopLoop, FindNext, TryClaim, Answered, Refused, WorkerBusy,
                        MarkUploaded, MarkFailed, ContextDies
  <2>2. QED
    BY <1>1, <1>4, <2>1
<1>8. remote' \in OnServer
  BY <1>1, <1>5 DEF StartLoop, StopLoop, FindNext, TryClaim, Answered, Refused, WorkerBusy,
                    MarkUploaded, DeleteBlob, ReleaseClaim, MarkFailed, ContextDies
<1>9. QED
  BY <1>1, <1>2, <1>6, <1>7, <1>8, BrowserAre

LEMMA StatusSyncIsTyped ==
    ASSUME BrowserTyped, NEW y \in Syncs,
           AskStatus(y) \/ HearStatus(y) \/ AskFails(y) \/ WriteStatus(y)
    PROVE  BrowserTyped'
<1>1. /\ kept \in Stored /\ loop \in [Contexts -> Held]
      /\ query \in [Syncs -> {"idle", "asked"} \cup RemoteStatus]
      /\ dialog \in BOOLEAN /\ remote \in OnServer /\ raced \in BOOLEAN
      /\ dialog => kept.version < MaxVersion
  BY BrowserTypedIs
<1>2. UNCHANGED <<loop, dialog, remote>>
  BY DEF AskStatus, HearStatus, AskFails, WriteStatus
<1>3. query' \in [Syncs -> {"idle", "asked"} \cup RemoteStatus]
  <2>1. remote.status \in RemoteStatus
    BY <1>1 DEF OnServer
  <2>2. QED
    BY <1>1, <2>1 DEF AskStatus, HearStatus, AskFails, WriteStatus
<1>4. kept' \in Stored /\ kept'.version = kept.version
  <2>1. CASE WriteStatus(y)
    <3>1. \A told : Written(told) \in Stored /\ Written(told).version = kept.version
      BY <1>1 DEF Written, Stored
    <3>2. QED
      BY <2>1, <3>1 DEF WriteStatus
  <2>2. QED
    BY <1>1, <2>1 DEF AskStatus, HearStatus, AskFails
<1>5. raced' \in BOOLEAN
  BY <1>1 DEF AskStatus, HearStatus, AskFails, WriteStatus
<1>6. QED
  BY <1>1, <1>2, <1>3, <1>4, <1>5, BrowserAre

LEMMA MenuIsTyped ==
    ASSUME BrowserTyped, OpenMenu \/ SetOverride \/ RemoteStep
    PROVE  BrowserTyped'
<1>1. /\ kept \in Stored /\ loop \in [Contexts -> Held]
      /\ query \in [Syncs -> {"idle", "asked"} \cup RemoteStatus]
      /\ dialog \in BOOLEAN /\ remote \in OnServer /\ raced \in BOOLEAN
      /\ dialog => kept.version < MaxVersion
  BY BrowserTypedIs
<1>2. CASE OpenMenu
  BY <1>1, <1>2, BrowserAre DEF OpenMenu
<1>3. CASE SetOverride
  <2>1. kept.version + 1 \in 1..MaxVersion
    BY <1>1, <1>3, BrowserAssumption DEF SetOverride, Stored
  <2> DEFINE k == [kept EXCEPT !.version = kept.version + 1, !.status = "pending"]
  <2>2. k \in Stored
    BY <1>1, <2>1 DEF Stored
  <2>3. kept' = k /\ dialog' = FALSE /\ UNCHANGED <<loop, query, remote>>
    BY <1>3 DEF SetOverride, Requeued
  <2>4. raced' \in BOOLEAN
    BY <1>3 DEF SetOverride
  <2> HIDE DEF k
  <2>5. QED
    BY <1>1, <2>2, <2>3, <2>4, BrowserAre
<1>4. CASE RemoteStep
  <2>1. \A s \in RemoteStatus : [remote EXCEPT !.status = s] \in OnServer
    BY <1>1 DEF OnServer
  <2>2. {"completed", "error", "deleted"} \subseteq RemoteStatus
    BY DEF RemoteStatus
  <2>3. remote' \in OnServer /\ UNCHANGED <<kept, loop, query, dialog, raced>>
    BY <1>4, <2>1, <2>2 DEF RemoteStep
  <2>4. QED
    BY <1>1, <2>3, BrowserAre
<1>5. QED
  BY <1>2, <1>3, <1>4

LEMMA BrowserTypedKept == BrowserTyped /\ [BrowserNext]_browserVars => BrowserTyped'
<1> SUFFICES ASSUME BrowserTyped, [BrowserNext]_browserVars PROVE BrowserTyped'
  OBVIOUS
<1>1. CASE UNCHANGED browserVars
  BY <1>1, BrowserTypedIs, BrowserAre DEF browserVars
<1>2. QED
  BY <1>1, LoopIsTyped, StatusSyncIsTyped, MenuIsTyped DEF BrowserNext

-----------------------------------------------------------------------------
(* The components side by side                                             *)

\* What the component at work keeps, and the others with it, since they stand.
AllTyped ==
    /\ which \in Components
    /\ PushTypeOK /\ OAuthTypeOK /\ MarkTyped /\ AccountsTypeOK /\ AnnotationTyped
    /\ BucketTypeOK /\ StreamTyped /\ GraduationTypeOK /\ PeakTypeOK /\ FilesTypeOK
    /\ StampTypeOK /\ BrowserTyped /\ WebTokensInv /\ TransfersTyped /\ ListingsTyped
    /\ LimitsTyped /\ RendersTyped /\ GenTypeOK /\ PanoTypeOK /\ CurationTyped

LEMMA AllTypedBegins == Init => AllTyped
<1> SUFFICES ASSUME Init PROVE AllTyped
  OBVIOUS
<1>1. PushTypeOK /\ OAuthTypeOK /\ MarkTyped /\ AccountsTypeOK /\ AnnotationTyped
  BY PushTypedBegins, OAuthTypedBegins, MarkTypedBegins, AccountsTypedBegins,
     AnnotationTypedBegins DEF Init
<1>2. BucketTypeOK /\ StreamTyped /\ GraduationTypeOK /\ PeakTypeOK /\ FilesTypeOK
  BY BucketTypedBegins, StreamTypedBegins, GraduationTypedBegins, PeakTypedBegins,
     FilesTypedBegins DEF Init
<1>3. StampTypeOK /\ BrowserTyped /\ WebTokensInv /\ TransfersTyped /\ ListingsTyped
  BY StampTypedBegins, BrowserTypedBegins, WebTokensBegin, TransfersTypedBegins,
     ListingsTypedBegins DEF Init
<1>4. LimitsTyped /\ RendersTyped /\ GenTypeOK /\ PanoTypeOK /\ CurationTyped
  BY LimitsTypedBegins, RendersTypedBegins, PatchesTypedBegins, PanoTypedBegins,
     CurationTypedBegins DEF Init
<1>5. QED
  BY <1>1, <1>2, <1>3, <1>4 DEF Init, AllTyped

\* A step is one of each component, or leaves it as it is.
LEMMA EachSteps ==
    ASSUME [Next]_vars
    PROVE  /\ UNCHANGED which
           /\ [PushNext]_pushVars /\ [OAuthNext]_oauthVars /\ [MarkNext]_markVars
           /\ [AccountsNext]_accountVars /\ [AnnotationsNext]_annotationVars
           /\ [BucketNext]_bucketVars /\ [StreamNext]_streamVars
           /\ [GraduationNext]_graduationVars /\ [PeakNext]_peakVars /\ [FilesNext]_fileVars
           /\ [StampNext]_stampVars /\ [BrowserNext]_browserVars
           /\ [WebTokensNext]_webTokenVars /\ [TransfersNext]_transferVars
           /\ [ListingsNext]_listingVars /\ [LimitsNext]_limitVars
           /\ [RendersNext]_renderVars /\ [GenNext]_genVars /\ [PanoNext]_panoVars
           /\ [CurationNext]_curationVars
<1>1. CASE UNCHANGED vars
  BY <1>1 DEF vars
<1>2. CASE Next
  <2>1. UNCHANGED which
    BY <1>2 DEF Next, OthersKeep
  <2>2. /\ [PushNext]_pushVars /\ [OAuthNext]_oauthVars /\ [MarkNext]_markVars
        /\ [AccountsNext]_accountVars /\ [AnnotationsNext]_annotationVars
    BY <1>2 DEF Next, OthersKeep, Keeps
  <2>3. /\ [BucketNext]_bucketVars /\ [StreamNext]_streamVars
        /\ [GraduationNext]_graduationVars /\ [PeakNext]_peakVars /\ [FilesNext]_fileVars
    BY <1>2 DEF Next, OthersKeep, Keeps
  <2>4. /\ [StampNext]_stampVars /\ [BrowserNext]_browserVars
        /\ [WebTokensNext]_webTokenVars /\ [TransfersNext]_transferVars
        /\ [ListingsNext]_listingVars
    BY <1>2 DEF Next, OthersKeep, Keeps
  <2>5. /\ [LimitsNext]_limitVars
        /\ [RendersNext]_renderVars /\ [GenNext]_genVars /\ [PanoNext]_panoVars
        /\ [CurationNext]_curationVars
    BY <1>2 DEF Next, OthersKeep, Keeps
  <2>6. QED
    BY <2>1, <2>2, <2>3, <2>4, <2>5
<1>3. QED
  BY <1>1, <1>2

LEMMA AllTypedKept == AllTyped /\ [Next]_vars => AllTyped'
<1> SUFFICES ASSUME AllTyped, [Next]_vars PROVE AllTyped'
  OBVIOUS
<1>1. (which \in Components)'
  BY EachSteps DEF AllTyped, Components
<1>2. (PushTypeOK /\ OAuthTypeOK /\ MarkTyped /\ AccountsTypeOK /\ AnnotationTyped)'
  BY EachSteps, PushTypedKept, OAuthTypedKept, MarkTypedKept, AccountsTypedKept,
     AnnotationTypedKept DEF AllTyped
<1>3. (BucketTypeOK /\ StreamTyped /\ GraduationTypeOK /\ PeakTypeOK /\ FilesTypeOK)'
  BY EachSteps, BucketTypedKept, StreamTypedKept, GraduationTypedKept, PeakTypedKept,
     FilesTypedKept DEF AllTyped
<1>4. (StampTypeOK /\ BrowserTyped /\ WebTokensInv /\ TransfersTyped /\ ListingsTyped)'
  BY EachSteps, StampTypedKept, BrowserTypedKept, WebTokensKept, TransfersTypedKept,
     ListingsTypedKept DEF AllTyped
<1>5. (LimitsTyped /\ RendersTyped /\ GenTypeOK /\ PanoTypeOK /\ CurationTyped)'
  BY EachSteps, LimitsTypedKept, RendersTypedKept, PatchesTypedKept, PanoTypedKept,
     CurationTypedKept DEF AllTyped
<1>6. QED
  BY <1>1, <1>2, <1>3, <1>4, <1>5 DEF AllTyped

LEMMA ServicesTypesFollow == AllTyped => ServicesTypeOK
<1> SUFFICES ASSUME AllTyped PROVE ServicesTypeOK
  OBVIOUS
<1>1. MarkTypeOK /\ AnnotationTypeOK /\ BrowserTypeOK /\ WebTokensTypeOK
  BY DEF AllTyped, MarkTyped, AnnotationTyped, BrowserTyped, WebTokensInv
<1>2. StreamTypeOK /\ RendersTypeOK /\ ListingTypeOK
  BY StreamTypesFollow, RendersTypesFollow, ListingTypesFollow DEF AllTyped
<1>3. TransfersTypeOK /\ LimitsTypeOK /\ CurationTypeOK
  BY DEF AllTyped, TransfersTyped, LimitsTyped, CurationTyped
<1>4. QED
  BY <1>1, <1>2, <1>3 DEF AllTyped, ServicesTypeOK, Typed

\* Whichever component is at work, and however many users, photos, workers,
\* requests and answers there are: its rows, queues, tokens, walks and answers
\* keep the types their tables and messages have, and no pool, page, suffix,
\* window or offer outgrows its limit.
THEOREM ServicesAreTyped == Spec => []ServicesTypeOK
  BY AllTypedBegins, AllTypedKept, ServicesTypesFollow, PTL DEF Spec
=============================================================================
