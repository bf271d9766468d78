----------------------------- MODULE ProgressProofs -----------------------------
(***************************************************************************)
(* The session protocol, and the types of the components that MCProgress   *)
(* puts side by side.                                                      *)
(*                                                                         *)
(* Sessions: reuse detection revokes a family, and the store keeps a spent *)
(* pair, only after a rotation whose reply was lost, for any number of     *)
(* logins, refreshes, contexts and disturbances, with or without the       *)
(* mutex's holder still waiting for its answer.  The argument is about     *)
(* where a pair is.  A pair that was minted and not yet stored is in one   *)
(* place, and nobody has presented it; a pair that is presented was in the *)
(* store, and only the holder of the mutex presents.                       *)
(*                                                                         *)
(* Types: a counter stays within its bound because of what is counted      *)
(* elsewhere, so each component's types come with one conservation law:    *)
(* pairs minted and being minted (RoomKept), messages that wait or are     *)
(* worked on (MessagesBounded), pingback threads that have counted         *)
(* themselves or will (ThreadsBounded), jobs the child runs.               *)
(***************************************************************************)
EXTENDS MCProgress, FiniteSetTheorems, TLAPS

Replies == {"granted", "rejected", "failed"}

Open(s) == slot[s].pc # "free"

Calling(c) == context[c].pc = "calling"

\* The pairs anything can hold.
Pairs == minted \cup {None}

Shape ==
    /\ minted \subseteq [sid : Sids, gen : Nat]
    /\ spent \subseteq minted
    /\ store \in Pairs
    /\ slot \in [Slots -> [pc : {"free", "received", "checked"} \cup Replies,
                           token : Pairs, pair : Pairs, heard : BOOLEAN]]
    /\ context \in [Contexts -> [pc : {"idle", "forcing", "calling"}, prior : Pairs,
                                 slot : Slots \cup {None}]]
    /\ login \in [pc : {"none", "storing", "stored"}, token : Pairs]

\* The generations of a family are numbered from 0 without a gap.
Numbered ==
    \A sid \in Sids :
        /\ IsFiniteSet(Family(sid))
        /\ \A t \in Family(sid) : t.gen < Cardinality(Family(sid))

\* What is presented, and what is handed out, was minted.
Carried ==
    /\ \A s \in Slots : Open(s) => slot[s].token \in minted
    /\ \A s \in Slots : slot[s].pc = "granted" => slot[s].pair \in minted
    /\ login.pc = "storing" => login.token \in minted

\* One context waits at a time, for the one request that is heard; a request
\* that is not is on record.
OneCall ==
    /\ \A c \in Contexts : Calling(c) =>
          /\ context[c].slot \in Slots
          /\ Open(context[c].slot) /\ slot[context[c].slot].heard
    /\ \A c, d \in Contexts : Calling(c) /\ Calling(d) => c = d
    /\ \A s \in Slots : Open(s) /\ slot[s].heard =>
          \E c \in Contexts : Calling(c) /\ context[c].slot = s
    /\ \A s \in Slots : Open(s) /\ ~ slot[s].heard => slot[s].token.sid \in unheard

Excused(t) == t \in spent => t.sid \in unheard

\* Until it is rotated, what a request presents is not spent.
PresentedOnce ==
    \A s \in Slots :
        slot[s].pc \in {"received", "checked", "failed"} => Excused(slot[s].token)

\* Nobody has it but who is to deliver it.
Unseen(t) ==
    /\ t \notin spent /\ t # store
    /\ \A s \in Slots : Open(s) => slot[s].token # t

Undelivered ==
    /\ \A s \in Slots : slot[s].pc = "granted" => Unseen(slot[s].pair)
    /\ login.pc = "storing" => Unseen(login.token)
    /\ \A r, s \in Slots :
          slot[r].pc = "granted" /\ slot[s].pc = "granted" /\ r # s => slot[r].pair # slot[s].pair
    /\ \A s \in Slots :
          slot[s].pc = "granted" /\ login.pc = "storing" => slot[s].pair # login.token

SessionInv ==
    /\ Shape /\ Numbered /\ Carried /\ OneCall /\ PresentedOnce /\ Undelivered
    /\ ReuseNeedsLostReply /\ SpentIsBeingReplaced

LEMMA NoneIsNoPair == Shape => None \notin minted
  BY NoneAssumption DEF Shape

LEMMA SessionInvBegins == Init => SessionInv
<1> SUFFICES ASSUME Init PROVE SessionInv
  OBVIOUS
<1> USE DEF Init, ServerInit
<1>1. Shape
  BY DEF Shape, Pairs, Replies, NoRequest, IdleContext, NoLogin
<1>2. Numbered
  BY FS_EmptySet DEF Numbered, Family
<1>3. Carried /\ PresentedOnce /\ Undelivered
  BY DEF Carried, PresentedOnce, Undelivered, Open, NoRequest, NoLogin
<1>4. OneCall
  BY DEF OneCall, Calling, Open, NoRequest, IdleContext
<1>5. ReuseNeedsLostReply /\ SpentIsBeingReplaced
  BY DEF ReuseNeedsLostReply, SpentIsBeingReplaced
<1>6. QED
  BY <1>1, <1>2, <1>3, <1>4, <1>5 DEF SessionInv

-----------------------------------------------------------------------------
(* Steps at which no request moves                                         *)

\* The store is cleared or stays, a login is given up or stays, and the
\* contexts that wait are the same ones.
Steady ==
    /\ UNCHANGED <<minted, spent, slot, unheard>>
    /\ reused' = reused
    /\ store' \in {store, None}
    /\ login' \in [pc : {"none", "storing", "stored"}, token : Pairs]
    /\ login'.pc = "storing" => login.pc = "storing" /\ login'.token = login.token
    /\ context' \in [Contexts -> [pc : {"idle", "forcing", "calling"}, prior : Pairs,
                                  slot : Slots \cup {None}]]
    /\ \A c \in Contexts : /\ context'[c].pc = "calling" <=> Calling(c)
                           /\ Calling(c) => context'[c].slot = context[c].slot

LEMMA SteadyKeeps ==
    ASSUME SessionInv, Steady
    PROVE  SessionInv'
<1> USE DEF SessionInv, Steady
<1>1. Shape'
  BY DEF Shape, Pairs
<1>2. Numbered'
  BY DEF Numbered, Family
<1>3. Carried'
  BY DEF Carried, Open
<1>4. OneCall'
  BY DEF OneCall, Open, Calling
<1>5. PresentedOnce'
  BY DEF PresentedOnce, Excused
<1>6. \A t \in minted : Unseen(t) => Unseen(t)'
  BY NoneIsNoPair DEF Unseen, Open
<1>7. Undelivered'
  BY <1>6 DEF Undelivered, Carried, Open
<1>8. ReuseNeedsLostReply' /\ SpentIsBeingReplaced'
  BY DEF ReuseNeedsLostReply, SpentIsBeingReplaced, Calling
<1>9. QED
  BY <1>1, <1>2, <1>3, <1>4, <1>5, <1>7, <1>8

LEMMA NothingMovesKeeps ==
    ASSUME SessionInv, UNCHANGED <<minted, spent, slot, reused, store, context, login, unheard>>
    PROVE  SessionInv'
  BY SteadyKeeps DEF Steady, SessionInv, Shape, Calling

-----------------------------------------------------------------------------
(* The API's steps                                                         *)

\* A request is answered, or passes its checks.
LEMMA AdvanceKeeps ==
    ASSUME SessionInv, NEW s \in Slots, NEW reply \in {"checked", "rejected", "failed"},
           slot[s].pc = "received", Answer(s, reply), reused' \subseteq unheard,
           UNCHANGED <<minted, spent, store, context, login, unheard>>
    PROVE  SessionInv'
<1> USE DEF SessionInv
<1>1. slot' \in [Slots -> [pc : {"free", "received", "checked"} \cup Replies,
                           token : Pairs, pair : Pairs, heard : BOOLEAN]]
  BY DEF Answer, Shape, Replies
<1>2. /\ slot'[s].pc = reply /\ slot'[s].token = slot[s].token
      /\ slot'[s].pair = slot[s].pair /\ slot'[s].heard = slot[s].heard
      /\ \A r \in Slots \ {s} : slot'[r] = slot[r]
  BY DEF Answer, Shape
<1>3. \A r \in Slots : /\ slot'[r].token = slot[r].token /\ slot'[r].heard = slot[r].heard
                       /\ slot'[r].pc # "free" <=> Open(r)
                       /\ slot'[r].pc = "granted" <=> slot[r].pc = "granted"
                       /\ slot'[r].pair = slot[r].pair
  BY <1>2 DEF Open
<1>4. Shape'
  BY <1>1 DEF Shape, Pairs
<1>5. Numbered'
  BY DEF Numbered, Family
<1>6. Carried'
  BY <1>3 DEF Carried, Open
<1>7. OneCall'
  <2>1. \A c \in Contexts : Calling(c)' <=> Calling(c)
    BY DEF Calling
  <2>2. \A r \in Slots : Open(r)' <=> Open(r)
    BY <1>3 DEF Open
  <2>3. QED
    BY <1>3, <2>1, <2>2 DEF OneCall
<1>8. PresentedOnce'
  BY <1>2 DEF PresentedOnce, Excused
<1>9. \A t \in minted : Unseen(t) => Unseen(t)'
  BY <1>3 DEF Unseen, Open
<1>10. Undelivered'
  BY <1>3, <1>9 DEF Undelivered, Carried
<1>11. ReuseNeedsLostReply'
  BY DEF ReuseNeedsLostReply
<1>12. SpentIsBeingReplaced'
  BY <1>3 DEF SpentIsBeingReplaced, OneCall, Calling
<1>13. QED
  BY <1>4, <1>5, <1>6, <1>7, <1>8, <1>10, <1>11, <1>12

\* A spent token that arrives is excused by a lost reply.
LEMMA ReplayIsExcused ==
    ASSUME SessionInv, NEW s \in Slots, RefreshReplayed(s)
    PROVE  reused' \subseteq unheard
  BY DEF SessionInv, PresentedOnce, Excused, ReuseNeedsLostReply, RefreshReplayed, IsReplay

\* A reply is taken, or there is nobody to take it: the slot is free again, and
\* if the pair of the reply is stored it was nowhere else.
LEMMA FreedKeeps ==
    ASSUME SessionInv, NEW s \in Slots, slot' = [slot EXCEPT ![s] = NoRequest],
           UNCHANGED <<minted, spent, reused, login, unheard>>,
           \/ store' = None
           \/ store' = store /\ (slot[s].pc = "failed" \/ (Open(s) /\ ~ slot[s].heard))
           \/ store' = slot[s].pair /\ slot[s].pc = "granted",
           context' \in [Contexts -> [pc : {"idle", "forcing", "calling"}, prior : Pairs,
                                      slot : Slots \cup {None}]],
           \A c \in Contexts :
              /\ Calling(c)' <=> Calling(c) /\ context[c].slot # s
              /\ Calling(c)' => context'[c].slot = context[c].slot
    PROVE  SessionInv'
<1> USE DEF SessionInv
<1>1. /\ slot' \in [Slots -> [pc : {"free", "received", "checked"} \cup Replies,
                              token : Pairs, pair : Pairs, heard : BOOLEAN]]
      /\ slot'[s].pc = "free"
      /\ \A r \in Slots \ {s} : slot'[r] = slot[r]
  BY DEF Shape, NoRequest, Pairs
<1>2. /\ ~ Open(s)'
      /\ \A r \in Slots \ {s} : slot'[r] = slot[r] /\ Open(r)' = Open(r)
  BY <1>1 DEF Open
<1>3. store' \in Pairs
  BY DEF Shape, Carried, Pairs
<1>4. Shape'
  BY <1>1, <1>3 DEF Shape, Pairs
<1>5. Numbered'
  BY DEF Numbered, Family
<1>6. Carried'
  BY <1>1, <1>2 DEF Carried
<1>7. OneCall'
  BY <1>2 DEF OneCall
<1>8. PresentedOnce'
  BY <1>1 DEF PresentedOnce, Excused
<1>9. ASSUME NEW t \in minted, Unseen(t), slot[s].pc = "granted" => t # slot[s].pair
      PROVE  Unseen(t)'
  BY <1>2, <1>9, NoneIsNoPair DEF Unseen
<1>10. Undelivered'
  BY <1>1, <1>9 DEF Undelivered, Carried
<1>11. ReuseNeedsLostReply'
  BY DEF ReuseNeedsLostReply
<1>12. SpentIsBeingReplaced'
  <2>1. CASE store' = None
    BY <2>1 DEF SpentIsBeingReplaced
  <2>2. CASE store' = slot[s].pair /\ slot[s].pc = "granted"
    BY <2>2 DEF SpentIsBeingReplaced, Undelivered, Unseen
  <2>3. ASSUME store' = store, slot[s].pc = "failed" \/ (Open(s) /\ ~ slot[s].heard),
               store # None, store \in spent, store.sid \notin unheard
        PROVE  \E c \in Contexts : Calling(c)' /\ slot'[context'[c].slot].token = store
    <3>1. PICK c \in Contexts : Calling(c) /\ slot[context[c].slot].token = store
      BY <2>3 DEF SpentIsBeingReplaced, Calling
    <3>2. context[c].slot \in Slots /\ slot[context[c].slot].heard
      BY <3>1 DEF OneCall
    <3>3. context[c].slot # s
      BY <2>3, <3>1, <3>2 DEF PresentedOnce, Excused
    <3>4. QED
      BY <1>1, <3>1, <3>2, <3>3
  <2>4. QED
    BY <2>1, <2>2, <2>3 DEF SpentIsBeingReplaced, Calling
<1>13. QED
  BY <1>4, <1>5, <1>6, <1>7, <1>8, <1>10, <1>11, <1>12

LEMMA UnheardKeeps ==
    ASSUME SessionInv, NEW s \in Slots, RefreshUnheard(s), UNCHANGED clientVars
    PROVE  SessionInv'
<1>1. /\ slot' = [slot EXCEPT ![s] = NoRequest] /\ Open(s) /\ ~ slot[s].heard
      /\ UNCHANGED <<minted, spent, reused, login, unheard, store, context>>
  BY DEF RefreshUnheard, tokenVars, rowVars, timeVars, clientVars, Open
<1>2. \A c \in Contexts : Calling(c) => context[c].slot # s
  BY <1>1 DEF SessionInv, OneCall
<1>3. \A c \in Contexts : Calling(c)' <=> Calling(c)
  BY <1>1 DEF Calling
<1>4. QED
  BY <1>1, <1>2, <1>3, FreedKeeps DEF SessionInv, Shape

LEMMA ReplyTakenKeeps ==
    ASSUME SessionInv, NEW c \in Contexts,
           ReplyStored(c) \/ ReplyRejected(c) \/ ReplyFailed(c)
    PROVE  SessionInv'
<1> USE DEF SessionInv
<1>1. PICK s : s = context[c].slot
  OBVIOUS
<1>2. /\ Calling(c) /\ slot' = [slot EXCEPT ![s] = NoRequest] /\ Idle(c)
      /\ UNCHANGED <<minted, spent, reused, login, unheard>>
      /\ \/ store' = None
         \/ store' = store /\ slot[s].pc = "failed"
         \/ store' = slot[s].pair /\ slot[s].pc = "granted"
  BY <1>1 DEF ReplyStored, ReplyRejected, ReplyFailed, Answered, Calling, tokenVars, rowVars,
              timeVars, storeVars, webVars
<1>3. s \in Slots
  BY <1>1, <1>2 DEF OneCall
<1>4. context' \in [Contexts -> [pc : {"idle", "forcing", "calling"}, prior : Pairs,
                                 slot : Slots \cup {None}]]
  BY <1>2 DEF Idle, IdleContext, Shape, Pairs
<1>5. /\ context'[c].pc = "idle"
      /\ \A d \in Contexts \ {c} : context'[d] = context[d] /\ ~ Calling(d)
  BY <1>2 DEF Idle, IdleContext, Shape, OneCall
<1>6. \A d \in Contexts :
         /\ Calling(d)' <=> Calling(d) /\ context[d].slot # s
         /\ Calling(d)' => context'[d].slot = context[d].slot
  BY <1>1, <1>5 DEF Calling
<1>7. QED
  BY <1>2, <1>3, <1>4, <1>6, FreedKeeps

\* The next generation of a family has not been minted.
LEMMA NextIsNew ==
    ASSUME Numbered, Shape, NEW t \in minted,
           NEW next, next = [sid |-> t.sid, gen |-> Cardinality(Family(t.sid))],
           minted' = minted \cup {next}
    PROVE  next \notin minted /\ next \in [sid : Sids, gen : Nat] /\ Numbered'
<1>1. t.sid \in Sids /\ t \in Family(t.sid)
  BY DEF Shape, Family
<1>2. PICK n : n = Cardinality(Family(t.sid))
  OBVIOUS
<1>3. n \in Nat /\ IsFiniteSet(Family(t.sid)) /\ \A u \in Family(t.sid) : u.gen < n
  BY <1>1, <1>2, FS_CardinalityType DEF Numbered
<1>4. next = [sid |-> t.sid, gen |-> n] /\ next.sid = t.sid /\ next.gen = n
  BY <1>2
<1>5. next \in [sid : Sids, gen : Nat]
  BY <1>1, <1>3, <1>4
<1>6. next \notin minted
  BY <1>3, <1>4 DEF Family
<1>7. Family(t.sid)' = Family(t.sid) \cup {next} /\ next \notin Family(t.sid)
  BY <1>4, <1>6 DEF Family
<1>8. IsFiniteSet(Family(t.sid)') /\ Cardinality(Family(t.sid)') = n + 1
  BY <1>2, <1>3, <1>7, FS_AddElement
<1>9. \A u \in Family(t.sid)' : u.gen < n + 1
  <2>1. ASSUME NEW u \in Family(t.sid) PROVE u.gen < n + 1
    <3>1. u.gen \in Nat /\ u.gen < n
      BY <1>3 DEF Family, Shape
    <3>2. QED
      BY <1>3, <3>1
  <2>2. QED
    BY <1>3, <1>4, <1>7, <2>1
<1>10. \A sid \in Sids \ {t.sid} : Family(sid)' = Family(sid)
  BY <1>4 DEF Family
<1>11. Numbered'
  BY <1>8, <1>9, <1>10 DEF Numbered
<1>12. QED
  BY <1>5, <1>6, <1>11

LEMMA RotatesKeep ==
    ASSUME SessionInv, NEW s \in Slots, RefreshRotates(s), UNCHANGED clientVars
    PROVE  SessionInv'
<1> USE DEF SessionInv
<1>1. PICK t : t = slot[s].token
  OBVIOUS
<1>2. PICK next : next = [sid |-> t.sid, gen |-> Cardinality(Family(t.sid))]
  OBVIOUS
<1>3. /\ slot[s].pc = "checked" /\ Open(s)
      /\ spent' \in {spent, spent \cup {t}} /\ minted' = minted \cup {next}
      /\ slot' = [slot EXCEPT ![s].pc = "granted", ![s].pair = next]
      /\ UNCHANGED <<reused, store, context, login, unheard>>
  BY <1>1, <1>2 DEF RefreshRotates, clientVars, Open
<1>4. t \in minted
  BY <1>1, <1>3 DEF Carried
<1>20. minted \subseteq minted' /\ next \in minted' /\ UNCHANGED <<store, context, login, unheard>>
  BY <1>3
<1>5. next \notin minted /\ next \in [sid : Sids, gen : Nat] /\ Numbered'
  BY <1>2, <1>3, <1>4, NextIsNew
<1>6. slot' \in [Slots -> [pc : {"free", "received", "checked"} \cup Replies,
                           token : Pairs', pair : Pairs', heard : BOOLEAN]]
  <2>1. \A r \in Slots : slot[r] \in [pc : {"free", "received", "checked"} \cup Replies,
                                      token : Pairs', pair : Pairs', heard : BOOLEAN]
    BY <1>3 DEF Shape, Pairs
  <2>2. next \in Pairs'
    BY <1>3 DEF Pairs
  <2>3. slot \in [Slots -> [pc : {"free", "received", "checked"} \cup Replies,
                            token : Pairs', pair : Pairs', heard : BOOLEAN]]
    BY <2>1 DEF Shape
  <2>4. QED
    BY <1>3, <2>2, <2>3 DEF Replies
<1>7. /\ slot'[s].pc = "granted" /\ slot'[s].pair = next
      /\ slot'[s].token = t /\ slot'[s].heard = slot[s].heard
      /\ \A r \in Slots \ {s} : slot'[r] = slot[r]
  BY <1>1, <1>3 DEF Shape
<1>8. \A r \in Slots : /\ Open(r)' <=> Open(r)
                       /\ slot'[r].token = slot[r].token /\ slot'[r].heard = slot[r].heard
  BY <1>1, <1>3, <1>7 DEF Open
<1>9. Shape'
  BY <1>3, <1>4, <1>5, <1>6 DEF Shape, Pairs
<1>10. Carried'
  <2>1. \A r \in Slots : Open(r)' => slot'[r].token \in minted'
    BY <1>8, <1>20 DEF Carried
  <2>2. \A r \in Slots : slot'[r].pc = "granted" => slot'[r].pair \in minted'
    BY <1>7, <1>20 DEF Carried
  <2>3. login'.pc = "storing" => login'.token \in minted'
    BY <1>3 DEF Carried
  <2>4. QED
    BY <2>1, <2>2, <2>3 DEF Carried
<1>11. \A c \in Contexts : Calling(c)' <=> Calling(c)
  BY <1>3 DEF Calling
<1>12. OneCall'
  <2>1. ASSUME NEW c \in Contexts, Calling(c)'
        PROVE  /\ context'[c].slot \in Slots
               /\ Open(context[c].slot)' /\ slot'[context'[c].slot].heard
    <3>1. PICK r \in Slots : r = context[c].slot /\ Open(r) /\ slot[r].heard
      BY <1>11, <2>1 DEF OneCall
    <3>2. Open(r)' /\ slot'[r].heard /\ context'[c].slot = r
      BY <1>3, <1>8, <3>1
    <3>3. QED
      BY <3>2 DEF Open
  <2>2. \A c, d \in Contexts : Calling(c)' /\ Calling(d)' => c = d
    BY <1>11 DEF OneCall
  <2>3. \A r \in Slots : Open(r)' /\ slot'[r].heard =>
           \E c \in Contexts : Calling(c)' /\ context'[c].slot = r
    BY <1>3, <1>8, <1>11 DEF OneCall
  <2>4. \A r \in Slots : Open(r)' /\ ~ slot'[r].heard => slot'[r].token.sid \in unheard'
    BY <1>8, <1>20 DEF OneCall
  <2>5. QED
    BY <2>1, <2>2, <2>3, <2>4 DEF OneCall
<1>13. PresentedOnce'
  <2>1. ASSUME NEW r \in Slots, r # s, slot[r].pc \in {"received", "checked", "failed"},
               slot[r].token = t
        PROVE  t.sid \in unheard
    <3>1. Open(r)
      BY <2>1 DEF Open
    <3>2. ~ slot[r].heard \/ ~ slot[s].heard
      BY <1>3, <2>1, <3>1 DEF OneCall
    <3>3. QED
      BY <1>1, <1>3, <2>1, <3>1, <3>2 DEF OneCall
  <2>2. ASSUME NEW r \in Slots, slot'[r].pc \in {"received", "checked", "failed"},
               slot'[r].token \in spent'
        PROVE  slot'[r].token.sid \in unheard'
    <3>1. r # s /\ slot'[r] = slot[r]
      BY <1>7, <2>2
    <3>2. CASE slot[r].token = t
      BY <1>3, <2>1, <2>2, <3>1, <3>2
    <3>3. CASE slot[r].token # t
      BY <1>3, <2>2, <3>1, <3>3 DEF PresentedOnce, Excused
    <3>4. QED
      BY <3>2, <3>3
  <2>3. QED
    BY <2>2 DEF PresentedOnce, Excused
<1>14. \A u \in minted : Unseen(u) => Unseen(u)'
  <2>1. ASSUME NEW u \in minted, Unseen(u) PROVE u # t
    BY <1>1, <1>3, <2>1 DEF Unseen
  <2>2. QED
    BY <1>3, <1>8, <2>1 DEF Unseen
<1>15. Unseen(next)'
  <2>1. next \notin spent'
    BY <1>3, <1>4, <1>5 DEF Shape
  <2>2. next # store'
    BY <1>3, <1>5, NoneAssumption DEF Shape, Pairs
  <2>3. \A r \in Slots : Open(r)' => slot'[r].token # next
    BY <1>5, <1>8 DEF Carried
  <2>4. QED
    BY <2>1, <2>2, <2>3 DEF Unseen
<1>16. Undelivered'
  <2>1. \A r \in Slots \ {s} : slot[r].pc = "granted" => slot[r].pair # next
    BY <1>5 DEF Carried
  <2>2. login.pc = "storing" => login.token # next
    BY <1>5 DEF Carried
  <2>3. ASSUME NEW r \in Slots, slot'[r].pc = "granted" PROVE Unseen(slot[r].pair)'
    <3>1. CASE r = s
      BY <1>7, <1>15, <3>1 DEF Unseen
    <3>2. CASE r # s
      <4>1. slot'[r].pair = slot[r].pair /\ Unseen(slot[r].pair) /\ slot[r].pair \in minted
        BY <1>7, <2>3, <3>2 DEF Undelivered, Carried
      <4>2. PICK u \in minted : u = slot[r].pair /\ Unseen(u)'
        BY <1>14, <4>1
      <4>3. QED
        BY <4>1, <4>2 DEF Unseen
    <3>3. QED
      BY <3>1, <3>2
  <2>4. ASSUME login.pc = "storing" PROVE Unseen(login.token)'
    BY <1>3, <1>14, <2>4 DEF Undelivered, Carried, Unseen
  <2>5. /\ \A q, r \in Slots : slot'[q].pc = "granted" /\ slot'[r].pc = "granted" /\ q # r =>
                                slot'[q].pair # slot'[r].pair
        /\ \A r \in Slots : slot'[r].pc = "granted" /\ login'.pc = "storing" =>
                             slot'[r].pair # login'.token
    BY <1>7, <1>20, <2>1, <2>2 DEF Undelivered
  <2>6. QED
    BY <1>20, <2>3, <2>4, <2>5 DEF Undelivered
<1>17. ReuseNeedsLostReply'
  BY <1>3 DEF ReuseNeedsLostReply
<1>18. SpentIsBeingReplaced'
  <2>1. ASSUME store = t PROVE \/ t.sid \in unheard
                               \/ \E c \in Contexts : Calling(c) /\ slot[context[c].slot].token = t
    BY <1>1, <1>3 DEF OneCall
  <2>2. \A c \in Contexts : Calling(c) => slot'[context[c].slot].token = slot[context[c].slot].token
    BY <1>8 DEF OneCall
  <2>3. QED
    BY <1>3, <2>1, <2>2 DEF SpentIsBeingReplaced, Calling
<1>19. QED
  BY <1>5, <1>9, <1>10, <1>12, <1>13, <1>16, <1>17, <1>18

LEMMA ServerKeeps ==
    ASSUME SessionInv, ServerStep, UNCHANGED clientVars
    PROVE  SessionInv'
<1> USE DEF clientVars, tokenVars, timeVars, rowVars
<1>1. CASE \/ \E t \in minted : \/ AccessLapses(t) \/ RefreshLapses(t)
                                \/ LogoutToken(t) \/ LogoutFamily(t)
           \/ \E standing \in Account : SetAccount(standing)
  BY <1>1, NothingMovesKeeps DEF AccessLapses, RefreshLapses, LogoutToken, LogoutFamily, SetAccount
<1>2. ASSUME NEW s \in Slots, RefreshRefused(s) \/ RefreshFails(s) \/ RefreshChecked(s)
      PROVE  SessionInv'
  <2>1. reused' \subseteq unheard
    BY <1>2 DEF SessionInv, ReuseNeedsLostReply, RefreshRefused, RefreshFails, RefreshChecked
  <2>2. /\ slot[s].pc = "received"
        /\ \E reply \in {"checked", "rejected", "failed"} : Answer(s, reply)
    BY <1>2 DEF RefreshRefused, RefreshFails, RefreshChecked, Answer
  <2>3. UNCHANGED <<minted, spent, store, context, login, unheard>>
    BY <1>2 DEF RefreshRefused, RefreshFails, RefreshChecked
  <2>4. QED
    BY <2>1, <2>2, <2>3, AdvanceKeeps
<1>3. ASSUME NEW s \in Slots, RefreshReplayed(s) PROVE SessionInv'
  <2>1. /\ slot[s].pc = "received" /\ Answer(s, "rejected")
        /\ UNCHANGED <<minted, spent, store, context, login, unheard>>
    BY <1>3 DEF RefreshReplayed
  <2>2. QED
    BY <1>3, <2>1, ReplayIsExcused, AdvanceKeeps
<1>4. ASSUME NEW s \in Slots, RefreshRotates(s) \/ RefreshUnheard(s) PROVE SessionInv'
  BY <1>4, RotatesKeep, UnheardKeeps
<1>5. QED
  BY <1>1, <1>2, <1>3, <1>4 DEF ServerStep, ServerAnswers

-----------------------------------------------------------------------------
(* The client's steps                                                      *)

\* With the mutex, the store's pair is presented: whatever replaces a spent
\* one has been lost.
LEMMA SendKeeps ==
    ASSUME SessionInv, NEW c \in Contexts, NEW s \in Slots, Send(c, s),
           UNCHANGED <<minted, spent, reused, store, login, unheard>>
    PROVE  SessionInv'
<1> USE DEF SessionInv
<1>1. /\ \A d \in Contexts : ~ Calling(d)
      /\ store # None /\ slot[s].pc = "free"
      /\ slot' = [slot EXCEPT ![s] = [pc |-> "received", token |-> store,
                                      pair |-> None, heard |-> TRUE]]
      /\ context' = [context EXCEPT ![c] = [IdleContext EXCEPT !.pc = "calling", !.slot = s]]
  BY DEF Send, MutexFree, RefreshArrives, Calling
<1>2. store \in minted /\ (store \in spent => store.sid \in unheard)
  BY <1>1 DEF Shape, Pairs, SpentIsBeingReplaced, Calling
<1>3. /\ slot' \in [Slots -> [pc : {"free", "received", "checked"} \cup Replies,
                              token : Pairs, pair : Pairs, heard : BOOLEAN]]
      /\ slot'[s] = [pc |-> "received", token |-> store, pair |-> None, heard |-> TRUE]
      /\ \A r \in Slots \ {s} : slot'[r] = slot[r]
  BY <1>1 DEF Shape, Pairs
<1>4. /\ context' \in [Contexts -> [pc : {"idle", "forcing", "calling"}, prior : Pairs,
                                    slot : Slots \cup {None}]]
      /\ context'[c].pc = "calling" /\ context'[c].slot = s
      /\ \A d \in Contexts \ {c} : context'[d] = context[d]
  BY <1>1 DEF Shape, Pairs, IdleContext
<1>5. /\ slot'[s].pc = "received" /\ slot'[s].token = store /\ slot'[s].heard = TRUE
      /\ \A r \in Slots \ {s} : Open(r)' = Open(r)
  BY <1>3 DEF Open
<1>6. Shape'
  BY <1>3, <1>4 DEF Shape, Pairs
<1>7. Numbered'
  BY DEF Numbered, Family
<1>8. Carried'
  BY <1>2, <1>3, <1>5 DEF Carried
<1>9. \A d \in Contexts : Calling(d)' <=> d = c
  BY <1>1, <1>4 DEF Calling
<1>10. OneCall'
  <2>1. Open(s)'
    BY <1>5 DEF Open
  <2>2. \A r \in Slots \ {s} : Open(r) => ~ slot[r].heard
    BY <1>1 DEF OneCall
  <2>3. \A r \in Slots \ {s} : Open(r)' => ~ slot'[r].heard /\ slot'[r].token.sid \in unheard'
    BY <1>3, <1>5, <2>2 DEF OneCall
  <2>4. \A d \in Contexts : Calling(d)' =>
          context'[d].slot \in Slots /\ Open(context[d].slot)' /\ slot'[context'[d].slot].heard
    BY <1>4, <1>5, <1>9, <2>1 DEF Open
  <2>5. QED
    BY <1>4, <1>5, <1>9, <2>3, <2>4 DEF OneCall
<1>11. PresentedOnce'
  BY <1>2, <1>3, <1>5 DEF PresentedOnce, Excused
<1>12. \A t \in minted : Unseen(t) => Unseen(t)'
  BY <1>3, <1>5 DEF Unseen
<1>13. Undelivered'
  BY <1>3, <1>5, <1>12 DEF Undelivered, Carried
<1>14. ReuseNeedsLostReply' /\ SpentIsBeingReplaced'
  BY <1>2 DEF ReuseNeedsLostReply, SpentIsBeingReplaced
<1>15. QED
  BY <1>6, <1>7, <1>8, <1>10, <1>11, <1>13, <1>14

\* Who waited is gone, and its request is on record.
LEMMA AbandonKeeps ==
    ASSUME SessionInv, NEW S \in SUBSET Slots, Abandon(S),
           \A c \in Contexts : Calling(c) => context[c].slot \in S,
           context' \in [Contexts -> [pc : {"idle", "forcing", "calling"}, prior : Pairs,
                                      slot : Slots \cup {None}]],
           \A c \in Contexts : ~ Calling(c)',
           UNCHANGED <<minted, spent, reused, store>>,
           login' \in [pc : {"none", "storing", "stored"}, token : Pairs],
           login'.pc = "storing" => login.pc = "storing" /\ login'.token = login.token
    PROVE  SessionInv'
<1> USE DEF SessionInv
<1>1. /\ unheard \subseteq unheard' /\ \A s \in S : slot[s].token.sid \in unheard'
      /\ \A s \in Slots :
            slot'[s] = IF s \in S THEN [slot[s] EXCEPT !.heard = FALSE] ELSE slot[s]
      /\ slot' = [s \in Slots |-> slot'[s]]
  BY DEF Abandon
<1>2. \A s \in Slots :
         /\ slot'[s] \in [pc : {"free", "received", "checked"} \cup Replies,
                          token : Pairs, pair : Pairs, heard : BOOLEAN]
         /\ slot'[s].pc = slot[s].pc /\ slot'[s].token = slot[s].token
         /\ slot'[s].pair = slot[s].pair
         /\ s \in S => slot'[s].heard = FALSE
         /\ s \notin S => slot'[s].heard = slot[s].heard
  <2> SUFFICES ASSUME NEW s \in Slots
               PROVE  /\ slot'[s] \in [pc : {"free", "received", "checked"} \cup Replies,
                                        token : Pairs, pair : Pairs, heard : BOOLEAN]
                      /\ slot'[s].pc = slot[s].pc /\ slot'[s].token = slot[s].token
                      /\ slot'[s].pair = slot[s].pair
                      /\ s \in S => slot'[s].heard = FALSE
                      /\ s \notin S => slot'[s].heard = slot[s].heard
    OBVIOUS
  <2>1. PICK q \in [pc : {"free", "received", "checked"} \cup Replies,
                    token : Pairs, pair : Pairs, heard : BOOLEAN] : q = slot[s]
    BY DEF Shape
  <2>2. CASE s \in S
    BY <1>1, <2>1, <2>2
  <2>3. CASE s \notin S
    BY <1>1, <2>1, <2>3
  <2>4. QED
    BY <2>2, <2>3
<1>3. \A s \in Slots : Open(s)' = Open(s)
  BY <1>2 DEF Open
<1>4. Shape'
  BY <1>1, <1>2 DEF Shape, Pairs
<1>5. Numbered'
  BY DEF Numbered, Family
<1>6. Carried'
  BY <1>2, <1>3 DEF Carried
<1>7. OneCall'
  <2>1. \A s \in Slots : Open(s) => ~ slot'[s].heard /\ slot'[s].token.sid \in unheard'
    BY <1>1, <1>2 DEF OneCall
  <2>2. QED
    BY <1>3, <2>1 DEF OneCall
<1>8. PresentedOnce'
  BY <1>1, <1>2 DEF PresentedOnce, Excused
<1>9. \A t \in minted : Unseen(t) => Unseen(t)'
  BY <1>2, <1>3 DEF Unseen
<1>10. Undelivered'
  BY <1>2, <1>9 DEF Undelivered, Carried
<1>11. ReuseNeedsLostReply'
  BY <1>1 DEF ReuseNeedsLostReply
<1>12. SpentIsBeingReplaced'
  <2>1. ASSUME NEW c \in Contexts, Calling(c), slot[context[c].slot].token = store
        PROVE  store.sid \in unheard'
    BY <1>1, <2>1
  <2>2. QED
    BY <1>1, <2>1 DEF SpentIsBeingReplaced, Calling
<1>13. QED
  BY <1>4, <1>5, <1>6, <1>7, <1>8, <1>10, <1>11, <1>12

LEMMA CallLostKeeps ==
    ASSUME SessionInv, NEW c \in Contexts, CallLost(c)
    PROVE  SessionInv'
<1>1. /\ Calling(c) /\ Abandon({context[c].slot})
      /\ context' = [context EXCEPT ![c] = IdleContext]
      /\ UNCHANGED <<minted, spent, reused, store, login>>
  BY DEF CallLost, Calling, Idle, tokenVars, rowVars, storeVars, webVars
<1>2. /\ \A d \in Contexts : Calling(d) => d = c
      /\ {context[c].slot} \in SUBSET Slots
  BY <1>1 DEF SessionInv, OneCall
<1>3. /\ context' \in [Contexts -> [pc : {"idle", "forcing", "calling"}, prior : Pairs,
                                    slot : Slots \cup {None}]]
      /\ \A d \in Contexts : ~ Calling(d)'
  BY <1>1, <1>2 DEF SessionInv, Shape, Pairs, IdleContext, Calling
<1>4. QED
  BY <1>1, <1>2, <1>3, AbandonKeeps DEF SessionInv, Shape

LEMMA RestartKeeps ==
    ASSUME SessionInv, Restart
    PROVE  SessionInv'
<1>1. PICK S : S = {context[c].slot : c \in {d \in Contexts : Calling(d)}}
  OBVIOUS
<1>2. /\ Abandon(S) /\ context' = [c \in Contexts |-> IdleContext] /\ login' = NoLogin
      /\ UNCHANGED <<minted, spent, reused, store>>
  BY <1>1 DEF Restart, Calling, tokenVars, rowVars, storeVars
<1>3. S \in SUBSET Slots /\ \A c \in Contexts : Calling(c) => context[c].slot \in S
  BY <1>1 DEF SessionInv, OneCall
<1>4. /\ context' \in [Contexts -> [pc : {"idle", "forcing", "calling"}, prior : Pairs,
                                    slot : Slots \cup {None}]]
      /\ \A c \in Contexts : ~ Calling(c)'
      /\ login' \in [pc : {"none", "storing", "stored"}, token : Pairs] /\ login'.pc # "storing"
  BY <1>2 DEF IdleContext, Calling, Pairs, NoLogin
<1>5. QED
  BY <1>2, <1>3, <1>4, AbandonKeeps

\* The first pair of a family that has none.
LEMMA LoginStartsKeeps ==
    ASSUME SessionInv, NEW sid \in Sids, LoginStarts(sid)
    PROVE  SessionInv'
<1> USE DEF SessionInv
<1>1. PICK first : first = [sid |-> sid, gen |-> 0]
  OBVIOUS
<1>2. /\ Family(sid) = {} /\ minted' = minted \cup {first}
      /\ login' = [pc |-> "storing", token |-> first]
      /\ UNCHANGED <<spent, reused, slot, store, context, unheard>>
  BY <1>1 DEF LoginStarts, Login, rowVars, storeVars
<1>3. first \notin minted /\ first \in [sid : Sids, gen : Nat] /\ first.sid = sid /\ first.gen = 0
  BY <1>1, <1>2 DEF Family
<1>4. minted \subseteq minted' /\ first \in minted' /\ Pairs \subseteq Pairs'
  BY <1>2 DEF Pairs
<1>5. \A s \in Slots : slot[s] \in [pc : {"free", "received", "checked"} \cup Replies,
                                    token : Pairs', pair : Pairs', heard : BOOLEAN]
  BY <1>4 DEF Shape
<1>6. \A c \in Contexts : context[c] \in [pc : {"idle", "forcing", "calling"}, prior : Pairs',
                                          slot : Slots \cup {None}]
  BY <1>4 DEF Shape
<1>7. Shape'
  <2>1. minted' \subseteq [sid : Sids, gen : Nat] /\ spent' \subseteq minted' /\ store' \in Pairs'
    BY <1>2, <1>3, <1>4 DEF Shape
  <2>2. login' \in [pc : {"none", "storing", "stored"}, token : Pairs']
    BY <1>2, <1>4 DEF Pairs
  <2>3. /\ slot' \in [Slots -> [pc : {"free", "received", "checked"} \cup Replies,
                                token : Pairs', pair : Pairs', heard : BOOLEAN]]
        /\ context' \in [Contexts -> [pc : {"idle", "forcing", "calling"}, prior : Pairs',
                                      slot : Slots \cup {None}]]
    BY <1>2, <1>5, <1>6 DEF Shape
  <2>4. QED
    BY <2>1, <2>2, <2>3 DEF Shape
<1>8. Numbered'
  <2>1. Family(sid)' = {first}
    BY <1>2, <1>3 DEF Family
  <2>2. IsFiniteSet(Family(sid)') /\ Cardinality(Family(sid)') = 1
    BY <2>1, FS_Singleton
  <2>3. \A t \in Family(sid)' : t.gen < Cardinality(Family(sid)')
    BY <1>3, <2>1, <2>2
  <2>4. \A other \in Sids \ {sid} : Family(other)' = Family(other)
    BY <1>2, <1>3 DEF Family
  <2>5. QED
    BY <2>2, <2>3, <2>4 DEF Numbered
<1>9. Carried'
  BY <1>2, <1>4 DEF Carried, Open
<1>10. OneCall' /\ PresentedOnce'
  BY <1>2 DEF OneCall, PresentedOnce, Excused, Open, Calling
<1>11. \A t : Unseen(t)' <=> Unseen(t)
  BY <1>2 DEF Unseen, Open
<1>12. Unseen(first)
  <2>1. first # store
    BY <1>3, NoneAssumption DEF Shape, Pairs
  <2>2. QED
    BY <1>3, <2>1 DEF Unseen, Shape, Carried
<1>13. Undelivered'
  BY <1>2, <1>3, <1>11, <1>12 DEF Undelivered, Carried
<1>14. ReuseNeedsLostReply' /\ SpentIsBeingReplaced'
  BY <1>2 DEF ReuseNeedsLostReply, SpentIsBeingReplaced
<1>15. QED
  BY <1>7, <1>8, <1>9, <1>10, <1>13, <1>14

LEMMA LoginStoredKeeps ==
    ASSUME SessionInv, NEW registered \in BOOLEAN, LoginStored(registered)
    PROVE  SessionInv'
<1> USE DEF SessionInv
<1>1. /\ login.pc = "storing" /\ store' = login.token
      /\ login' \in {[login EXCEPT !.pc = "stored"], NoLogin}
      /\ UNCHANGED <<minted, spent, reused, slot, context, unheard>>
  BY DEF LoginStored, Unchanged, serverVars, tokenVars, rowVars
<1>2. login' \in [pc : {"none", "storing", "stored"}, token : Pairs] /\ login'.pc # "storing"
  BY <1>1 DEF Shape, NoLogin, Pairs
<1>3. store' \in minted /\ Unseen(login.token)
  BY <1>1 DEF Carried, Undelivered
<1>4. Shape'
  BY <1>1, <1>2, <1>3 DEF Shape, Pairs
<1>5. Numbered'
  BY <1>1 DEF Numbered, Family
<1>6. Carried' /\ OneCall' /\ PresentedOnce'
  BY <1>1, <1>2 DEF Carried, OneCall, PresentedOnce, Excused, Open, Calling
<1>7. \A t \in minted : Unseen(t) /\ t # login.token => Unseen(t)'
  BY <1>1 DEF Unseen, Open
<1>8. Undelivered'
  BY <1>1, <1>2, <1>7 DEF Undelivered, Carried
<1>9. ReuseNeedsLostReply' /\ SpentIsBeingReplaced'
  BY <1>1, <1>3 DEF ReuseNeedsLostReply, SpentIsBeingReplaced, Unseen
<1>10. QED
  BY <1>4, <1>5, <1>6, <1>8, <1>9

-----------------------------------------------------------------------------
(* Every step                                                              *)

LEMMA NativeKeeps ==
    ASSUME SessionInv, NEW c \in Contexts, Native(c)
    PROVE  SessionInv'
<1> USE DEF serverVars, tokenVars, timeVars, rowVars, storeVars, webVars
<1>1. CASE ForceQueues(c) \/ ForceSpared(c)
  <2>1. /\ UNCHANGED <<minted, spent, reused, slot, unheard, store, login>>
        /\ context[c].pc \in {"idle", "forcing"}
        /\ \/ context' = [context EXCEPT ![c] = IdleContext]
           \/ context' = [context EXCEPT ![c].pc = "forcing", ![c].prior = store]
    BY <1>1 DEF ForceQueues, ForceSpared, Idle
  <2>2. /\ context' \in [Contexts -> [pc : {"idle", "forcing", "calling"}, prior : Pairs,
                                      slot : Slots \cup {None}]]
        /\ context'[c].pc # "calling" /\ \A d \in Contexts \ {c} : context'[d] = context[d]
    BY <2>1 DEF SessionInv, Shape, IdleContext, Pairs
  <2>3. Steady
    BY <2>1, <2>2 DEF Steady, Calling, SessionInv, Shape
  <2>4. QED
    BY <2>3, SteadyKeeps
<1>2. ASSUME NEW s \in Slots, RefreshIfNeeded(c, s) \/ ForceSends(c, s) PROVE SessionInv'
  BY <1>2, SendKeeps DEF RefreshIfNeeded, ForceSends
<1>3. CASE ReplyStored(c) \/ ReplyRejected(c) \/ ReplyFailed(c)
  BY <1>3, ReplyTakenKeeps
<1>4. CASE CallLost(c)
  BY <1>4, CallLostKeeps
<1>5. QED
  BY <1>1, <1>2, <1>3, <1>4 DEF Native

LEMMA WebKeeps ==
    ASSUME SessionInv, WebStep
    PROVE  SessionInv'
<1> USE DEF Unchanged, serverVars, tokenVars, timeVars, rowVars, storeVars
<1>1. CASE \E registered \in BOOLEAN : LoginStored(registered)
  BY <1>1, LoginStoredKeeps
<1>2. CASE LoginCompletes \/ NativeCleared
  <2>1. /\ UNCHANGED <<minted, spent, reused, slot, unheard, context>>
        /\ store' \in {store, None} /\ login' \in {login, NoLogin}
    BY <1>2 DEF LoginCompletes, NativeCleared
  <2>2. Steady
    BY <2>1 DEF Steady, Calling, SessionInv, Shape, NoLogin, Pairs
  <2>3. QED
    BY <2>2, SteadyKeeps
<1>3. CASE \E s \in Slots : ExpiryRefreshes(s)
  <2>1. PICK s \in Slots : ExpiryRefreshes(s)
    BY <1>3
  <2>2. WebView \in Contexts /\ Send(WebView, s)
        /\ UNCHANGED <<minted, spent, reused, store, login, unheard>>
    BY <2>1, AuthClientAssumption DEF ExpiryRefreshes
  <2>3. QED
    BY <2>2, SendKeeps
<1>4. CASE \/ UserLeaves \/ LeaveCompletes \/ ExpiryReceived \/ ExpiryConcludes
           \/ ReconcileStarts \/ ReconcileReads \/ ReconcileConcludes
  BY <1>4, NothingMovesKeeps DEF UserLeaves, LeaveCompletes, ExpiryReceived, ExpiryConcludes,
                                 ReconcileStarts, ReconcileReads, ReconcileConcludes
<1>5. QED
  BY <1>1, <1>2, <1>3, <1>4 DEF WebStep

LEMMA SessionInvKept == SessionInv /\ [Next]_vars => SessionInv'
<1>1. SUFFICES ASSUME SessionInv, [Next]_vars PROVE SessionInv'
  OBVIOUS
<1>2. CASE UNCHANGED vars
  BY <1>1, <1>2, NothingMovesKeeps DEF vars, serverVars, tokenVars, rowVars, clientVars
<1>3. QED
  BY <1>1, <1>2, ServerKeeps, NativeKeeps, WebKeeps, LoginStartsKeeps, RestartKeeps DEF Next

\* Reuse detection never revokes a family, and the store never keeps a spent
\* pair, because two refreshes, a forced one, a login or a logout met: only
\* because the reply to a rotation was lost.
THEOREM OnlyLossCostsTheSession == Spec => []ReuseIsExplained
<1>1. SessionInv => ReuseIsExplained
  BY DEF SessionInv, ReuseIsExplained
<1>2. QED
  BY <1>1, SessionInvBegins, SessionInvKept, PTL DEF Spec

-----------------------------------------------------------------------------
(* The types of the session protocol                                       *)

Checked(sid) == {s \in Slots : slot[s].pc = "checked" /\ slot[s].token.sid = sid}

\* What is being minted for a family has its place.
RoomKept ==
    \A sid \in Sids : Cardinality(Family(sid)) + Cardinality(Checked(sid)) <= MaxGen + 1

\* The rest of TypeOK: what Shape does not say.
SmallTypes ==
    /\ lapsed \subseteq minted /\ dead \subseteq lapsed /\ blacklist \subseteq minted
    /\ revoked \subseteq Sids /\ reused \subseteq revoked
    /\ account \in Account /\ events \in 0..MaxEvents
    /\ flag \in BOOLEAN /\ message \in BOOLEAN /\ js \in BOOLEAN
    /\ expiry \in [pc : {"none", "received", "asking"}, boot : BOOLEAN, stale : BOOLEAN]
    /\ reconcile \in [pc : {"none", "asked", "answered"}, stale : BOOLEAN, leave : BOOLEAN]
    /\ leaving \in {"no", "clearing", "cleared", "again"}
    /\ unheard \subseteq Sids

LEMMA CheckedIsFinite ==
    ASSUME NEW sid
    PROVE  IsFiniteSet(Checked(sid)) /\ Cardinality(Checked(sid)) \in Nat
<1>1. IsFiniteSet(Slots)
  BY FS_Interval, AuthServerAssumption DEF Slots
<1>2. Checked(sid) \in SUBSET Slots
  BY DEF Checked
<1>3. QED
  BY <1>1, <1>2, FS_Subset, FS_CardinalityType

LEMMA FamilyIsFinite ==
    ASSUME Numbered, NEW sid \in Sids
    PROVE  IsFiniteSet(Family(sid)) /\ Cardinality(Family(sid)) \in Nat
  BY FS_CardinalityType DEF Numbered

\* A generation's number is below what its family counts, and that is bounded.
LEMMA TypesFollow ==
    ASSUME SessionInv, RoomKept, SmallTypes
    PROVE  TypeOK
<1> USE DEF SessionInv, SmallTypes
<1>1. ASSUME NEW t \in minted PROVE t \in Token
  <2>1. PICK sid \in Sids : sid = t.sid /\ t \in Family(sid)
    BY DEF Shape, Family
  <2>2. Cardinality(Family(sid)) \in Nat /\ Cardinality(Checked(sid)) \in Nat
    BY FamilyIsFinite, CheckedIsFinite
  <2>3. Cardinality(Family(sid)) <= MaxGen + 1
    BY <2>2, AuthServerAssumption DEF RoomKept
  <2>4. t.gen \in Nat /\ t.gen < Cardinality(Family(sid))
    BY <2>1 DEF Shape, Numbered
  <2>5. t.gen \in 0..MaxGen
    BY <2>2, <2>3, <2>4, AuthServerAssumption
  <2>6. QED
    BY <2>1, <2>5 DEF Token, Shape
<1>2. minted \subseteq Token /\ Pairs \subseteq Token \cup {None}
  BY <1>1 DEF Pairs
<1>3. slot \in [Slots -> Request]
  <2>1. \A s \in Slots : slot[s] \in Request
    BY <1>2 DEF Shape, Request, Replies
  <2>2. QED
    BY <2>1 DEF Shape
<1>4. context \in [Contexts -> Context]
  <2>1. \A c \in Contexts : context[c] \in Context
    BY <1>2 DEF Shape, Context
  <2>2. QED
    BY <2>1 DEF Shape
<1>5. /\ store \in Token \cup {None}
      /\ login \in [pc : {"none", "storing", "stored"}, token : Token \cup {None}]
  BY <1>2 DEF Shape
<1>6. ServerTypeOK
  BY <1>2, <1>3 DEF ServerTypeOK, Shape
<1>7. QED
  BY <1>4, <1>5, <1>6 DEF TypeOK, ClientTypeOK

LEMMA RoomBegins == Init => RoomKept /\ SmallTypes
<1> SUFFICES ASSUME Init PROVE RoomKept /\ SmallTypes
  OBVIOUS
<1> USE DEF Init, ServerInit
<1>1. SmallTypes
  <2>1. events \in 0..MaxEvents
    BY AuthServerAssumption
  <2>2. /\ expiry \in [pc : {"none", "received", "asking"}, boot : BOOLEAN, stale : BOOLEAN]
        /\ reconcile \in [pc : {"none", "asked", "answered"}, stale : BOOLEAN, leave : BOOLEAN]
    BY DEF NoExpiry, NoReconcile
  <2>3. /\ lapsed \subseteq minted /\ dead \subseteq lapsed /\ blacklist \subseteq minted
        /\ revoked \subseteq Sids /\ reused \subseteq revoked /\ unheard \subseteq Sids
    OBVIOUS
  <2>4. /\ account \in Account /\ flag \in BOOLEAN /\ message \in BOOLEAN /\ js \in BOOLEAN
        /\ leaving \in {"no", "clearing", "cleared", "again"}
    BY DEF Account
  <2>5. QED
    BY <2>1, <2>2, <2>3, <2>4 DEF SmallTypes
<1>2. \A sid \in Sids : Family(sid) = {} /\ Checked(sid) = {}
  BY DEF Family, Checked, NoRequest
<1>3. \A sid \in Sids : Cardinality(Family(sid)) = 0 /\ Cardinality(Checked(sid)) = 0
  BY <1>2, FS_EmptySet
<1>4. RoomKept
  BY <1>3, AuthServerAssumption DEF RoomKept
<1>5. QED
  BY <1>1, <1>4

\* Most steps mint nothing, and no request passes its checks.
LEMMA NoMintKeepsRoom ==
    ASSUME RoomKept, Numbered, UNCHANGED minted,
           \A s \in Slots : slot'[s].pc = "checked" =>
               slot[s].pc = "checked" /\ slot'[s].token = slot[s].token
    PROVE  RoomKept'
<1> SUFFICES ASSUME NEW sid \in Sids
             PROVE  Cardinality(Family(sid)') + Cardinality(Checked(sid)') <= MaxGen + 1
  BY DEF RoomKept
<1>1. Family(sid)' = Family(sid) /\ Checked(sid)' \in SUBSET Checked(sid)
  BY DEF Family, Checked
<1>2. Cardinality(Checked(sid)') \in Nat /\ Cardinality(Checked(sid)') <= Cardinality(Checked(sid))
  BY <1>1, CheckedIsFinite, FS_Subset, FS_CardinalityType
<1>3. QED
  BY <1>1, <1>2, CheckedIsFinite, FamilyIsFinite, AuthServerAssumption DEF RoomKept

LEMMA ArrivalKeepsRoom ==
    ASSUME RoomKept, Numbered, Shape, NEW s \in Slots, NEW t, RefreshArrives(s, t), UNCHANGED minted
    PROVE  RoomKept'
<1>1. slot'[s].pc = "received" /\ \A r \in Slots \ {s} : slot'[r] = slot[r]
  BY DEF RefreshArrives, Shape
<1>2. QED
  BY <1>1, NoMintKeepsRoom

LEMMA AbandonKeepsRoom ==
    ASSUME RoomKept, Numbered, Shape, NEW S, Abandon(S), UNCHANGED minted
    PROVE  RoomKept'
<1>1. \A r \in Slots : slot'[r].pc = slot[r].pc /\ slot'[r].token = slot[r].token
  BY DEF Abandon, Shape
<1>2. QED
  BY <1>1, NoMintKeepsRoom

LEMMA CheckKeepsRoom ==
    ASSUME RoomKept, SessionInv, NEW s \in Slots, RefreshChecked(s)
    PROVE  RoomKept'
<1> SUFFICES ASSUME NEW sid \in Sids
             PROVE  Cardinality(Family(sid)') + Cardinality(Checked(sid)') <= MaxGen + 1
  BY DEF RoomKept
<1> USE DEF SessionInv
<1>1. /\ slot' = [slot EXCEPT ![s].pc = "checked"] /\ slot[s].pc = "received"
      /\ RoomFor(slot[s].token.sid) /\ UNCHANGED minted
  BY DEF RefreshChecked, tokenVars
<1>2. /\ slot'[s].pc = "checked" /\ slot'[s].token = slot[s].token
      /\ \A r \in Slots \ {s} : slot'[r] = slot[r]
  BY <1>1 DEF Shape
<1>3. Family(sid)' = Family(sid)
  BY <1>1 DEF Family
<1>4. CASE slot[s].token.sid = sid
  <2>1. Checked(sid)' = Checked(sid) \cup {s} /\ s \notin Checked(sid)
    BY <1>1, <1>2, <1>4 DEF Checked
  <2>2. Cardinality(Checked(sid)') = Cardinality(Checked(sid)) + 1
    BY <2>1, CheckedIsFinite, FS_AddElement
  <2>3. Cardinality(Family(sid)) + Cardinality(Checked(sid)) <= MaxGen
    BY <1>1, <1>4 DEF RoomFor, Checked
  <2>4. QED
    BY <1>3, <2>2, <2>3, CheckedIsFinite, FamilyIsFinite, AuthServerAssumption
<1>5. CASE slot[s].token.sid # sid
  <2>1. Checked(sid)' = Checked(sid)
    BY <1>1, <1>2, <1>5 DEF Checked
  <2>2. QED
    BY <1>3, <2>1 DEF RoomKept
<1>6. QED
  BY <1>4, <1>5

LEMMA RotateKeepsRoom ==
    ASSUME RoomKept, SessionInv, NEW s \in Slots, RefreshRotates(s)
    PROVE  RoomKept'
<1> SUFFICES ASSUME NEW sid \in Sids
             PROVE  Cardinality(Family(sid)') + Cardinality(Checked(sid)') <= MaxGen + 1
  BY DEF RoomKept
<1> USE DEF SessionInv
<1>1. PICK t : t = slot[s].token
  OBVIOUS
<1>2. PICK next : next = [sid |-> t.sid, gen |-> Cardinality(Family(t.sid))]
  OBVIOUS
<1>3. /\ slot[s].pc = "checked" /\ minted' = minted \cup {next}
      /\ slot' = [slot EXCEPT ![s].pc = "granted", ![s].pair = next]
  BY <1>1, <1>2 DEF RefreshRotates
<1>4. slot'[s].pc = "granted" /\ \A r \in Slots \ {s} : slot'[r] = slot[r]
  BY <1>3 DEF Shape
<1>5. CASE t.sid = sid
  <2>1. Checked(sid)' = Checked(sid) \ {s} /\ s \in Checked(sid)
    BY <1>1, <1>3, <1>4, <1>5 DEF Checked
  <2>2. Cardinality(Checked(sid)') = Cardinality(Checked(sid)) - 1
    BY <2>1, CheckedIsFinite, FS_RemoveElement
  <2>3. Family(sid)' = Family(sid) \cup {next}
    BY <1>2, <1>3, <1>5 DEF Family
  <2>4. Cardinality(Family(sid)') \in {Cardinality(Family(sid)), Cardinality(Family(sid)) + 1}
    BY <2>3, FamilyIsFinite, FS_AddElement
  <2>5. QED
    BY <2>2, <2>4, CheckedIsFinite, FamilyIsFinite, AuthServerAssumption DEF RoomKept
<1>6. CASE t.sid # sid
  <2>1. next.sid # sid
    BY <1>2, <1>6
  <2>2. Family(sid)' = Family(sid)
    BY <1>3, <2>1 DEF Family
  <2>3. Checked(sid)' = Checked(sid)
    BY <1>1, <1>3, <1>4, <1>6 DEF Checked
  <2>4. QED
    BY <2>2, <2>3 DEF RoomKept
<1>7. QED
  BY <1>5, <1>6

\* A family begins with nothing minted, so with nothing being minted.
LEMMA LoginKeepsRoom ==
    ASSUME RoomKept, SessionInv, NEW new \in Sids, LoginStarts(new)
    PROVE  RoomKept'
<1> SUFFICES ASSUME NEW sid \in Sids
             PROVE  Cardinality(Family(sid)') + Cardinality(Checked(sid)') <= MaxGen + 1
  BY DEF RoomKept
<1> USE DEF SessionInv
<1>1. PICK first : first = [sid |-> new, gen |-> 0]
  OBVIOUS
<1>2. Family(new) = {} /\ minted' = minted \cup {first} /\ UNCHANGED slot
  BY <1>1 DEF LoginStarts, Login
<1>3. Checked(sid)' = Checked(sid)
  BY <1>2 DEF Checked
<1>4. CASE sid = new
  <2>1. Family(sid)' = {first}
    BY <1>1, <1>2, <1>4 DEF Family
  <2>2. Checked(sid) = {}
    BY <1>2, <1>4 DEF Checked, Carried, Open, Family
  <2>3. Cardinality(Family(sid)') = 1 /\ Cardinality(Checked(sid)') = 0
    BY <1>3, <2>1, <2>2, FS_Singleton, FS_EmptySet
  <2>4. QED
    BY <2>3, AuthServerAssumption
<1>5. CASE sid # new
  <2>1. Family(sid)' = Family(sid)
    BY <1>1, <1>2, <1>5 DEF Family
  <2>2. QED
    BY <1>3, <2>1 DEF RoomKept
<1>6. QED
  BY <1>4, <1>5

LEMMA RoomIsKept ==
    ASSUME RoomKept, SessionInv, [Next]_vars
    PROVE  RoomKept'
<1> USE DEF SessionInv
<1>1. CASE UNCHANGED vars
  BY <1>1, NoMintKeepsRoom DEF vars, serverVars, tokenVars
<1>2. CASE ServerStep
  <2>1. ASSUME NEW s \in Slots, RefreshChecked(s) \/ RefreshRotates(s) PROVE RoomKept'
    BY <2>1, CheckKeepsRoom, RotateKeepsRoom
  <2>2. ASSUME \/ \E t \in minted : \/ AccessLapses(t) \/ RefreshLapses(t)
                                     \/ LogoutToken(t) \/ LogoutFamily(t)
               \/ \E standing \in Account : SetAccount(standing)
        PROVE  RoomKept'
    BY <2>2, NoMintKeepsRoom DEF AccessLapses, RefreshLapses, LogoutToken, LogoutFamily, SetAccount
  <2>3. ASSUME NEW s \in Slots,
               RefreshRefused(s) \/ RefreshFails(s) \/ RefreshReplayed(s) \/ RefreshUnheard(s)
        PROVE  RoomKept'
    <3>1. UNCHANGED minted
      BY <2>3 DEF RefreshRefused, RefreshFails, RefreshReplayed, RefreshUnheard, tokenVars
    <3>2. /\ slot' \in {[slot EXCEPT ![s].pc = "rejected"], [slot EXCEPT ![s].pc = "failed"],
                        [slot EXCEPT ![s] = NoRequest]}
      BY <2>3 DEF RefreshRefused, RefreshFails, RefreshReplayed, RefreshUnheard, Answer
    <3>3. slot'[s].pc # "checked" /\ \A r \in Slots \ {s} : slot'[r] = slot[r]
      BY <3>2 DEF Shape, NoRequest
    <3>4. QED
      BY <3>1, <3>3, NoMintKeepsRoom
  <2>4. QED
    BY <1>2, <2>1, <2>2, <2>3 DEF ServerStep, ServerAnswers
<1>3. ASSUME NEW c \in Contexts, Native(c) PROVE RoomKept'
  <2>1. UNCHANGED minted
    BY <1>3 DEF Native, ForceQueues, ForceSpared, RefreshIfNeeded, ForceSends, ReplyStored,
                ReplyRejected, ReplyFailed, CallLost, serverVars, tokenVars
  <2>2. CASE ForceQueues(c) \/ ForceSpared(c)
    BY <2>1, <2>2, NoMintKeepsRoom DEF ForceQueues, ForceSpared, serverVars
  <2>3. CASE \E s \in Slots : RefreshIfNeeded(c, s) \/ ForceSends(c, s)
    BY <2>1, <2>3, ArrivalKeepsRoom DEF RefreshIfNeeded, ForceSends, Send
  <2>4. CASE ReplyStored(c) \/ ReplyRejected(c) \/ ReplyFailed(c)
    <3>1. context[c].slot \in Slots /\ slot' = [slot EXCEPT ![context[c].slot] = NoRequest]
      BY <2>4 DEF ReplyStored, ReplyRejected, ReplyFailed, Answered, OneCall, Calling
    <3>2. \A r \in Slots : slot'[r].pc = "checked" => slot'[r] = slot[r]
      BY <3>1 DEF NoRequest, Shape
    <3>3. QED
      BY <2>1, <3>2, NoMintKeepsRoom
  <2>5. CASE CallLost(c)
    BY <2>1, <2>5, AbandonKeepsRoom DEF CallLost
  <2>6. QED
    BY <1>3, <2>2, <2>3, <2>4, <2>5 DEF Native
<1>4. ASSUME NEW sid \in Sids, LoginStarts(sid) PROVE RoomKept'
  BY <1>4, LoginKeepsRoom
<1>5. CASE WebStep
  <2>1. ASSUME NEW s \in Slots, ExpiryRefreshes(s) PROVE RoomKept'
    BY <2>1, ArrivalKeepsRoom DEF ExpiryRefreshes, Send, tokenVars
  <2>2. CASE ~ \E s \in Slots : ExpiryRefreshes(s)
    <3>1. UNCHANGED <<minted, slot>>
      BY <1>5, <2>2 DEF WebStep, LoginStored, LoginCompletes, UserLeaves, NativeCleared,
             LeaveCompletes, ExpiryReceived, ExpiryConcludes, ReconcileStarts, ReconcileReads,
             ReconcileConcludes, Unchanged, serverVars, tokenVars
    <3>2. QED
      BY <3>1, NoMintKeepsRoom
  <2>3. QED
    BY <2>1, <2>2
<1>6. CASE Restart
  BY <1>6, AbandonKeepsRoom DEF Restart, tokenVars
<1>7. QED
  BY <1>1, <1>2, <1>3, <1>4, <1>5, <1>6 DEF Next

\* The slots a step may change, and the families it may forget about.
LEMMA SmallTypesKept ==
    ASSUME SmallTypes, SessionInv, [Next]_vars
    PROVE  SmallTypes'
<1> USE DEF SmallTypes, SessionInv
<1>1. CASE UNCHANGED vars
  BY <1>1 DEF vars, serverVars, tokenVars, timeVars, rowVars, clientVars
<1>2. CASE ServerStep /\ UNCHANGED clientVars
  <2> USE <1>2 DEF clientVars, tokenVars, timeVars, rowVars, Event
  <2>1. ASSUME NEW t \in minted,
               AccessLapses(t) \/ RefreshLapses(t) \/ LogoutToken(t) \/ LogoutFamily(t)
        PROVE  SmallTypes'
    <3>1. t.sid \in Sids
      BY DEF Shape
    <3>2. events' \in 0..MaxEvents
      BY <2>1, AuthServerAssumption DEF AccessLapses, RefreshLapses, LogoutToken, LogoutFamily
    <3>3. QED
      BY <2>1, <3>1, <3>2 DEF AccessLapses, RefreshLapses, LogoutToken, LogoutFamily
  <2>2. ASSUME NEW standing \in Account, SetAccount(standing) PROVE SmallTypes'
    BY <2>2, AuthServerAssumption DEF SetAccount
  <2>3. ASSUME NEW s \in Slots,
               RefreshFails(s) \/ RefreshRefused(s) \/ RefreshChecked(s) \/ RefreshUnheard(s)
        PROVE  SmallTypes'
    BY <2>3, AuthServerAssumption DEF RefreshFails, RefreshRefused, RefreshChecked, RefreshUnheard
  <2>4. ASSUME NEW s \in Slots, RefreshReplayed(s) PROVE SmallTypes'
    <3>1. slot[s].token.sid \in Sids
      BY <2>4 DEF RefreshReplayed, Carried, Open, Shape
    <3>2. QED
      BY <2>4, <3>1 DEF RefreshReplayed
  <2>5. ASSUME NEW s \in Slots, RefreshRotates(s) PROVE SmallTypes'
    BY <2>5 DEF RefreshRotates
  <2>6. QED
    BY <2>1, <2>2, <2>3, <2>4, <2>5 DEF ServerStep, ServerAnswers
<1>3. ASSUME NEW c \in Contexts, Native(c) PROVE SmallTypes'
  <2> USE DEF serverVars, tokenVars, timeVars, rowVars, storeVars, webVars
  <2>1. CASE CallLost(c)
    <3>1. slot[context[c].slot].token.sid \in Sids
      BY <2>1 DEF CallLost, OneCall, Calling, Carried, Shape
    <3>2. unheard' \subseteq Sids
      BY <2>1, <3>1 DEF CallLost, Abandon
    <3>3. events' \in 0..MaxEvents
      BY <2>1, AuthServerAssumption DEF CallLost, Event
    <3>4. QED
      BY <2>1, <3>2, <3>3 DEF CallLost
  <2>2. CASE ~ CallLost(c)
    BY <1>3, <2>2 DEF Native, ForceQueues, ForceSpared, RefreshIfNeeded, ForceSends, ReplyStored,
                      ReplyRejected, ReplyFailed
  <2>3. QED
    BY <2>1, <2>2
<1>4. ASSUME NEW sid \in Sids, LoginStarts(sid) PROVE SmallTypes'
  BY <1>4 DEF LoginStarts, Login, timeVars, rowVars, storeVars
<1>5. CASE WebStep
  <2> USE DEF Unchanged, serverVars, tokenVars, timeVars, rowVars, storeVars
  <2>1. /\ UNCHANGED <<lapsed, dead, minted, blacklist, revoked, reused, account, events, unheard>>
        /\ flag' \in BOOLEAN /\ message' \in BOOLEAN
    BY <1>5 DEF WebStep, LoginStored, LoginCompletes, UserLeaves, NativeCleared,
           LeaveCompletes, ExpiryReceived, ExpiryRefreshes, ExpiryConcludes, ReconcileStarts,
           ReconcileReads, ReconcileConcludes
  <2>2. js' \in BOOLEAN /\ leaving' \in {"no", "clearing", "cleared", "again"}
    BY <1>5 DEF WebStep, LoginStored, LoginCompletes, UserLeaves, NativeCleared,
           LeaveCompletes, ExpiryReceived, ExpiryRefreshes, ExpiryConcludes, ReconcileStarts,
           ReconcileReads, ReconcileConcludes, Leave, Live
  <2>3. expiry' \in [pc : {"none", "received", "asking"}, boot : BOOLEAN, stale : BOOLEAN]
    <3>1. CASE \/ UserLeaves \/ NativeCleared \/ LeaveCompletes \/ ReconcileStarts
               \/ ReconcileReads \/ ReconcileConcludes
               \/ \E registered \in BOOLEAN : LoginStored(registered)
      BY <3>1 DEF LoginStored, UserLeaves, NativeCleared, LeaveCompletes, ReconcileStarts,
             ReconcileReads, ReconcileConcludes
    <3>2. CASE ExpiryReceived \/ ExpiryConcludes
      <4>1. expiry' \in {NoExpiry, [pc |-> "received", boot |-> FALSE, stale |-> FALSE]}
        BY <3>2 DEF ExpiryReceived, ExpiryConcludes, NoExpiry
      <4>2. /\ NoExpiry \in [pc : {"none", "received", "asking"}, boot : BOOLEAN, stale : BOOLEAN]
            /\ [pc |-> "received", boot |-> FALSE, stale |-> FALSE] \in
                  [pc : {"none", "received", "asking"}, boot : BOOLEAN, stale : BOOLEAN]
        BY DEF NoExpiry
      <4>3. QED
        BY <4>1, <4>2
    <3>3. CASE LoginCompletes \/ \E s \in Slots : ExpiryRefreshes(s)
      BY <3>3 DEF LoginCompletes, ExpiryRefreshes
    <3>4. QED
      BY <1>5, <3>1, <3>2, <3>3 DEF WebStep
  <2>4. reconcile' \in [pc : {"none", "asked", "answered"}, stale : BOOLEAN, leave : BOOLEAN]
    <3>1. CASE \/ UserLeaves \/ NativeCleared \/ LeaveCompletes \/ ExpiryReceived
               \/ ExpiryConcludes \/ \E s \in Slots : ExpiryRefreshes(s)
               \/ \E registered \in BOOLEAN : LoginStored(registered)
      BY <3>1 DEF LoginStored, UserLeaves, NativeCleared, LeaveCompletes, ExpiryReceived,
             ExpiryConcludes, ExpiryRefreshes
    <3>2. CASE ReconcileStarts \/ ReconcileConcludes
      <4>1. reconcile' \in {NoReconcile, [pc |-> "asked", stale |-> FALSE, leave |-> js]}
        BY <3>2 DEF ReconcileStarts, ReconcileConcludes, NoReconcile
      <4>2. /\ NoReconcile \in
                  [pc : {"none", "asked", "answered"}, stale : BOOLEAN, leave : BOOLEAN]
            /\ [pc |-> "asked", stale |-> FALSE, leave |-> js] \in
                  [pc : {"none", "asked", "answered"}, stale : BOOLEAN, leave : BOOLEAN]
        BY DEF NoReconcile
      <4>3. QED
        BY <4>1, <4>2
    <3>3. CASE LoginCompletes \/ ReconcileReads
      BY <3>3 DEF LoginCompletes, ReconcileReads
    <3>4. QED
      BY <1>5, <3>1, <3>2, <3>3 DEF WebStep
  <2>5. QED
    BY <2>1, <2>2, <2>3, <2>4
<1>6. CASE Restart
  <2>1. PICK S : S = {context[c].slot : c \in {d \in Contexts : context[d].pc = "calling"}}
    OBVIOUS
  <2>2. \A s \in S : slot[s].token.sid \in Sids
    BY <2>1 DEF OneCall, Calling, Carried, Shape
  <2>3. unheard' \subseteq Sids
    BY <1>6, <2>1, <2>2 DEF Restart, Abandon
  <2>4. events' \in 0..MaxEvents
    BY <1>6, AuthServerAssumption DEF Restart, Event
  <2>5. /\ expiry' \in [pc : {"none", "received", "asking"}, boot : BOOLEAN, stale : BOOLEAN]
        /\ reconcile' \in [pc : {"none", "asked", "answered"}, stale : BOOLEAN, leave : BOOLEAN]
    BY <1>6 DEF Restart, NoExpiry, NoReconcile
  <2>6. QED
    BY <1>6, <2>3, <2>4, <2>5 DEF Restart, tokenVars, timeVars, rowVars, storeVars
<1>7. QED
  BY <1>1, <1>2, <1>3, <1>4, <1>5, <1>6 DEF Next

SessionTyped == SessionInv /\ RoomKept /\ SmallTypes

LEMMA SessionTypedBegins == Init => SessionTyped
  BY SessionInvBegins, RoomBegins DEF SessionTyped

LEMMA SessionTypedKept == SessionTyped /\ [Next]_vars => SessionTyped'
  BY SessionInvKept, RoomIsKept, SmallTypesKept DEF SessionTyped

LEMMA SessionTypesFollow == SessionTyped => TypeOK
  BY TypesFollow DEF SessionTyped

-----------------------------------------------------------------------------
(* Sizes of sets                                                           *)

LEMMA AtMostOneMore ==
    ASSUME NEW S, NEW x, IsFiniteSet(S)
    PROVE  /\ Cardinality(S \cup {x}) \in Nat
           /\ Cardinality(S \cup {x}) <= Cardinality(S) + 1
<1>1. Cardinality(S) \in Nat
  BY FS_CardinalityType
<1>2. Cardinality(S \cup {x}) = IF x \in S THEN Cardinality(S) ELSE Cardinality(S) + 1
  BY FS_AddElement
<1>3. QED
  BY <1>1, <1>2

LEMMA AtLeastOneLess ==
    ASSUME NEW S, NEW x, IsFiniteSet(S)
    PROVE  /\ Cardinality(S \ {x}) \in Nat
           /\ Cardinality(S \ {x}) <= Cardinality(S)
<1>1. IsFiniteSet(S \ {x})
  BY FS_RemoveElement
<1>2. Cardinality(S) \in Nat /\ Cardinality(S \ {x}) \in Nat
  BY <1>1, FS_CardinalityType
<1>3. Cardinality(S \ {x}) = IF x \in S THEN Cardinality(S) - 1 ELSE Cardinality(S)
  BY FS_RemoveElement
<1>4. QED
  BY <1>2, <1>3

LEMMA UpTo ==
    ASSUME NEW n \in Nat
    PROVE  IsFiniteSet(1..n) /\ Cardinality(1..n) = n
<1>1. 1 \in Int /\ n \in Int
  OBVIOUS
<1>2. IsFiniteSet(1..n) /\ Cardinality(1..n) = IF 1 > n THEN 0 ELSE n - 1 + 1
  BY <1>1, FS_Interval
<1>3. QED
  BY <1>2

LEMMA OneRow ==
    ASSUME NEW u, NEW n \in Nat
    PROVE  Cardinality({u} \X (1..n)) = n
<1>1. IsFiniteSet({u}) /\ Cardinality({u}) = 1
  BY FS_Singleton
<1>2. Cardinality({u} \X (1..n)) = Cardinality({u}) * Cardinality(1..n)
  BY <1>1, UpTo, FS_Product
<1>3. QED
  BY <1>1, <1>2, UpTo

-----------------------------------------------------------------------------
(* The types of the worker's pool                                          *)

Messages == Jobs \X {"picked", "ok", "error"}

PoolTyped == PoolTypeOK /\ results \in Seq(Messages)

LEMMA PoolTypedBegins == PoolInit => PoolTyped
<1> SUFFICES ASSUME PoolInit PROVE PoolTyped
  OBVIOUS
<1> USE DEF PoolInit
<1>1. results \in Seq(Messages) /\ \A i \in DOMAIN results : results[i] \in Messages
  OBVIOUS
<1>2. running \subseteq Jobs /\ Cardinality(running) <= Threads
  BY FS_EmptySet, PoolAssumption
<1>3. serial \in 0..RecoveryJobs /\ faults \in 0..MaxFaults
  BY PoolAssumption
<1>4. QED
  BY <1>1, <1>2, <1>3 DEF PoolTyped, PoolTypeOK, Messages

\* The child dies: its threads are gone, and the end of what it had put out.
LEMMA DeathIsTyped ==
    ASSUME PoolTyped, NEW how, ChildDies(how)
    PROVE  /\ results' \in Seq(Messages)
           /\ poisoned' \in BOOLEAN
           /\ running' \subseteq Jobs /\ Cardinality(running') <= Threads
<1>1. PICK n \in 0..Len(results) : results' = SubSeq(results, 1, n)
  BY DEF ChildDies
<1>2. results' \in Seq(Messages)
  BY <1>1 DEF PoolTyped
<1>3. running' = {} /\ poisoned' \in BOOLEAN
  BY DEF ChildDies
<1>4. QED
  BY <1>2, <1>3, FS_EmptySet, PoolAssumption

\* What the loop's steps change.
LEMMA LoopIsTyped ==
    ASSUME PoolTyped, NEW j \in Jobs,
           TakeSlot(j) \/ Submit(j) \/ WaitTimesOut(j) \/ AnswerJob(j)
    PROVE  PoolTyped'
<1> USE DEF PoolTyped, PoolTypeOK
<1>1. job' \in [Jobs -> {"queued", "gate", "submitted", "done"}] /\ jobQueue' \subseteq Jobs
  BY DEF TakeSlot, Submit, WaitTimesOut, AnswerJob, End
<1>2. UNCHANGED <<posted, inflight, results, running, child, doomed, poisoned, serial, faults>>
  BY DEF TakeSlot, Submit, WaitTimesOut, AnswerJob, elsewhere
<1>3. QED
  BY <1>1, <1>2

LEMMA TimesOutIsTyped ==
    ASSUME PoolTyped, NEW j \in Jobs, TimesOut(j)
    PROVE  PoolTyped'
<1> USE DEF PoolTyped, PoolTypeOK
<1>1. /\ job' \in [Jobs -> {"queued", "gate", "submitted", "done"}] /\ faults' \in 0..MaxFaults
      /\ inflight' \subseteq Jobs /\ UNCHANGED <<posted, jobQueue, doomed, serial>>
  BY PoolAssumption DEF TimesOut, End
<1>2. /\ results' \in Seq(Messages) /\ poisoned' \in BOOLEAN
      /\ running' \subseteq Jobs /\ Cardinality(running') <= Threads
      /\ child' \in {child, "terminated"}
  <2>1. CASE j \in inflight /\ Alive
    BY <2>1, DeathIsTyped DEF TimesOut, ChildDies
  <2>2. CASE ~ (j \in inflight /\ Alive)
    BY <2>2 DEF TimesOut
  <2>3. QED
    BY <2>1, <2>2
<1>3. \A i \in DOMAIN results' : results'[i] \in Messages
  BY <1>2
<1>4. QED
  BY <1>1, <1>2, <1>3 DEF Messages

LEMMA ChildIsTyped ==
    ASSUME PoolTyped,
           \/ WarmUp \/ Killed
           \/ \E j \in Jobs : Pull(j) \/ \E outcome \in {"ok", "error"} : Finish(j, outcome)
    PROVE  PoolTyped'
<1> USE DEF PoolTyped, PoolTypeOK
<1>1. CASE WarmUp
  BY <1>1 DEF WarmUp, parentVars
<1>2. ASSUME NEW j \in Jobs, Pull(j) PROVE PoolTyped'
  <2>1. /\ jobQueue' \subseteq Jobs /\ running' = running \cup {j}
        /\ results' = Append(results, <<j, "picked">>) /\ Cardinality(running) < Threads
        /\ UNCHANGED <<parentVars, child, poisoned, faults>>
    BY <1>2 DEF Pull
  <2>2. IsFiniteSet(running) /\ Cardinality(running) \in Nat
    BY PoolAssumption, FS_Subset, FS_CardinalityType
  <2>3. Cardinality(running') <= Threads
    <3>1. /\ Cardinality(running \cup {j}) <= Cardinality(running) + 1
          /\ Cardinality(running \cup {j}) \in Nat
      BY <2>2, AtMostOneMore
    <3>2. QED
      BY <2>1, <2>2, <3>1, PoolAssumption
  <2>4. results' \in Seq(Messages) /\ \A i \in DOMAIN results' : results'[i] \in Messages
    <3>1. <<j, "picked">> \in Messages
      BY DEF Messages
    <3>2. results' \in Seq(Messages)
      BY <2>1, <3>1
    <3>3. QED
      BY <3>2
  <2>5. QED
    BY <2>1, <2>3, <2>4 DEF parentVars, Messages
<1>3. ASSUME NEW j \in Jobs, NEW outcome \in {"ok", "error"}, Finish(j, outcome) PROVE PoolTyped'
  <2>1. /\ results' = Append(results, <<j, outcome>>) /\ running' = running \ {j}
        /\ UNCHANGED <<parentVars, jobQueue, child, poisoned, faults>>
    BY <1>3 DEF Finish
  <2>2. IsFiniteSet(running) /\ Cardinality(running) \in Nat
    BY PoolAssumption, FS_Subset, FS_CardinalityType
  <2>3. Cardinality(running') <= Threads
    <3>1. /\ Cardinality(running \ {j}) <= Cardinality(running)
          /\ Cardinality(running \ {j}) \in Nat
      BY <2>2, AtLeastOneLess
    <3>2. QED
      BY <2>1, <2>2, <3>1, PoolAssumption
  <2>4. results' \in Seq(Messages) /\ \A i \in DOMAIN results' : results'[i] \in Messages
    <3>1. <<j, outcome>> \in Messages
      BY DEF Messages
    <3>2. results' \in Seq(Messages)
      BY <2>1, <3>1
    <3>3. QED
      BY <3>2
  <2>5. QED
    BY <2>1, <2>3, <2>4 DEF parentVars, Messages
<1>4. CASE Killed
  <2>1. /\ results' \in Seq(Messages) /\ poisoned' \in BOOLEAN
        /\ running' \subseteq Jobs /\ Cardinality(running') <= Threads
    BY <1>4, DeathIsTyped DEF Killed
  <2>2. \A i \in DOMAIN results' : results'[i] \in Messages
    BY <2>1
  <2>3. child' = "killed" /\ faults' \in 0..MaxFaults /\ UNCHANGED <<parentVars, jobQueue>>
    BY <1>4, PoolAssumption DEF Killed, ChildDies
  <2>4. QED
    BY <2>1, <2>2, <2>3 DEF parentVars, Messages
<1>5. QED
  BY <1>1, <1>2, <1>3, <1>4

LEMMA DrainIsTyped ==
    ASSUME PoolTyped, Drain
    PROVE  PoolTyped'
<1> USE DEF PoolTyped, PoolTypeOK
<1>1. PICK m \in Messages : m = Head(results)
  BY DEF Drain
<1>2. m[1] \in Jobs /\ m[2] \in {"picked", "ok", "error"}
  BY DEF Messages
<1>3. results' = Tail(results) /\ results # <<>>
      /\ UNCHANGED <<job, jobQueue, running, child, doomed, poisoned, faults>>
  BY DEF Drain
<1>4. results' \in Seq(Messages) /\ \A i \in DOMAIN results' : results'[i] \in Messages
  <2>1. results' \in Seq(Messages)
    BY <1>3
  <2>2. QED
    BY <2>1
<1>5. inflight' \subseteq Jobs
  BY <1>1, <1>2 DEF Drain
<1>6. posted' \in [Jobs -> {"none", "ok", "error", "died"}]
  <2>1. CASE m[2] = "picked"
    BY <1>1, <2>1 DEF Drain
  <2>2. CASE m[2] # "picked"
    <3>1. Post({m[1]}, m[2]) /\ m[2] \in {"ok", "error"}
      BY <1>1, <1>2, <2>2 DEF Drain
    <3>2. QED
      BY <3>1 DEF Post
  <2>3. QED
    BY <2>1, <2>2
<1>7. serial' \in {serial, serial - 1} /\ (serial' = serial - 1 => serial > 0)
  BY <1>1, PoolAssumption DEF Drain
<1>8. serial' \in 0..RecoveryJobs
  BY <1>7, PoolAssumption
<1>9. QED
  BY <1>3, <1>4, <1>5, <1>6, <1>8 DEF Messages

LEMMA SupervisorIsTyped ==
    ASSUME PoolTyped, FailInflight \/ RebuildAndSpawn
    PROVE  PoolTyped'
<1> USE DEF PoolTyped, PoolTypeOK
<1>1. CASE FailInflight
  <2>1. posted' \in [Jobs -> {"none", "ok", "error", "died"}]
    BY <1>1 DEF FailInflight, Post
  <2>2. serial' \in 0..RecoveryJobs
    BY <1>1, PoolAssumption DEF FailInflight
  <2>3. QED
    BY <1>1, <2>1, <2>2 DEF FailInflight
<1>2. CASE RebuildAndSpawn
  <2>1. results' \in Seq(Messages)
    <3>1. \A i \in DOMAIN results : results[i] \in Messages
      BY DEF Messages
    <3>2. results' = <<>> \/ \E i \in DOMAIN results : results' = <<results[i]>>
      BY <1>2 DEF RebuildAndSpawn
    <3>3. CASE results' = <<>>
      BY <3>3
    <3>4. ASSUME NEW m \in Messages, results' = <<m>> PROVE results' \in Seq(Messages)
      BY <3>4
    <3>5. QED
      BY <3>1, <3>2, <3>3, <3>4
  <2>2. \A i \in DOMAIN results' : results'[i] \in Messages
    BY <2>1
  <2>3. jobQueue' \subseteq Jobs
    BY <1>2 DEF RebuildAndSpawn, Requeue, Pending, At
  <2>4. QED
    BY <1>2, <2>1, <2>2, <2>3 DEF RebuildAndSpawn, Messages
<1>3. QED
  BY <1>1, <1>2

LEMMA PoolTypedKept == PoolTyped /\ [PoolNext]_poolVars => PoolTyped'
<1> SUFFICES ASSUME PoolTyped, [PoolNext]_poolVars PROVE PoolTyped'
  OBVIOUS
<1>1. CASE UNCHANGED poolVars
  BY <1>1 DEF poolVars, PoolTyped, PoolTypeOK
<1>2. ASSUME NEW j \in Jobs,
             \/ TakeSlot(j) \/ SubmitForced(j) \/ SubmitWithRam(j)
             \/ WaitTimesOut(j) \/ AnswerJob(j)
      PROVE  PoolTyped'
  BY <1>2, LoopIsTyped DEF SubmitForced, SubmitWithRam
<1>3. QED
  BY <1>1, <1>2, TimesOutIsTyped, ChildIsTyped, DrainIsTyped, SupervisorIsTyped
     DEF PoolNext, PoolProgress

-----------------------------------------------------------------------------
(* The types of the machine                                                *)

\* Of the pingback threads, those that have counted themselves and those that
\* are about to are never more than _PINGBACKS_PER_WORKER.
ThreadsBounded == Count(launched) + Count(pingbacks) <= Pingbacks

MachineTyped == MachineTypeOK /\ ThreadsBounded

\* What Count counts.
Counted(f) == {t \in Uploads \X (1..Pingbacks) : t[2] <= f[t[1]]}

LEMMA CountedIsFinite ==
    ASSUME NEW f
    PROVE  IsFiniteSet(Counted(f)) /\ Count(f) = Cardinality(Counted(f)) /\ Count(f) \in Nat
<1>1. IsFiniteSet(Uploads \X (1..Pingbacks))
  <2>1. Pingbacks \in Nat /\ IsFiniteSet(Uploads)
    BY MachineAssumption
  <2>2. QED
    BY <2>1, UpTo, FS_Product
<1>2. Counted(f) \in SUBSET (Uploads \X (1..Pingbacks))
  BY DEF Counted
<1>3. Count(f) = Cardinality(Counted(f))
  BY DEF Count, Counted
<1>4. QED
  BY <1>1, <1>2, <1>3, FS_Subset, FS_CardinalityType

\* One thread less for one task, one less in all.
LEMMA OneLess ==
    ASSUME NEW f \in [Uploads -> 0..Pingbacks], NEW u \in Uploads, f[u] > 0
    PROVE  /\ [f EXCEPT ![u] = @ - 1] \in [Uploads -> 0..Pingbacks]
           /\ Count([f EXCEPT ![u] = @ - 1]) = Count(f) - 1
<1>1. PICK g : g = [f EXCEPT ![u] = @ - 1]
  OBVIOUS
<1>2. g \in [Uploads -> 0..Pingbacks] /\ g[u] = f[u] - 1 /\ \A v \in Uploads \ {u} : g[v] = f[v]
  BY <1>1, MachineAssumption
<1>3. f[u] \in 1..Pingbacks
  BY MachineAssumption
<1>4. Counted(g) = Counted(f) \ {<<u, f[u]>>}
  <2>1. ASSUME NEW v \in Uploads, NEW i \in 1..Pingbacks
        PROVE  <<v, i>> \in Counted(g) <=> <<v, i>> \in Counted(f) /\ <<v, i>> # <<u, f[u]>>
    <3>1. CASE v = u
      BY <1>2, <1>3, <3>1, MachineAssumption DEF Counted
    <3>2. CASE v # u
      BY <1>2, <3>2 DEF Counted
    <3>3. QED
      BY <3>1, <3>2
  <2>2. QED
    BY <2>1 DEF Counted
<1>5. <<u, f[u]>> \in Counted(f)
  BY <1>3 DEF Counted
<1>6. Cardinality(Counted(g)) = Cardinality(Counted(f)) - 1
  BY <1>4, <1>5, CountedIsFinite, FS_RemoveElement
<1>7. QED
  BY <1>1, <1>2, <1>6, CountedIsFinite

LEMMA OneMore ==
    ASSUME NEW f \in [Uploads -> 0..Pingbacks], NEW u \in Uploads, f[u] < Pingbacks
    PROVE  /\ [f EXCEPT ![u] = @ + 1] \in [Uploads -> 0..Pingbacks]
           /\ Count([f EXCEPT ![u] = @ + 1]) = Count(f) + 1
<1>1. PICK g : g = [f EXCEPT ![u] = @ + 1]
  OBVIOUS
<1>2. /\ g \in [Uploads -> 0..Pingbacks] /\ g[u] = f[u] + 1 /\ f[u] \in Nat
      /\ \A v \in Uploads \ {u} : g[v] = f[v]
  BY <1>1, MachineAssumption
<1>6. g[u] > 0 /\ g[u] - 1 = f[u]
  BY <1>2
<1>7. [g EXCEPT ![u] = @ - 1] = f
  BY <1>2, <1>6
<1>3. Count(f) = Count(g) - 1
  BY <1>2, <1>6, <1>7, OneLess
<1>4. Count(f) \in Nat /\ Count(g) \in Nat
  BY CountedIsFinite
<1>5. QED
  BY <1>1, <1>2, <1>3, <1>4

\* A task's threads are among all.
LEMMA OneOfAll ==
    ASSUME NEW f \in [Uploads -> 0..Pingbacks], NEW u \in Uploads
    PROVE  f[u] <= Count(f)
<1>1. {u} \X (1..f[u]) \in SUBSET Counted(f)
  BY MachineAssumption DEF Counted
<1>2. f[u] \in Nat
  BY MachineAssumption
<1>4. Cardinality({u} \X (1..f[u])) = f[u]
  BY <1>2, OneRow
<1>5. Cardinality({u} \X (1..f[u])) <= Cardinality(Counted(f))
  BY <1>1, CountedIsFinite, FS_Subset
<1>6. QED
  BY <1>4, <1>5, CountedIsFinite

\* From none at all, as many as one task is given.
LEMMA FromNone ==
    ASSUME NEW f \in [Uploads -> 0..Pingbacks], NEW u \in Uploads, NEW n \in 0..Pingbacks,
           Count(f) = 0
    PROVE  /\ [f EXCEPT ![u] = n] \in [Uploads -> 0..Pingbacks]
           /\ Count([f EXCEPT ![u] = n]) = n
<1>1. PICK g : g = [f EXCEPT ![u] = n]
  OBVIOUS
<1>2. \A v \in Uploads : f[v] = 0
  <2>1. ASSUME NEW v \in Uploads PROVE f[v] = 0
    <3>1. f[v] <= 0 /\ f[v] \in 0..Pingbacks
      BY OneOfAll
    <3>2. QED
      BY <3>1, MachineAssumption
  <2>2. QED
    BY <2>1
<1>3. /\ g \in [Uploads -> 0..Pingbacks] /\ g[u] = n
      /\ \A v \in Uploads \ {u} : g[v] = 0
  BY <1>1, <1>2
<1>4. Counted(g) = {u} \X (1..n)
  <2>1. ASSUME NEW v \in Uploads, NEW i \in 1..Pingbacks
        PROVE  <<v, i>> \in Counted(g) <=> v = u /\ i \in 1..n
    BY <1>3, MachineAssumption DEF Counted
  <2>2. \A t \in Counted(g) : t \in {u} \X (1..n)
    BY <2>1 DEF Counted
  <2>3. \A t \in {u} \X (1..n) : t \in Counted(g)
    BY <2>1, MachineAssumption DEF Counted
  <2>4. QED
    BY <2>2, <2>3
<1>7. n \in Nat
  BY MachineAssumption
<1>5. Cardinality({u} \X (1..n)) = n
  BY <1>7, OneRow
<1>6. Count(g) = n
  BY <1>4, <1>5, CountedIsFinite
<1>8. QED
  BY <1>1, <1>3, <1>6

LEMMA MachineTypedBegins == MachineInit => MachineTyped
<1> SUFFICES ASSUME MachineInit PROVE MachineTyped
  OBVIOUS
<1> USE DEF MachineInit
<1>1. MachineTypeOK
  <2>1. launched \in [Uploads -> 0..Pingbacks] /\ pingbacks \in [Uploads -> 0..Pingbacks]
    BY MachineAssumption
  <2>2. upload \in [Uploads -> {"out", "body", "accepted", "done", "lost"}]
    OBVIOUS
  <2>3. freezes \in 0..MaxFreezes
    BY MachineAssumption
  <2>4. quiet \in BOOLEAN /\ late \subseteq Uploads /\ machine = "stopped"
    OBVIOUS
  <2>5. QED
    BY <2>1, <2>2, <2>3, <2>4 DEF MachineTypeOK
<1>2. Counted(launched) = {} /\ Counted(pingbacks) = {}
  BY MachineAssumption DEF Counted
<1>3. Count(launched) = 0 /\ Count(pingbacks) = 0
  BY <1>2, CountedIsFinite, FS_EmptySet
<1>4. QED
  BY <1>1, <1>3, MachineAssumption DEF MachineTyped, ThreadsBounded

\* What the machine does does not start or end a thread of the API.
LEMMA MachineAloneIsTyped ==
    ASSUME MachineTyped, UNCHANGED apiVars,
           machine' \in {"up", "signalled", "closing", "stopped", "frozen"},
           upload' \in [Uploads -> {"out", "body", "accepted", "done", "lost"}],
           quiet' \in BOOLEAN, late' \subseteq Uploads, freezes' \in 0..MaxFreezes
    PROVE  MachineTyped'
  BY DEF MachineTyped, MachineTypeOK, ThreadsBounded, apiVars, Count

\* One thread less, or one that counts itself.
LEMMA ApiIsTyped ==
    ASSUME MachineTyped, NEW u \in Uploads,
           Ping(u) \/ ThreadStarts(u) \/ ThreadEnds(u) \/ ThreadGivesUp(u)
    PROVE  MachineTyped'
<1> USE DEF MachineTyped, MachineTypeOK
<1>1. UNCHANGED <<machine, upload, quiet, late, freezes>>
  BY DEF Ping, ThreadStarts, ThreadEnds, ThreadGivesUp
<1>2. Count(launched) \in Nat /\ Count(pingbacks) \in Nat /\ Pingbacks \in Nat
  BY CountedIsFinite, MachineAssumption
<1>3. CASE Ping(u)
  <2>1. PICK n : n = Pingbacks - Count(pingbacks)
    OBVIOUS
  <2>2. /\ launched' = [launched EXCEPT ![u] = n] /\ UNCHANGED pingbacks
        /\ Count(launched) = 0 /\ Count(pingbacks) < Pingbacks
    BY <1>3, <2>1 DEF Ping
  <2>3. n \in 0..Pingbacks
    BY <1>2, <2>1, <2>2
  <2>4. launched' \in [Uploads -> 0..Pingbacks] /\ Count(launched') = n
    <3>1. /\ [launched EXCEPT ![u] = n] \in [Uploads -> 0..Pingbacks]
          /\ Count([launched EXCEPT ![u] = n]) = n
      <4>1. \A f \in [Uploads -> 0..Pingbacks] : Count(f) = 0 =>
               /\ [f EXCEPT ![u] = n] \in [Uploads -> 0..Pingbacks]
               /\ Count([f EXCEPT ![u] = n]) = n
        BY <2>3, FromNone
      <4>2. QED
        BY <2>2, <4>1
    <3>2. QED
      BY <2>2, <3>1
  <2>5. Count(pingbacks') = Count(pingbacks)
    BY <2>2
  <2>6. Count(launched') + Count(pingbacks') <= Pingbacks
    BY <1>2, <2>1, <2>4, <2>5
  <2>7. QED
    BY <1>1, <2>2, <2>4, <2>6 DEF ThreadsBounded, Count
<1>4. CASE ThreadStarts(u)
  <2>1. /\ launched[u] > 0 /\ launched' = [launched EXCEPT ![u] = @ - 1]
        /\ pingbacks' = [pingbacks EXCEPT ![u] = @ + 1]
    BY <1>4 DEF ThreadStarts
  <2>2. launched[u] <= Count(launched) /\ pingbacks[u] <= Count(pingbacks)
    BY OneOfAll
  <2>3. pingbacks[u] < Pingbacks
    BY <1>2, <2>1, <2>2 DEF ThreadsBounded
  <2>4. launched' \in [Uploads -> 0..Pingbacks] /\ Count(launched') = Count(launched) - 1
    BY <2>1, OneLess
  <2>5. pingbacks' \in [Uploads -> 0..Pingbacks] /\ Count(pingbacks') = Count(pingbacks) + 1
    BY <2>1, <2>3, OneMore
  <2>6. Count(launched') + Count(pingbacks') <= Pingbacks
    BY <1>2, <2>4, <2>5 DEF ThreadsBounded
  <2>7. QED
    BY <1>1, <2>4, <2>5, <2>6 DEF ThreadsBounded, Count
<1>5. CASE ThreadEnds(u) \/ ThreadGivesUp(u)
  <2>1. pingbacks[u] > 0 /\ pingbacks' = [pingbacks EXCEPT ![u] = @ - 1] /\ UNCHANGED launched
    BY <1>5 DEF ThreadEnds, ThreadGivesUp
  <2>2. pingbacks' \in [Uploads -> 0..Pingbacks] /\ Count(pingbacks') = Count(pingbacks) - 1
    BY <2>1, OneLess
  <2>3. Count(launched') = Count(launched)
    BY <2>1
  <2>4. Count(launched') + Count(pingbacks') <= Pingbacks
    BY <1>2, <2>2, <2>3 DEF ThreadsBounded
  <2>5. QED
    BY <1>1, <2>1, <2>2, <2>4 DEF ThreadsBounded, Count
<1>6. QED
  BY <1>3, <1>4, <1>5

LEMMA MachineTypedKept == MachineTyped /\ [MachineNext]_machineVars => MachineTyped'
<1> SUFFICES ASSUME MachineTyped, [MachineNext]_machineVars PROVE MachineTyped'
  OBVIOUS
<1> USE DEF apiVars
<1>1. MachineTypeOK
  BY DEF MachineTyped
<1>2. CASE UNCHANGED machineVars
  BY <1>1, <1>2, MachineAloneIsTyped DEF machineVars, MachineTypeOK
<1>3. ASSUME NEW u \in Uploads, UploadArrives(u) \/ BodyReceived(u) \/ TaskEnds(u)
      PROVE  MachineTyped'
  <2>1. /\ machine' \in {machine, "up"} /\ quiet' \in {quiet, FALSE}
        /\ late' \in {late, late \cup {u}} /\ UNCHANGED <<apiVars, freezes>>
        /\ \E place \in {"body", "accepted", "done"} : upload' = [upload EXCEPT ![u] = place]
    BY <1>3 DEF UploadArrives, BodyReceived, TaskEnds
  <2>2. QED
    BY <1>1, <2>1, MachineAloneIsTyped DEF MachineTypeOK
<1>4. CASE GoesQuiet \/ BoredExits \/ Closes \/ Freezes
  <2>1. /\ machine' \in {machine, "signalled", "closing", "frozen"} /\ quiet' \in {quiet, TRUE}
        /\ UNCHANGED <<upload, late, apiVars>>
    BY <1>4 DEF GoesQuiet, BoredExits, Closes, Freezes
  <2>2. freezes' \in 0..MaxFreezes
    BY <1>1, <1>4, MachineAssumption DEF GoesQuiet, BoredExits, Closes, Freezes, MachineTypeOK
  <2>3. QED
    BY <1>1, <2>1, <2>2, MachineAloneIsTyped DEF MachineTypeOK
<1>5. CASE Stops \/ WatchdogBites
  <2>1. Down \in [Uploads -> {"out", "body", "accepted", "done", "lost"}]
    BY <1>1 DEF Down, MachineTypeOK
  <2>2. /\ machine' \in {"stopped", "up"} /\ upload' = Down /\ late' \subseteq Uploads
        /\ quiet' \in {quiet, FALSE} /\ UNCHANGED <<apiVars, freezes>>
    BY <1>1, <1>5 DEF Stops, WatchdogBites, MachineTypeOK
  <2>3. QED
    BY <1>1, <2>1, <2>2, MachineAloneIsTyped DEF MachineTypeOK
<1>6. QED
  BY <1>2, <1>3, <1>4, <1>5, ApiIsTyped DEF MachineNext, MachineProgress

-----------------------------------------------------------------------------
(* The types of a job of the workbench                                     *)

Working == {a \in Attempts : attempt[a].at # "idle"}

Unsent == IF unsent THEN 1 ELSE 0

Waiting == queue[0] + queue[1]

\* A message for every enqueue and every redelivery, and no more: it is about
\* to be sent, waits, or is worked on.
MessagesBounded == Waiting + Cardinality(Working) + Unsent <= asked + again

Queues == [0..1 -> Nat]

Attempt == [at : {"idle", "gated", "working"} \cup Finals, left : 0..1, partials : 0..1]

BenchShape ==
    /\ sort \in Sorts
    /\ status \in {"none", "queued", "rendering"} \cup Finals
    /\ asked \in 0..MaxEnqueued /\ again \in 0..MaxRedelivered
    /\ unsent \in BOOLEAN /\ shown \in BOOLEAN /\ lost \in BOOLEAN /\ overwritten \in BOOLEAN
    /\ queue \in Queues
    /\ attempt \in [Attempts -> Attempt]
    /\ report \in [Reports -> 0..MaxReports]
    /\ file \in {"none", "partial", "torn", "final"}

BenchTyped == BenchShape /\ MessagesBounded

LEMMA WorkingIsFinite ==
    IsFiniteSet(Working) /\ Cardinality(Working) \in Nat
<1>1. Working \in SUBSET Attempts /\ IsFiniteSet(Attempts)
  BY BenchAssumption DEF Working
<1>2. QED
  BY <1>1, FS_Subset, FS_CardinalityType

LEMMA BenchTypesFollow == BenchTyped => BenchTypeOK
<1> SUFFICES ASSUME BenchTyped PROVE BenchTypeOK
  OBVIOUS
<1> USE DEF BenchTyped, BenchShape
<1>1. queue[0] \in Nat /\ queue[1] \in Nat /\ Cardinality(Working) \in Nat /\ Unsent \in Nat
  BY WorkingIsFinite DEF Queues, Unsent
<1>2. queue[0] \in 0..(MaxEnqueued + MaxRedelivered) /\ queue[1] \in 0..(MaxEnqueued + MaxRedelivered)
  BY <1>1, BenchAssumption DEF MessagesBounded, Waiting
<1>3. queue \in [0..1 -> 0..(MaxEnqueued + MaxRedelivered)]
  <2>1. \A r \in 0..1 : r = 0 \/ r = 1
    OBVIOUS
  <2>2. QED
    BY <1>2, <2>1 DEF Queues
<1>4. QED
  BY <1>3 DEF BenchTypeOK, Attempt

LEMMA BenchTypedBegins == BenchInit => BenchTyped
<1> SUFFICES ASSUME BenchInit PROVE BenchTyped
  OBVIOUS
<1> USE DEF BenchInit
<1>1. BenchShape
  <2>1. queue \in Queues /\ attempt \in [Attempts -> Attempt]
    BY DEF Queues, Attempt, IdleAttempt
  <2>2. report \in [Reports -> 0..MaxReports]
    BY BenchAssumption
  <2>3. asked \in 0..MaxEnqueued /\ again \in 0..MaxRedelivered
    BY BenchAssumption
  <2>4. /\ unsent \in BOOLEAN /\ shown \in BOOLEAN /\ lost \in BOOLEAN /\ overwritten \in BOOLEAN
        /\ sort \in Sorts /\ status = "none" /\ file = "none"
    OBVIOUS
  <2>5. QED
    BY <2>1, <2>2, <2>3, <2>4 DEF BenchShape
<1>2. Working = {}
  BY DEF Working, IdleAttempt
<1>3. Cardinality(Working) = 0
  BY <1>2, FS_EmptySet
<1>4. QED
  BY <1>1, <1>3 DEF BenchTyped, MessagesBounded, Unsent, Waiting

LEMMA LedgerTypes ==
    ASSUME BenchShape
    PROVE  /\ Waiting \in Nat /\ Cardinality(Working) \in Nat /\ Unsent \in 0..1
           /\ asked \in Nat /\ again \in Nat
  BY WorkingIsFinite, BenchAssumption DEF BenchShape, Queues, Waiting, Unsent

\* What one worker does to the number of those that work.
LEMMA OneWorker ==
    ASSUME attempt \in [Attempts -> Attempt], NEW a \in Attempts, NEW x \in Attempt,
           attempt' = [attempt EXCEPT ![a] = x]
    PROVE  /\ attempt' \in [Attempts -> Attempt]
           /\ Cardinality(Working') \in Nat
           /\ attempt[a].at = "idle" /\ x.at # "idle" =>
                 Cardinality(Working') = Cardinality(Working) + 1
           /\ attempt[a].at # "idle" /\ x.at = "idle" =>
                 Cardinality(Working') = Cardinality(Working) - 1
           /\ (attempt[a].at = "idle" <=> x.at = "idle") => Working' = Working
<1>1. /\ attempt' \in [Attempts -> Attempt] /\ attempt'[a] = x
      /\ \A b \in Attempts \ {a} : attempt'[b] = attempt[b]
  OBVIOUS
<1>2. CASE attempt[a].at = "idle" /\ x.at # "idle"
  <2>1. Working' = Working \cup {a} /\ a \notin Working
    BY <1>1, <1>2 DEF Working
  <2>2. Cardinality(Working') = Cardinality(Working) + 1
    BY <2>1, WorkingIsFinite, FS_AddElement
  <2>3. QED
    BY <1>1, <1>2, <2>2, WorkingIsFinite
<1>3. CASE attempt[a].at # "idle" /\ x.at = "idle"
  <2>1. Working' = Working \ {a} /\ a \in Working
    BY <1>1, <1>3 DEF Working
  <2>2. Cardinality(Working') = Cardinality(Working) - 1 /\ IsFiniteSet(Working')
    BY <2>1, WorkingIsFinite, FS_RemoveElement
  <2>3. Cardinality(Working') \in Nat
    BY <2>2, FS_CardinalityType
  <2>4. QED
    BY <1>1, <1>3, <2>2, <2>3
<1>4. CASE attempt[a].at = "idle" <=> x.at = "idle"
  <2>1. Working' = Working
    BY <1>1, <1>4 DEF Working
  <2>2. QED
    BY <1>1, <1>4, <2>1, WorkingIsFinite
<1>5. QED
  BY <1>2, <1>3, <1>4

\* A message more, or less, in the queue.
LEMMA OneMessage ==
    ASSUME queue \in Queues, NEW r \in 0..1
    PROVE  /\ queue' = [queue EXCEPT ![r] = @ + 1] => queue' \in Queues /\ Waiting' = Waiting + 1
           /\ queue' = [queue EXCEPT ![r] = @ - 1] /\ queue[r] > 0 =>
                 queue' \in Queues /\ Waiting' = Waiting - 1
<1>1. r = 0 \/ r = 1
  OBVIOUS
<1>2. 0 \in 0..1 /\ 1 \in 0..1 /\ queue[0] \in Nat /\ queue[1] \in Nat
  BY DEF Queues
<1>3. ASSUME queue' = [queue EXCEPT ![r] = @ + 1]
      PROVE  queue' \in Queues /\ Waiting' = Waiting + 1
  <2>1. queue' \in Queues
    BY <1>2, <1>3 DEF Queues
  <2>2. queue'[0] = (IF r = 0 THEN queue[0] + 1 ELSE queue[0])
        /\ queue'[1] = (IF r = 1 THEN queue[1] + 1 ELSE queue[1])
    BY <1>2, <1>3 DEF Queues
  <2>3. QED
    BY <1>1, <1>2, <2>1, <2>2 DEF Waiting
<1>4. ASSUME queue' = [queue EXCEPT ![r] = @ - 1], queue[r] > 0
      PROVE  queue' \in Queues /\ Waiting' = Waiting - 1
  <2>1. queue' \in Queues
    BY <1>2, <1>4 DEF Queues
  <2>2. queue'[0] = (IF r = 0 THEN queue[0] - 1 ELSE queue[0])
        /\ queue'[1] = (IF r = 1 THEN queue[1] - 1 ELSE queue[1])
    BY <1>2, <1>4 DEF Queues
  <2>3. QED
    BY <1>1, <1>2, <2>1, <2>2 DEF Waiting
<1>5. QED
  BY <1>3, <1>4

LEMMA PutIsTyped ==
    ASSUME report \in [Reports -> 0..MaxReports], RoomToReport,
           NEW k \in {"progress", "partial"} \cup Finals, PutReport(k)
    PROVE  report' \in [Reports -> 0..MaxReports]
<1>1. PICK r \in Reports : r = [kind |-> k, at |-> "sent"]
  BY DEF Reports
<1>2. report' = [report EXCEPT ![r] = report[r] + 1] /\ report[r] < MaxReports /\ report[r] \in Nat
  BY <1>1, BenchAssumption DEF PutReport, RoomToReport
<1>3. report[r] + 1 \in 0..MaxReports
  BY <1>2, BenchAssumption
<1>4. QED
  BY <1>2, <1>3

\* A report is handled: no message moves.
LEMMA HandlingIsTyped ==
    ASSUME BenchTyped, NEW r \in Reports,
           OpensFile(r) \/ WriteFiles(r) \/ UpdateProgress(r) \/ UpdateFinal(r) \/ ReportLost(r)
    PROVE  BenchTyped'
<1> USE DEF BenchTyped, BenchShape
<1>1. report' \in [Reports -> 0..MaxReports]
  <2>1. ASSUME NEW at \in {"open", "filed"}, Becomes(r, at) PROVE report' \in [Reports -> 0..MaxReports]
    <3>1. PICK q \in Reports : q = [r EXCEPT !.at = at]
      BY DEF Reports
    <3>2. /\ report[r] \in Nat /\ report[r] > 0 /\ report[q] \in Nat /\ report[q] < MaxReports
          /\ report' = [report EXCEPT ![r] = @ - 1, ![q] = @ + 1]
      BY <2>1, <3>1, BenchAssumption DEF Becomes, Handled
    <3>3. report[r] - 1 \in 0..MaxReports /\ report[q] + 1 \in 0..MaxReports
      BY <3>2, BenchAssumption
    <3>4. CASE q = r
      BY <3>2, <3>3, <3>4, BenchAssumption
    <3>5. CASE q # r
      BY <3>2, <3>3, <3>5
    <3>6. QED
      BY <3>4, <3>5
  <2>2. ASSUME Handled(r), report' = [report EXCEPT ![r] = @ - 1]
        PROVE  report' \in [Reports -> 0..MaxReports]
    BY <2>2, BenchAssumption DEF Handled
  <2>3. QED
    BY <2>1, <2>2 DEF OpensFile, WriteFiles, UpdateProgress, UpdateFinal, ReportLost
<1>2. UNCHANGED <<sort, asked, unsent, again, queue, attempt>>
  BY DEF OpensFile, WriteFiles, UpdateProgress, UpdateFinal, ReportLost
<1>3. status' \in {status, "rendering"} \cup Finals /\ file' \in {file, "none", "partial", "torn", "final"}
  BY DEF OpensFile, WriteFiles, UpdateProgress, UpdateFinal, ReportLost, Leaves
<1>4. shown' \in BOOLEAN
  BY DEF OpensFile, WriteFiles, UpdateProgress, UpdateFinal, ReportLost, Shows
<1>5. lost' \in BOOLEAN
  BY DEF OpensFile, WriteFiles, UpdateProgress, UpdateFinal, ReportLost
<1>6. overwritten' \in BOOLEAN
  BY DEF OpensFile, WriteFiles, UpdateProgress, UpdateFinal, ReportLost, Overwrites
<1>7. MessagesBounded'
  BY <1>2 DEF MessagesBounded, Waiting, Working, Unsent
<1>8. BenchShape'
  BY <1>1, <1>2, <1>3, <1>4, <1>5, <1>6
<1>9. QED
  BY <1>7, <1>8

\* A job is asked for, its message sent or lost.
LEMMA AskingIsTyped ==
    ASSUME BenchTyped, Enqueue \/ Dispatch \/ DispatchFails \/ Import
    PROVE  BenchTyped'
<1> USE DEF BenchTyped
<1>1. /\ Waiting \in Nat /\ Cardinality(Working) \in Nat /\ Unsent \in 0..1
      /\ asked \in Nat /\ again \in Nat
  BY LedgerTypes
<1>2. CASE Enqueue
  <2>1. /\ unsent = FALSE /\ unsent' = TRUE /\ asked' = asked + 1 /\ status' = "queued"
        /\ UNCHANGED <<sort, again, queue, attempt, report, file, shown, lost, overwritten>>
        /\ asked < MaxEnqueued
    BY <1>2, BenchAssumption DEF Enqueue, EnqueueRender, EnqueuePair, EnqueueRun, RowQueued, BenchShape
  <2>2. BenchShape'
    BY <2>1, BenchAssumption DEF BenchShape
  <2>3. Unsent = 0 /\ Unsent' = 1 /\ UNCHANGED <<Waiting, Working>>
    BY <2>1 DEF Unsent, Waiting, Working
  <2>4. MessagesBounded'
    BY <1>1, <2>1, <2>3 DEF MessagesBounded
  <2>5. QED
    BY <2>2, <2>4
<1>3. CASE Dispatch
  <2>1. PICK r \in 0..1 : queue' = [queue EXCEPT ![r] = @ + 1]
    <3>1. Retries \in 0..1
      BY DEF Retries
    <3>2. QED
      BY <1>3, <3>1 DEF Dispatch
  <2>2. queue' \in Queues /\ Waiting' = Waiting + 1
    BY <2>1, OneMessage DEF BenchShape
  <2>3. /\ unsent = TRUE /\ unsent' = FALSE
        /\ UNCHANGED <<sort, status, asked, again, attempt, report, file, shown, lost, overwritten>>
    BY <1>3 DEF Dispatch, BenchShape
  <2>4. Unsent = 1 /\ Unsent' = 0 /\ UNCHANGED Working
    BY <2>3 DEF Unsent, Working
  <2>5. MessagesBounded'
    BY <1>1, <2>2, <2>3, <2>4 DEF MessagesBounded
  <2>6. BenchShape'
    BY <2>2, <2>3 DEF BenchShape
  <2>7. QED
    BY <2>5, <2>6
<1>4. CASE DispatchFails
  <2>1. /\ unsent = TRUE /\ unsent' = FALSE /\ lost' = TRUE
        /\ UNCHANGED <<sort, status, asked, again, queue, attempt, report, file, shown, overwritten>>
    BY <1>4 DEF DispatchFails, BenchShape
  <2>2. Unsent = 1 /\ Unsent' = 0 /\ UNCHANGED <<Waiting, Working>>
    BY <2>1 DEF Unsent, Waiting, Working
  <2>3. MessagesBounded'
    BY <1>1, <2>1, <2>2 DEF MessagesBounded
  <2>4. BenchShape'
    BY <2>1 DEF BenchShape
  <2>5. QED
    BY <2>3, <2>4
<1>5. CASE Import
  <2>1. /\ asked < MaxEnqueued /\ asked' = asked + 1
        /\ UNCHANGED <<sort, status, unsent, again, queue, attempt, file, shown, lost, overwritten>>
    BY <1>5 DEF Import
  <2>2. report' \in [Reports -> 0..MaxReports]
    BY <1>5, PutIsTyped DEF Import, BenchShape, Finals
  <2>3. UNCHANGED <<Waiting, Working, Unsent>>
    BY <2>1 DEF Unsent, Waiting, Working
  <2>4. MessagesBounded'
    BY <1>1, <2>1, <2>3 DEF MessagesBounded
  <2>5. BenchShape'
    BY <2>1, <2>2, BenchAssumption DEF BenchShape
  <2>6. QED
    BY <2>4, <2>5
<1>6. QED
  BY <1>2, <1>3, <1>4, <1>5

\* A worker takes a message, is given one that another has, or goes on.
LEMMA WorkingIsTyped ==
    ASSUME BenchTyped, NEW a \in Attempts,
           \/ \E left \in 0..1 : Take(a, left)
           \/ \E b \in Attempts : Redelivered(b, a)
           \/ GatePasses(a) \/ GateGivesUp(a) \/ \E k \in Finals : Computes(a, k)
           \/ \E k \in {"progress", "partial"} : Reporting(a, k)
    PROVE  BenchTyped'
<1> USE DEF BenchTyped
<1>1. /\ Waiting \in Nat /\ Cardinality(Working) \in Nat /\ Unsent \in 0..1
      /\ asked \in Nat /\ again \in Nat
  BY LedgerTypes
<1>2. attempt \in [Attempts -> Attempt] /\ attempt[a] \in Attempt /\ queue \in Queues
      /\ report \in [Reports -> 0..MaxReports]
  BY DEF BenchShape
<1>3. ASSUME NEW left \in 0..1, Take(a, left) PROVE BenchTyped'
  <2>1. PICK x : x = [at |-> "gated", left |-> left, partials |-> 0]
    OBVIOUS
  <2>2. x \in Attempt /\ x.at = "gated"
    BY <2>1 DEF Attempt
  <2>3. /\ attempt[a].at = "idle" /\ queue[left] > 0
        /\ queue' = [queue EXCEPT ![left] = @ - 1] /\ attempt' = [attempt EXCEPT ![a] = x]
        /\ UNCHANGED <<sort, status, asked, unsent, again, report, file, shown, lost, overwritten>>
    BY <1>3, <2>1 DEF Take
  <2>4. queue' \in Queues /\ Waiting' = Waiting - 1
    BY <1>2, <2>3, OneMessage
  <2>5. attempt' \in [Attempts -> Attempt] /\ Cardinality(Working') = Cardinality(Working) + 1
    BY <1>2, <2>2, <2>3, OneWorker
  <2>6. MessagesBounded'
    BY <1>1, <2>3, <2>4, <2>5 DEF MessagesBounded, Unsent
  <2>7. BenchShape'
    BY <2>3, <2>4, <2>5 DEF BenchShape
  <2>8. QED
    BY <2>6, <2>7
<1>4. ASSUME NEW b \in Attempts, Redelivered(b, a) PROVE BenchTyped'
  <2>1. PICK x : x = [at |-> "gated", left |-> attempt[b].left, partials |-> 0]
    OBVIOUS
  <2>2. x \in Attempt /\ x.at = "gated"
    BY <1>2, <2>1 DEF Attempt
  <2>3. /\ attempt[a].at = "idle" /\ attempt' = [attempt EXCEPT ![a] = x]
        /\ again < MaxRedelivered /\ again' = again + 1
        /\ UNCHANGED <<sort, status, asked, unsent, queue, report, file, shown, lost, overwritten>>
    BY <1>4, <2>1 DEF Redelivered
  <2>4. attempt' \in [Attempts -> Attempt] /\ Cardinality(Working') = Cardinality(Working) + 1
    BY <1>2, <2>2, <2>3, OneWorker
  <2>5. MessagesBounded'
    BY <1>1, <2>3, <2>4 DEF MessagesBounded, Unsent, Waiting
  <2>6. again' \in 0..MaxRedelivered
    BY <1>1, <2>3, BenchAssumption
  <2>7. BenchShape'
    BY <2>3, <2>4, <2>6 DEF BenchShape
  <2>8. QED
    BY <2>5, <2>7
<1>5. ASSUME NEW from \in {"gated", "working"}, NEW to \in {"working"} \cup Finals,
             Proceeds(a, from, to)
      PROVE  BenchTyped'
  <2>1. PICK x : x = [attempt[a] EXCEPT !.at = to]
    OBVIOUS
  <2>2. x \in Attempt /\ x.at = to /\ attempt[a].at = from
    BY <1>2, <1>5, <2>1 DEF Attempt, Proceeds
  <2>3. /\ attempt' = [attempt EXCEPT ![a] = x]
        /\ UNCHANGED <<sort, status, asked, unsent, again, queue, report, file, shown, lost,
                       overwritten>>
    BY <1>5, <2>1 DEF Proceeds
  <2>4. x.at # "idle" /\ attempt[a].at # "idle"
    BY <2>2 DEF Finals
  <2>5. attempt' \in [Attempts -> Attempt] /\ Working' = Working
    BY <1>2, <2>2, <2>3, <2>4, OneWorker
  <2>6. MessagesBounded'
    BY <2>3, <2>5 DEF MessagesBounded, Unsent, Waiting
  <2>7. BenchShape'
    BY <2>3, <2>5 DEF BenchShape
  <2>8. QED
    BY <2>6, <2>7
<1>6. ASSUME NEW k \in {"progress", "partial"}, Reporting(a, k) PROVE BenchTyped'
  <2>1. PICK x : x = [attempt[a] EXCEPT !.partials = 1]
    OBVIOUS
  <2>2. x \in Attempt /\ x.at = attempt[a].at
    BY <1>2, <2>1 DEF Attempt
  <2>3. /\ attempt' = [attempt EXCEPT ![a] = x]
        /\ UNCHANGED <<sort, status, asked, unsent, again, queue, file, shown, lost, overwritten>>
    BY <1>6, <2>1 DEF Reporting
  <2>4. report' \in [Reports -> 0..MaxReports]
    BY <1>2, <1>6, PutIsTyped DEF Reporting
  <2>5. attempt' \in [Attempts -> Attempt] /\ Working' = Working
    BY <1>2, <2>2, <2>3, OneWorker
  <2>6. MessagesBounded'
    BY <2>3, <2>5 DEF MessagesBounded, Unsent, Waiting
  <2>7. BenchShape'
    BY <2>3, <2>4, <2>5 DEF BenchShape
  <2>8. QED
    BY <2>6, <2>7
<1>7. CASE GatePasses(a) \/ GateGivesUp(a) \/ \E k \in Finals : Computes(a, k)
  BY <1>5, <1>7 DEF GatePasses, GateGivesUp, Computes, Finals
<1>8. QED
  BY <1>3, <1>4, <1>6, <1>7

\* A worker ends: its message is gone, or waits again.
LEMMA EndingIsTyped ==
    ASSUME BenchTyped, NEW a \in Attempts,
           Finishes(a) \/ FinalPostFails(a) \/ TimeLimitHits(a) \/ WorkerDies(a)
    PROVE  BenchTyped'
<1> USE DEF BenchTyped
<1>1. /\ Waiting \in Nat /\ Cardinality(Working) \in Nat /\ Unsent \in 0..1
      /\ asked \in Nat /\ again \in Nat
  BY LedgerTypes
<1>2. attempt \in [Attempts -> Attempt] /\ attempt[a] \in Attempt /\ queue \in Queues
      /\ report \in [Reports -> 0..MaxReports] /\ lost \in BOOLEAN
  BY DEF BenchShape
<1>3. /\ attempt[a].at # "idle" /\ attempt' = [attempt EXCEPT ![a] = IdleAttempt]
      /\ UNCHANGED <<sort, status, asked, unsent, file, shown, overwritten>>
  BY DEF Finishes, FinalPostFails, TimeLimitHits, WorkerDies, Fails, Finals
<1>4. IdleAttempt \in Attempt /\ IdleAttempt.at = "idle"
  BY DEF IdleAttempt, Attempt
<1>5. attempt' \in [Attempts -> Attempt] /\ Cardinality(Working') = Cardinality(Working) - 1
  BY <1>2, <1>3, <1>4, OneWorker
<1>6. ASSUME NEW r \in 0..1, queue' = [queue EXCEPT ![r] = @ + 1]
      PROVE  queue' \in Queues /\ Waiting' = Waiting + 1
  BY <1>2, <1>6, OneMessage
<1>7. queue' \in Queues /\ Waiting' \in {Waiting, Waiting + 1}
  <2>1. CASE UNCHANGED queue
    BY <1>2, <2>1 DEF Waiting
  <2>2. CASE Fails(a)
    <3>1. CASE Retried(a)
      <4>1. attempt[a].left - 1 \in 0..1
        BY <1>2, <3>1 DEF Retried, RetryLeft, Attempt
      <4>2. QED
        BY <1>6, <2>2, <3>1, <4>1 DEF Fails
    <3>2. CASE ~ Retried(a)
      BY <2>1, <2>2, <3>2 DEF Fails
    <3>3. QED
      BY <3>1, <3>2
  <2>3. CASE WorkerDies(a)
    <3>1. attempt[a].left \in 0..1
      BY <1>2 DEF Attempt
    <3>2. QED
      BY <1>6, <2>3, <3>1 DEF WorkerDies
  <2>4. QED
    BY <2>1, <2>2, <2>3 DEF Finishes, FinalPostFails, TimeLimitHits
<1>8. again' \in 0..MaxRedelivered /\ again' \in {again, again + 1}
  BY <1>1, BenchAssumption DEF Finishes, FinalPostFails, TimeLimitHits, WorkerDies, BenchShape
<1>9. report' \in [Reports -> 0..MaxReports]
  <2>1. ASSUME RoomToReport, attempt[a].at \in Finals, PutReport(attempt[a].at)
        PROVE  report' \in [Reports -> 0..MaxReports]
    BY <1>2, <2>1, PutIsTyped
  <2>2. QED
    BY <1>2, <2>1 DEF Finishes, FinalPostFails, TimeLimitHits, WorkerDies
<1>10. lost' \in BOOLEAN
  BY <1>2 DEF Finishes, FinalPostFails, TimeLimitHits, WorkerDies
<1>11. MessagesBounded'
  BY <1>1, <1>3, <1>5, <1>7, <1>8 DEF MessagesBounded, Unsent
<1>12. BenchShape'
  BY <1>3, <1>5, <1>7, <1>8, <1>9, <1>10 DEF BenchShape
<1>13. QED
  BY <1>11, <1>12

LEMMA BenchTypedKept == BenchTyped /\ [BenchNext]_benchVars => BenchTyped'
<1> SUFFICES ASSUME BenchTyped, [BenchNext]_benchVars PROVE BenchTyped'
  OBVIOUS
<1>1. CASE UNCHANGED benchVars
  BY <1>1 DEF benchVars, BenchTyped, BenchShape, MessagesBounded, Waiting, Working, Unsent
<1>2. QED
  BY <1>1, HandlingIsTyped, AskingIsTyped, WorkingIsTyped, EndingIsTyped DEF BenchNext, BenchProgress

-----------------------------------------------------------------------------
(* All of them, side by side                                               *)

AllTyped == SessionTyped /\ PoolTyped /\ MachineTyped /\ BenchTyped

\* Every variable of the session protocol, the pool, the machine and the
\* workbench's jobs has its type, whatever the bounds: no counter passes the
\* one the code gives it, and no message is made from nothing.
THEOREM ProgressIsTyped == AnySpec => []ProgressTypeOK
<1>1. AnyInit => AllTyped
  BY SessionTypedBegins, PoolTypedBegins, MachineTypedBegins, BenchTypedBegins DEF AnyInit, AllTyped
<1>2. AllTyped /\ [AnyNext]_anyVars => AllTyped'
  <2> SUFFICES ASSUME AllTyped, [AnyNext]_anyVars PROVE AllTyped'
    OBVIOUS
  <2>1. [Next]_vars /\ [PoolNext]_poolVars /\ [MachineNext]_machineVars /\ [BenchNext]_benchVars
    BY DEF AnyNext, anyVars, Keeps
  <2>2. QED
    BY <2>1, SessionTypedKept, PoolTypedKept, MachineTypedKept, BenchTypedKept DEF AllTyped
<1>3. AllTyped => ProgressTypeOK
  BY SessionTypesFollow, BenchTypesFollow DEF AllTyped, ProgressTypeOK, PoolTyped, MachineTyped
<1>4. QED
  BY <1>1, <1>2, <1>3, PTL DEF AnySpec
=============================================================================
