---------------------------- MODULE SessionClaims ----------------------------
(***************************************************************************)
(* What AuthClient and AuthServer promise together, and the fairness the   *)
(* promise that something happens needs.                                   *)
(***************************************************************************)
EXTENDS AuthClient

\* The user comes back to the app (each return starts a reconciliation) and
\* the WebView's callbacks run; neither the API nor the network has to answer.
Fairness ==
    /\ WF_vars(ReconcileStarts \/ ReconcileReads \/ ReconcileConcludes)
    /\ WF_vars(NativeCleared)
    /\ WF_vars(LeaveCompletes)

Spec == Init /\ [][Next]_vars

LiveSpec == Spec /\ Fairness

-----------------------------------------------------------------------------
\* Reuse detection revokes a family only if one of its rotations was lost on
\* the way back (timeout or process death): contexts that refresh at the same
\* time, a forced refresh that queued behind another one, logins and logouts
\* in between never present a refresh token twice.
ReuseNeedsLostReply == reused \subseteq unheard

\* A spent pair is in the store only while the reply that replaces it is on
\* its way, or if that reply was lost.
SpentIsBeingReplaced ==
    store # None /\ store \in spent =>
        \/ store.sid \in unheard
        \/ \E c \in Contexts : /\ context[c].pc = "calling"
                               /\ slot[context[c].slot].token = store

\* Neither a family is revoked, nor a spent pair kept, without that cause.
ReuseIsExplained == ReuseNeedsLostReply /\ SpentIsBeingReplaced

\* A WebView that shows a login native no longer has is corrected, whatever
\* messages were lost and whichever reconciliation was overtaken by a login.
StaleLoginIsCorrected == js /\ store = None ~> ~ js \/ store # None

\* docs/auth-state-machine.md: "A fresh login is never torn down by a stale
\* failure".  A pair leaves the store, other than by logout(), only when the
\* API has stopped accepting its family.
FreshLoginSurvives ==
    [][store # None /\ store' = None /\ leaving' = leaving
           => Unusable(store) \/ IsReplay(store)]_vars
=============================================================================
