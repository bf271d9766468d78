---------------------------- MODULE UploadPromise ----------------------------
(***************************************************************************)
(* What the upload protocol promises, without tables, ids, tasks or        *)
(* messages: the server comes to serve files and to remove them; a client  *)
(* may call a file uploaded only if it was served, and may give one up     *)
(* only if it was removed, and giving up is final.                         *)
(***************************************************************************)
CONSTANTS Clients, Files

VARIABLES
    served,    \* files the server has recorded as processed at least once
    removed,   \* files somebody has deleted on the server
    claimed,   \* claimed[c]: the files client c shows as uploaded
    dropped    \* dropped[c]: the files client c has given up as deleted

promiseVars == <<served, removed, claimed, dropped>>

Init ==
    /\ served  = {}
    /\ removed = {}
    /\ claimed = [c \in Clients |-> {}]
    /\ dropped = [c \in Clients |-> {}]

Serve(f) ==
    /\ served' = served \cup {f}
    /\ UNCHANGED <<removed, claimed, dropped>>

Remove(f) ==
    /\ removed' = removed \cup {f}
    /\ UNCHANGED <<served, claimed, dropped>>

\* A client changes what it shows: new claims are served files, what it drops
\* was removed; a claim may be withdrawn (the photo is to be uploaded again).
Show(c, done, gone) ==
    /\ done \ claimed[c] \subseteq served
    /\ dropped[c] \subseteq gone
    /\ gone \ dropped[c] \subseteq removed
    /\ claimed' = [claimed EXCEPT ![c] = done]
    /\ dropped' = [dropped EXCEPT ![c] = gone]
    /\ UNCHANGED <<served, removed>>

Next ==
    \/ \E f \in Files : Serve(f) \/ Remove(f)
    \/ \E c \in Clients, done \in SUBSET Files, gone \in SUBSET Files : Show(c, done, gone)

Spec == Init /\ [][Next]_promiseVars
=============================================================================
