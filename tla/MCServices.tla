------------------------------- MODULE MCServices -------------------------------
(***************************************************************************)
(* Components that share no modelled state with each other, side by side:  *)
(* a behaviour is one of a single component (`which`), and the others stay *)
(* in an initial state.                                                    *)
(***************************************************************************)
EXTENDS Broadcast, OAuthLogin, Marks, Accounts, Annotations,
        TokenBucket, MapillaryStream, Graduation, PeakTiles, PhotoFiles,
        StampHold, BrowserUpload, WebTokens, Transfers, Listings, RateLimits,
        Renditions, GenPatches, PanoPipeline, Curation

VARIABLE which

Components == {"push", "oauth", "marks", "accounts", "annotations",
               "bucket", "stream", "graduation", "peaks", "files",
               "stamp", "browser", "web", "transfers", "listings", "limits",
               "renders", "patches", "pano", "curation"}

\* What a component that is not chosen starts with does not matter; each
\* choice is made before the next component starts.
Init ==
    /\ which \in Components
    /\ RendersInit /\ (which = "renders" \/ image = PlainImage)
    /\ AnnotationsInit /\ BucketInit /\ GraduationInit
    /\ PushInit /\ (which = "push" \/ \A d \in DOMAIN reg : reg[d] = NoToken)
    /\ OAuthInit /\ (which = "oauth" \/ \A i \in Identities : account[i] = NoAccount)
    /\ MarkInit /\ (which = "marks" \/ kind = "flag")
    /\ AccountsInit /\ (which = "accounts" \/ admins = Users)
    /\ StreamInit /\ (which = "stream" \/ cache = {})
    /\ StampInit /\ (which = "stamp" \/ brackets = 0)
    \* The pools are alike: a behaviour that starts with another one is a copy.
    /\ FilesInit /\ pool = CHOOSE p \in Pools : TRUE
    /\ PeakInit /\ BrowserInit /\ WebTokensInit /\ TransfersInit
    /\ ListingsInit /\ (\/ which = "listings"
                        \/ feed = "sitemap" /\ \A s \in Shots : gallery[s].at = 0)
    /\ LimitsInit /\ (which = "limits" \/ limiter = SignIns)
    /\ GenInit /\ PanoInit
    /\ CurationInit /\ (which = "curation" \/ (aspect = "label" /\ subject = NoSubject))

Keeps(c, vars) == IF which = c THEN TRUE ELSE UNCHANGED vars

OthersKeep ==
    /\ UNCHANGED which
    /\ Keeps("push", pushVars)
    /\ Keeps("oauth", oauthVars) /\ Keeps("marks", markVars) /\ Keeps("accounts", accountVars)
    /\ Keeps("annotations", annotationVars) /\ Keeps("bucket", bucketVars)
    /\ Keeps("stream", streamVars) /\ Keeps("graduation", graduationVars)
    /\ Keeps("peaks", peakVars) /\ Keeps("files", fileVars)
    /\ Keeps("stamp", stampVars) /\ Keeps("browser", browserVars)
    /\ Keeps("web", webTokenVars) /\ Keeps("transfers", transferVars)
    /\ Keeps("listings", listingVars) /\ Keeps("limits", limitVars)
    /\ Keeps("renders", renderVars) /\ Keeps("patches", genVars) /\ Keeps("pano", panoVars)
    /\ Keeps("curation", curationVars)

(* Processes that are alike and have not begun cannot be told apart: the   *)
(* first of them begins, and what is left out are copies of behaviours.    *)
InTurn(waiting, stillWaiting) ==
    \A x \in waiting \ stillWaiting : x = CHOOSE y \in waiting : TRUE

WaitingBroadcasts == {b \in Broadcasts : bcast[b] = "idle"}
WaitingLogins == {l \in Logins : login[l] = NoLogin}
WaitingPolls == {p \in Polls : poll[p] = NoPoll}
WaitingVerbs == {a \in Verbs : verb[a].at = "idle"}
WaitingRequests == {q \in AdminRequests : request[q] = IdleRequest}
WaitingRenderings == {j \in Renderings : rendering[j] = IdleRendering}

Next ==
    /\ OthersKeep
    /\ \/ which = "push" /\ PushNext /\ InTurn(WaitingBroadcasts, WaitingBroadcasts')
       \/ which = "oauth" /\ OAuthNext /\ InTurn(WaitingLogins, WaitingLogins')
                             /\ InTurn(WaitingPolls, WaitingPolls')
       \/ which = "marks" /\ MarkNext
       \/ which = "accounts" /\ AccountsNext /\ InTurn(WaitingRequests, WaitingRequests')
       \/ which = "annotations" /\ AnnotationsNext
       \/ which = "bucket" /\ BucketNext
       \/ which = "stream" /\ StreamNext
       \/ which = "graduation" /\ GraduationNext
       \/ which = "peaks" /\ PeakNext
       \/ which = "files" /\ FilesNext /\ InTurn(WaitingRenderings, WaitingRenderings')
       \/ which = "stamp" /\ StampNext
       \/ which = "browser" /\ BrowserNext
       \/ which = "web" /\ WebTokensNext
       \/ which = "transfers" /\ TransfersNext
       \/ which = "listings" /\ ListingsNext
       \/ which = "limits" /\ LimitsNext
       \/ which = "renders" /\ RendersNext
       \/ which = "patches" /\ GenNext
       \/ which = "pano" /\ PanoNext
       \/ which = "curation" /\ CurationNext /\ InTurn(WaitingVerbs, WaitingVerbs')

vars == <<which, pushVars, oauthVars, markVars, accountVars,
          annotationVars, bucketVars, streamVars, graduationVars, peakVars,
          fileVars, stampVars, browserVars, webTokenVars, transferVars, listingVars, limitVars,
          renderVars, genVars, panoVars, curationVars>>

Spec == Init /\ [][Next]_vars

Typed(c, ok) == which = c => ok

\* Every component's variables have their types, in every reachable state.
ServicesTypeOK ==
    /\ which \in Components
    /\ Typed("push", PushTypeOK) /\ Typed("oauth", OAuthTypeOK)
    /\ Typed("marks", MarkTypeOK) /\ Typed("accounts", AccountsTypeOK)
    /\ Typed("annotations", AnnotationTypeOK) /\ Typed("bucket", BucketTypeOK)
    /\ Typed("stream", StreamTypeOK) /\ Typed("graduation", GraduationTypeOK)
    /\ Typed("peaks", PeakTypeOK)
    /\ Typed("files", FilesTypeOK) /\ Typed("stamp", StampTypeOK)
    /\ Typed("browser", BrowserTypeOK) /\ Typed("web", WebTokensTypeOK)
    /\ Typed("transfers", TransfersTypeOK) /\ Typed("listings", ListingTypeOK)
    /\ Typed("limits", LimitsTypeOK) /\ Typed("renders", RendersTypeOK)
    /\ Typed("patches", GenTypeOK) /\ Typed("pano", PanoTypeOK)
    /\ Typed("curation", CurationTypeOK)
=============================================================================
