------------------------------ MODULE Transfers ------------------------------
(***************************************************************************)
(* An annotation of one panorama is carried over to other panoramas of the *)
(* same spot (enrich routers/transfer.py).  Matching jobs propose where it *)
(* lies; accepting a proposal clones the annotation there and says, by a   *)
(* point of interest that both depict, that the two are the same thing.    *)
(* An acceptance is a row in one store and facts in another, written one   *)
(* after the other and not taken back when a later one fails.              *)
(*                                                                         *)
(* One annotation, the donor.  Where it lies is geometry: a user may always *)
(* nudge a rectangle to where none was proposed.  Curation is left out.    *)
(***************************************************************************)
EXTENDS Integers, FiniteSets

CONSTANTS
    Targets,        \* panoramas; one transfer each
    Accepts,        \* requests
    MaxClones       \* bound: native annotations, and points of interest, ever made

ASSUME TransferAssumption == MaxClones \in Nat /\ Targets # {}

VARIABLES
    transfer,   \* the decision, and accepted_annotation_id
    clone,      \* rows of origin "workbench"
    made,       \* clones and points of interest ever made
    depicts,    \* approved facts
    accept,     \* acceptances under way
    twins       \* history: two acceptances found no point of interest at once

transferVars == <<transfer, clone, made, depicts, accept, twins>>

Clones == 1..MaxClones
Donor == 0
Unmade == 0

IdleAccept == [at |-> "idle", target |-> CHOOSE t \in Targets : TRUE,
               id |-> Unmade, poi |-> Unmade]

TransfersTypeOK ==
    /\ transfer \in [Targets -> [status : {"open", "accepted"},
                                 clone : Clones \cup {Unmade}]]
    /\ clone \subseteq Clones
    /\ made \in [clones : 0..MaxClones, pois : 0..MaxClones]
    /\ depicts \subseteq (Clones \cup {Donor}) \X Clones
    /\ accept \in [Accepts -> [at : {"idle", "read", "cloned", "found", "minting", "minted",
                                     "related"},
                               target : Targets, id : Clones \cup {Unmade},
                               poi : Clones \cup {Unmade}]]
    /\ twins \in BOOLEAN

\* Jobs were queued for every target, which makes its transfer.
TransfersInit ==
    /\ transfer = [t \in Targets |-> [status |-> "open", clone |-> Unmade]]
    /\ clone = {} /\ made = [clones |-> 0, pois |-> 0] /\ depicts = {}
    /\ accept = [a \in Accepts |-> IdleAccept]
    /\ twins = FALSE

-----------------------------------------------------------------------------
(* Acceptance                                                              *)

PoisOf(x) == {p \in Clones : <<x, p>> \in depicts}

\* The row is read once; what a status says is not looked at.
AcceptReads(a, t) ==
    /\ accept[a].at = "idle"
    /\ accept' = [accept EXCEPT ![a] = [IdleAccept EXCEPT !.at = "read", !.target = t,
                                                          !.id = transfer[t].clone]]
    /\ UNCHANGED <<transfer, clone, made, depicts, twins>>

\* Accepted before: the clone is moved, and an UPDATE that matches no row is
\* not noticed. Else it is made, and a fact says what it derives from.
Cloned(a) ==
    /\ accept[a].at = "read"
    /\ IF accept[a].id # Unmade
         THEN /\ accept' = [accept EXCEPT ![a].at = "cloned"]
              /\ UNCHANGED <<clone, made>>
         ELSE LET new == made.clones + 1 IN
              /\ new \in Clones
              /\ clone' = clone \cup {new}
              /\ made' = [made EXCEPT !.clones = new]
              /\ accept' = [accept EXCEPT ![a].at = "cloned", ![a].id = new]
    /\ UNCHANGED <<transfer, depicts, twins>>

\* Faulty variant: the clone's own point of interest is looked up.
PoisOfClone(a) == PoisOf(accept[a].id)

PoisKnown(a) == PoisOf(Donor)

\* Any of those that are known, or a new one.
FindsPoi(a) ==
    /\ accept[a].at = "cloned"
    /\ \/ \E p \in PoisKnown(a) :
             /\ accept' = [accept EXCEPT ![a].at = "found", ![a].poi = p]
             /\ UNCHANGED made
       \/ /\ PoisKnown(a) = {} /\ made.pois < MaxClones
          /\ made' = [made EXCEPT !.pois = @ + 1]
          /\ accept' = [accept EXCEPT ![a].at = "minting", ![a].poi = made.pois + 1]
    /\ UNCHANGED <<transfer, clone, depicts, twins>>

\* relate_annotation: 404 if the clone has been deleted.
Relates(a) ==
    /\ accept[a].at = "found" /\ accept[a].id \in clone
    /\ depicts' = depicts \cup {<<accept[a].id, accept[a].poi>>}
    /\ accept' = [accept EXCEPT ![a].at = "related"]
    /\ UNCHANGED <<transfer, clone, made, twins>>

\* create_poi: a fact for each annotation, the donor's first.
MintsDonor(a) ==
    /\ accept[a].at = "minting"
    /\ depicts' = depicts \cup {<<Donor, accept[a].poi>>}
    /\ twins' = (twins \/ \E b \in Accepts \ {a} : accept[b].at = "minting")
    /\ accept' = [accept EXCEPT ![a].at = "minted"]
    /\ UNCHANGED <<transfer, clone, made>>

MintsClone(a) ==
    /\ accept[a].at = "minted"
    /\ depicts' = depicts \cup {<<accept[a].id, accept[a].poi>>}
    /\ accept' = [accept EXCEPT ![a].at = "related"]
    /\ UNCHANGED <<transfer, clone, made, twins>>

Concludes(a) ==
    /\ accept[a].at = "related"
    /\ transfer' = [transfer EXCEPT ![accept[a].target] =
                       [status |-> "accepted", clone |-> accept[a].id]]
    /\ accept' = [accept EXCEPT ![a] = IdleAccept]
    /\ UNCHANGED <<clone, made, depicts, twins>>

\* No proposal, a store that does not answer, or the API dies: what was
\* written stays.
AcceptFails(a) ==
    /\ accept[a].at # "idle"
    /\ accept' = [accept EXCEPT ![a] = IdleAccept]
    /\ UNCHANGED <<transfer, clone, made, depicts, twins>>

\* reject and reopen: either way it is not accepted any more. The clone stays.
reopen(t) ==
    /\ transfer[t].status = "accepted"
    /\ transfer' = [transfer EXCEPT ![t].status = "open"]
    /\ UNCHANGED <<clone, made, depicts, accept, twins>>

\* delete_native_annotation: its facts and the transfer keep naming it.
CloneDeleted(c) ==
    /\ c \in clone /\ clone' = clone \ {c}
    /\ UNCHANGED <<transfer, made, depicts, accept, twins>>

\* Bound: nothing is claimed of a behaviour with such twins, and it is not
\* followed any further.
TransfersNext ==
  ~ twins /\
    \/ \E t \in Targets : reopen(t)
    \/ \E a \in Accepts :
          \/ \E t \in Targets : AcceptReads(a, t)
          \/ Cloned(a) \/ FindsPoi(a) \/ Relates(a) \/ MintsDonor(a) \/ MintsClone(a)
          \/ Concludes(a) \/ AcceptFails(a)
    \/ \E c \in Clones : CloneDeleted(c)

TransfersSpec == TransfersInit /\ [][TransfersNext]_transferVars

-----------------------------------------------------------------------------
\* "POI: donor's reused else minted; acceptance = the identity assertion": the
\* donor and every clone that was accepted depict one and the same point of
\* interest, through failures half-way, repeated acceptances, rejections and
\* deletions - unless two acceptances looked for it at the same time.
OnePointOfInterest ==
    twins \/ \A t \in Targets :
        transfer[t].status = "accepted" =>
            \E p \in Clones : PoisOf(Donor) = {p} /\ PoisOf(transfer[t].clone) = {p}
=============================================================================
