------------------------ MODULE PublicationDecision -------------------------
(***************************************************************************)
(* What the publication arbiter promises, without callers, contexts and    *)
(* channels: a run is decided at most once, by a participant that held the *)
(* reservation alone while it decided.                                     *)
(***************************************************************************)
CONSTANTS Canceler, Publisher

VARIABLES decision, holder

vars == <<decision, holder>>

Init == decision = "undecided" /\ holder = "none"

Reserve ==
    /\ decision = "undecided" /\ holder = "none"
    /\ holder' \in Canceler \cup Publisher
    /\ UNCHANGED decision

Release ==
    /\ holder # "none"
    /\ holder' = "none"
    /\ UNCHANGED decision

Decide ==
    /\ holder # "none"
    /\ holder' = "none"
    /\ \/ holder \in Canceler /\ decision' = "cancelWon"
       \/ holder \in Publisher
            /\ decision' \in {"publicationWon", "publicationIndeterminate"}

Next == Reserve \/ Release \/ Decide

Spec == Init /\ [][Next]_vars
=============================================================================
