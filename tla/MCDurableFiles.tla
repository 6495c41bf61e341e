--------------------------- MODULE MCDurableFiles ---------------------------
(* The update manager, the discard of a session and the transaction of an    *)
(* entry: three protocols that keep durable files whole, which share         *)
(* nothing. A behaviour is one of the three; focus says which.               *)
EXTENDS UpdateManager, SessionDiscard, MediaTransaction

VARIABLE focus

MCVersionOf == [a \in Artifact |-> CASE a = "v1" -> 1 [] a = "v3" -> 3 [] OTHER -> 2]

NoEntry ==
    /\ request = [plans |-> 1, converts |-> FALSE, processes |-> FALSE, embeds |-> FALSE]
    /\ before = [path \in File |-> "none"]

\* A protocol that is not in focus does not move.
MCInit ==
    /\ focus \in {"update", "discard", "media"}
    /\ UpdateInit /\ DiscardInit /\ MediaInit
    /\ focus # "media" => NoEntry
    /\ before["thumb"] = before["sub"] \* written by the same operator
    /\ request.plans = 2 => /\ before[Derived(1)] = before[Derived(2)]
                            /\ before["log"] = before["thumb"]

MCNext ==
    \/ focus = "update" /\ UpdateNext /\ UNCHANGED <<discardVars, mediaVars, focus>>
    \/ focus = "discard" /\ DiscardNext /\ UNCHANGED <<updateVars, mediaVars, focus>>
    \/ focus = "media" /\ MediaNext /\ UNCHANGED <<updateVars, discardVars, focus>>

MCVars == <<updateVars, discardVars, mediaVars, focus>>

MCSpec == MCInit /\ [][MCNext]_MCVars

\* UpdateFairness and DiscardFairness, each of the behaviours it is about.
MCFairness ==
    /\ WF_updateVars(focus = "update" /\ BreakLock)
    /\ WF_updateVars(focus = "update" /\ UpdateStep)
    /\ WF_updateVars(focus = "update" /\ VerifyActive)
    /\ WF_updateVars(focus = "update" /\ AskPath)
    /\ \A p \in Process :
        /\ WF_discardVars(focus = "discard" /\ DiscardStep(p))
        /\ WF_discardVars(focus = "discard" /\ WorkspaceStep(p))
    /\ WF_discardVars(focus = "discard" /\ Collect(Collector))

MCFairSpec == MCSpec /\ MCFairness

\* The three protocols keep their types; a native lock has one holder at a time,
\* and a slot's backup exists (tryNativeLock, copyExistingToBackup).
TypesOK == UpdateTypeOK /\ DiscardTypeOK /\ MediaTypeOK

=============================================================================
