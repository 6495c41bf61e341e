----------------------------- MODULE MCTransfers -----------------------------
(* The two ways a session transfers its payload, in one range or several     *)
(* (DirectDownloader) or in fragments (FragmentEngine). A session uses one   *)
(* of them; focus says which.                                                *)
EXTENDS MCDirectDownloader, FragmentEngine

VARIABLE focus

\* One proven version and two unproven ones of one plan, and one of another.
MCProof == [p |-> "p", u |-> "unset", v |-> "unset", q |-> "q"]

MCPlan == [p |-> "plan", u |-> "plan", v |-> "plan", q |-> "other plan"]

\* The transfer that is not in focus does not move; its choices are fixed.
MCInit ==
    /\ focus \in {"direct", "fragments"}
    /\ Init /\ FragmentInit
    /\ focus = "fragments" => server = "A" /\ chunk = 0
    /\ focus = "direct" => source = "p"

MCNext ==
    \/ focus = "direct" /\ Next /\ UNCHANGED <<fragmentVars, focus>>
    \/ focus = "fragments" /\ FragmentNext /\ UNCHANGED <<vars, focus>>

\* A transfer does not stop by itself and the session runs it again.
MCFairness ==
    /\ WF_vars(focus = "direct" /\ Start)
    /\ WF_vars(focus = "direct" /\ Step)
    /\ WF_fragmentVars(focus = "fragments" /\ downloadFragmented)
    /\ WF_fragmentVars(focus = "fragments" /\ FragmentStep)

MCFairSpec == MCInit /\ [][MCNext]_<<vars, fragmentVars, focus>> /\ MCFairness

\* Both transfers keep their types, and with them their limits: the host's places
\* are never overbooked (the host semaphore of the engine's workers).
TypesOK == TypeOK /\ FragmentTypeOK

=============================================================================
