--------------------------- MODULE MCSharedCaches ---------------------------
(***************************************************************************)
(* Two stores that several users share and that do not touch each other:   *)
(* the download archive (ArchiveStore) and the preprocessed players        *)
(* (PlayerSolver).  focus says which one is looked at.                     *)
(***************************************************************************)
EXTENDS MCArchiveStore, PlayerSolver

VARIABLE focus

asks(s, p) == [solver |-> s, player |-> p]

\* Callers who share a solver and a player, a player, or a solver.
Pairs ==
    {[a |-> asks("s", "p"), b |-> other] :
        other \in {asks("s", "p"), asks("t", "p"), asks("s", "q")}}

\* Callers who share a flight may both leave it; one transform on disk may be bad
\* from the start, or become so.  The store that is not in focus
\* does not move; its choices are fixed.
MCInit ==
    /\ focus \in {"archive", "solver"}
    /\ Init /\ SolverInit
    /\ disk["q"] = "none"
    /\ spare.disturbances = IF job.a = job.b /\ disk["p"] = "none" THEN MaxDisturbances ELSE 1
    /\ focus = "archive" => job.a = job.b /\ disk["p"] = "none"
    /\ focus = "solver" => /\ archive.version = 0
                           /\ proc = [p \in Process |-> Begin("match", "id")]

MCNext ==
    \/ focus = "archive" /\ Next /\ UNCHANGED <<solverVars, focus>>
    \/ focus = "solver" /\ SolverNext /\ UNCHANGED <<vars, focus>>

\* A process or goroutine that lives goes on, the helper answers or dies, and
\* time passes.
MCFairness ==
    /\ WF_vars(focus = "archive" /\ Age)
    /\ \A p \in Process : WF_vars(focus = "archive" /\ Step(p))
    /\ \A c \in Caller : WF_solverVars(focus = "solver" /\ callerStep(c))
    /\ \A f \in Flight : WF_solverVars(focus = "solver" /\ flightStep(f))

MCFairSpec == MCInit /\ [][MCNext]_<<vars, solverVars, focus>> /\ MCFairness

\* Every operation on the archive ends, also when a process died with the lock:
\* the lock is broken once it is old (lockIsStale and the rename in lock).
ArchiveOperationsEnd == focus = "archive" => OperationsEnd

\* Every call of SolvePlayer returns, whatever the helper and the other callers
\* do: the slot, the gate and solver.mu are given back on every path.
SolverCallsReturn == focus = "solver" => CallsReturn

\* Both stores keep their types, and the order of the memory cache lists exactly
\* its entries (storeLocked, invalidatePreprocessed).
TypesOK == TypeOK /\ SolverTypeOK

=============================================================================
