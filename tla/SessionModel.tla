---------------------------- MODULE SessionModel ----------------------------
(***************************************************************************)
(* The durable session manifest: its enumerations, its lifecycle table and *)
(* the checks and effects of its methods (internal/session/model.go).      *)
(* There is no state here.  SessionWorkspace makes one action of each      *)
(* workspace mutation, and DirectSession runs a download session on top.   *)
(*                                                                         *)
(* Left out of the manifest record: the static identity (version, session  *)
(* id, source and output intent), timestamps, StagedBytes (one with the    *)
(* fingerprint here) and Revision, which Workspace.update owns.            *)
(***************************************************************************)
EXTENDS Integers

CONSTANTS
    Component,      \* component identifiers of the session
    Destination,    \* safe relative destinations
    Fingerprint,    \* SHA-256 fingerprints of staged outputs
    Validator,      \* remote representation validators of a checkpoint
    MaxBytes,       \* bound on the progress of a component
    MaxGeneration   \* ^uint64(0): the last run generation

\* "unset" stands for the empty string of a field that is not set.
ASSUME FieldAssumption ==
    /\ "unset" \notin Destination
    /\ "unset" \notin Fingerprint
    /\ {"unplaced", "placed"} \cap Validator = {}

ASSUME BoundAssumption ==
    /\ MaxBytes \in Nat
    /\ MaxGeneration \in Nat \ {0}

-----------------------------------------------------------------------------
Phase == {"prepared", "extracting", "downloading", "processing",
          "ready_to_publish", "completed"}

Status == {"active", "paused", "failed", "canceled",
           "needs_reconciliation", "completed"}

DesiredState == {"running", "paused", "canceled"}

PublicationState == {"not_started", "pending", "committed", "indeterminate"}

CleanupState == {"pending", "complete", "indeterminate"}

\* "unplaced": no RelativePath; "placed": a path and no validators; otherwise
\* a path with the validators of one remote representation.
CheckpointMetadata == {"unplaced", "placed"} \cup Validator

ComponentState == [observedBytes  : 0 .. MaxBytes,
                   committedBytes : 0 .. MaxBytes,
                   checkpoint     : CheckpointMetadata]

NoTransition == [fromPhase |-> "unset", fromStatus |-> "unset",
                 toPhase |-> "unset", toStatus |-> "unset"]

TransitionRecord == [fromPhase : Phase, fromStatus : Status,
                     toPhase   : Phase, toStatus   : Status]

Manifest == [runGeneration       : 1 .. MaxGeneration,
             relativeDestination : Destination \cup {"unset"},
             phase               : Phase,
             status              : Status,
             desired             : DesiredState,
             components          : [Component -> ComponentState],
             publication         : PublicationState,
             stagedFingerprint   : Fingerprint \cup {"unset"},
             cleanup             : CleanupState,
             lastTransition      : TransitionRecord \cup {NoTransition}]

-----------------------------------------------------------------------------
(* The lifecycle table. *)

phaseTransitions ==
    { <<"prepared", "extracting">>, <<"extracting", "downloading">>,
      <<"downloading", "processing">>, <<"downloading", "ready_to_publish">>,
      <<"processing", "ready_to_publish">>,
      <<"ready_to_publish", "completed">> }

samePhaseStatusTransitions ==
    ({"active"} \X {"paused", "failed", "canceled", "needs_reconciliation"})
    \cup ({"paused"} \X {"active", "failed", "canceled", "needs_reconciliation"})
    \cup ({"failed"} \X {"active", "paused", "canceled", "needs_reconciliation"})
    \cup ({"needs_reconciliation"} \X {"paused", "failed", "canceled"})
    \cup ({"canceled"} \X {"needs_reconciliation"})

validLifecycleState(phase, status) ==
    IF phase = "completed"
    THEN status \in {"completed", "needs_reconciliation"}
    ELSE status # "completed"

\* The only moves into or inside the completed phase.
completedTransition(fromPhase, fromStatus, toPhase, toStatus) ==
    \/ /\ fromPhase = "ready_to_publish"
       /\ fromStatus \in {"active", "needs_reconciliation"}
       /\ toPhase = "completed" /\ toStatus = "completed"
    \/ /\ fromPhase = "completed" /\ fromStatus = "completed"
       /\ toPhase = "completed" /\ toStatus = "needs_reconciliation"
    \/ /\ fromPhase = "completed" /\ fromStatus = "needs_reconciliation"
       /\ toPhase = "completed" /\ toStatus = "completed"

CanTransition(fromPhase, fromStatus, toPhase, toStatus) ==
    /\ validLifecycleState(fromPhase, fromStatus)
    /\ validLifecycleState(toPhase, toStatus)
    /\ \/ fromPhase = toPhase /\ fromStatus = toStatus
       \/ completedTransition(fromPhase, fromStatus, toPhase, toStatus)
       \/ /\ fromPhase # "completed" /\ toPhase # "completed"
          /\ \/ /\ fromPhase = toPhase
                /\ <<fromStatus, toStatus>> \in samePhaseStatusTransitions
             \/ /\ fromStatus = "active" /\ toStatus = "active"
                /\ <<fromPhase, toPhase>> \in phaseTransitions

validDesiredForStatus(status, desired) ==
    /\ status = "paused" => desired = "paused"
    /\ status = "canceled" => desired = "canceled"
    /\ status = "completed" => desired = "running"

phaseRequiresDestination(phase) ==
    phase \in {"downloading", "processing", "ready_to_publish", "completed"}

validPublicationTransition(current, next, phase) ==
    \/ current = next
    \/ /\ phase = "ready_to_publish"
       /\ \/ current = "not_started" /\ next = "pending"
          \/ current = "pending" /\ next \in {"committed", "indeterminate"}

validCleanupTransition(current, next) ==
    current = next \/ (current = "pending" /\ next # "pending")

terminalCleanupStatus(status) == status \in {"failed", "canceled", "completed"}

-----------------------------------------------------------------------------
(* The image a workspace is created with, and the check of every image. *)

createdManifest(relative, checkpoints) ==
    [runGeneration |-> 1, relativeDestination |-> relative,
     phase |-> "prepared", status |-> "active", desired |-> "running",
     components |-> [c \in Component |->
         [observedBytes |-> 0, committedBytes |-> 0,
          checkpoint |-> checkpoints[c]]],
     publication |-> "not_started", stagedFingerprint |-> "unset",
     cleanup |-> "pending", lastTransition |-> NoTransition]

validComponents(components) ==
    \A c \in Component :
        /\ components[c].committedBytes <= components[c].observedBytes
        /\ components[c].committedBytes > 0
              => components[c].checkpoint # "unplaced"

validPublication(m) ==
    /\ m.phase = "completed" => m.publication = "committed"
    /\ m.publication = "pending" => m.phase = "ready_to_publish"
    /\ m.publication = "committed"
         => m.phase \in {"ready_to_publish", "completed"}
    /\ m.publication = "indeterminate" => m.status = "needs_reconciliation"

validCleanup(m) ==
    /\ m.cleanup = "complete"
         => terminalCleanupStatus(m.status) \/ m.status = "needs_reconciliation"
    /\ m.cleanup = "indeterminate" => m.status = "needs_reconciliation"
    /\ m.cleanup # "pending" /\ m.status = "needs_reconciliation"
         => terminalCleanupStatus(m.lastTransition.fromStatus)

validLastTransition(m) ==
    IF m.lastTransition = NoTransition
    THEN m.phase = "prepared" /\ m.status = "active"
    ELSE /\ validLifecycleState(m.lastTransition.fromPhase,
                                m.lastTransition.fromStatus)
         /\ m.lastTransition.toPhase = m.phase
         /\ m.lastTransition.toStatus = m.status

Validate(m) ==
    /\ m \in Manifest
    /\ phaseRequiresDestination(m.phase) => m.relativeDestination # "unset"
    /\ validLifecycleState(m.phase, m.status)
    /\ validDesiredForStatus(m.status, m.desired)
    /\ validPublication(m)
    /\ validCleanup(m)
    /\ validLastTransition(m)
    /\ validComponents(m.components)

-----------------------------------------------------------------------------
(* Mutations: for each one the condition under which the manifest accepts  *)
(* it, and the candidate image it produces.                                *)

recordTransition(m, phase, status) ==
    [fromPhase |-> m.phase, fromStatus |-> m.status,
     toPhase |-> phase, toStatus |-> status]

\* The conditions of transition() before it consults the lifecycle table.
intentAllows(m, status, desired, reconciling, terminal) ==
    /\ m.status = "needs_reconciliation" => reconciling
    /\ m.status = "completed" => terminal
    /\ status = "active"
         => m.status = "active" /\ m.desired = "running" /\ desired = "running"
    /\ reconciling \/ m.desired = "running" \/ desired = m.desired

transitionAllowed(m, phase, status, desired, reconciling, terminal) ==
    /\ intentAllows(m, status, desired, reconciling, terminal)
    /\ CanTransition(m.phase, m.status, phase, status)
    /\ phaseRequiresDestination(phase) => m.relativeDestination # "unset"
    /\ validDesiredForStatus(status, desired)

transitioned(m, phase, status, desired) ==
    [m EXCEPT !.phase = phase, !.status = status, !.desired = desired,
              !.lastTransition = recordTransition(m, phase, status)]

resumeAllowed(m) ==
    /\ m.status \in {"paused", "failed"}
    /\ m.cleanup = "pending"
    /\ CanTransition(m.phase, m.status, m.phase, "active")
    /\ m.runGeneration # MaxGeneration

\* PrepareResume: advisory progress falls back to the durable boundary.
prepareResume(components) ==
    [c \in Component |-> [components[c] EXCEPT
                            !.observedBytes = components[c].committedBytes]]

resumed(m) ==
    [m EXCEPT !.status = "active", !.desired = "running",
              !.components = prepareResume(m.components),
              !.lastTransition = recordTransition(m, m.phase, "active"),
              !.runGeneration = m.runGeneration + 1]

reconciledPhase(m, status) ==
    IF status = "completed" THEN "completed" ELSE m.phase

\* Mutant: a completed phase is not accepted as a reconciliation result.
reconciliationAllowed_ReadyOnly(m, status, desired) ==
    /\ m.status = "needs_reconciliation"
    /\ m.publication # "indeterminate"
    /\ m.cleanup # "indeterminate"
    /\ \/ /\ status = "completed"
          /\ m.publication = "committed"
          /\ m.phase = "ready_to_publish"
       \/ status \in {"paused", "failed", "canceled"}
    /\ transitionAllowed(m, reconciledPhase(m, status), status, desired,
                         TRUE, FALSE)

reconciliationAllowed(m, status, desired) ==
    /\ m.status = "needs_reconciliation"
    /\ m.publication # "indeterminate"
    /\ m.cleanup # "indeterminate"
    /\ \/ /\ status = "completed"
          /\ m.publication = "committed"
          /\ m.phase \in {"ready_to_publish", "completed"}
       \/ status \in {"paused", "failed", "canceled"}
    /\ transitionAllowed(m, reconciledPhase(m, status), status, desired,
                         TRUE, FALSE)

desiredAllowed(m, desired) == validDesiredForStatus(m.status, desired)

destinationAllowed(m) ==
    m.relativeDestination = "unset" /\ ~phaseRequiresDestination(m.phase)

rebindAllowed(m) ==
    /\ m.phase = "ready_to_publish"
    /\ m.status # "active"
    /\ m.publication \notin {"committed", "indeterminate"}

progressAllowed(m, id, observed, committed) ==
    /\ committed <= observed
    /\ observed >= m.components[id].observedBytes
    /\ committed >= m.components[id].committedBytes
    /\ committed > 0 => m.components[id].checkpoint # "unplaced"

\* Mutant: a checkpoint may lower the committed boundary.
checkpointAllowed_Regresses(m, id, observed, committed, checkpoint) ==
    /\ checkpoint = "unplaced" <=> m.components[id].checkpoint = "unplaced"
    /\ observed >= m.components[id].observedBytes

checkpointAllowed(m, id, observed, committed, checkpoint) ==
    /\ checkpoint = "unplaced" <=> m.components[id].checkpoint = "unplaced"
    /\ observed >= m.components[id].observedBytes
    /\ committed >= m.components[id].committedBytes

withProgress(m, id, observed, committed, checkpoint) ==
    [m EXCEPT !.components[id] = [observedBytes |-> observed,
                                  committedBytes |-> committed,
                                  checkpoint |-> checkpoint]]

\* ResetComponent keeps the path of the checkpoint and drops the rest.
resetComponent(m, id) ==
    withProgress(m, id, 0, 0,
        IF m.components[id].checkpoint = "unplaced" THEN "unplaced" ELSE "placed")

stagedOutputAllowed(m) ==
    /\ m.phase \in {"processing", "ready_to_publish"}
    /\ m.status = "active"
    /\ m.publication \notin {"committed", "indeterminate"}

publicationAllowed(m, state) ==
    /\ m.status = "active"
    /\ validPublicationTransition(m.publication, state, m.phase)
    /\ state = "indeterminate"
         => transitionAllowed(m, m.phase, "needs_reconciliation", m.desired,
                              FALSE, FALSE)

withPublication(m, state) ==
    [(IF state = "indeterminate"
      THEN transitioned(m, m.phase, "needs_reconciliation", m.desired)
      ELSE m) EXCEPT !.publication = state]

publicationResolvable(m, state) ==
    /\ m.status = "needs_reconciliation"
    /\ m.publication = "indeterminate"
    /\ state \in {"committed", "pending"}

cleanupAllowed(m, state) ==
    /\ validCleanupTransition(m.cleanup, state)
    /\ terminalCleanupStatus(m.status)
    /\ state = "indeterminate"
         => transitionAllowed(m, m.phase, "needs_reconciliation", m.desired,
                              FALSE, TRUE)

withCleanup(m, state) ==
    [(IF state = "indeterminate"
      THEN transitioned(m, m.phase, "needs_reconciliation", m.desired)
      ELSE m) EXCEPT !.cleanup = state]

cleanupResolvable(m, state) ==
    /\ m.status = "needs_reconciliation"
    /\ m.cleanup = "indeterminate"
    /\ state \in {"complete", "pending"}
=============================================================================
