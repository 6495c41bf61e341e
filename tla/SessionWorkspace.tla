-------------------------- MODULE SessionWorkspace --------------------------
(***************************************************************************)
(* One session workspace under arbitrary sequences of the mutations its    *)
(* handle offers (internal/session/workspace.go).                          *)
(*                                                                         *)
(*   disk      the manifest image in manifest.json                         *)
(*   handle    the Workspace value of the lease holder: closed, open, or   *)
(*             fenced (reconciliationNeeded after an indeterminate write)  *)
(*   evidence  a .atomic-* temporary is left beside the manifest           *)
(*                                                                         *)
(* A call whose expected revision or generation is stale returns           *)
(* ErrStaleMutation and changes nothing; the actions are the calls that    *)
(* pass that comparison.  DirectSession models the comparison itself.      *)
(***************************************************************************)
EXTENDS SessionModel

VARIABLES disk, handle, evidence

vars == <<disk, handle, evidence>>

Init ==
    /\ \E relative \in Destination \cup {"unset"},
          checkpoints \in [Component -> {"unplaced", "placed"}] :
              disk = createdManifest(relative, checkpoints)
    /\ handle = "open"
    /\ evidence = FALSE

-----------------------------------------------------------------------------
(* Workspace.update after the revision comparison and the mutation: the    *)
(* candidate is validated and written atomically.                          *)

\* The image is replaced, whether or not a later directory sync failed.
persistCommitted(candidate) ==
    /\ disk' = candidate
    /\ UNCHANGED <<handle, evidence>>

\* A failure before the replacement; removing the temporary may fail as well.
persistFailed ==
    /\ evidence' \in {evidence, TRUE}
    /\ UNCHANGED <<disk, handle>>

\* The platform cannot say whether the replacement happened.
persistIndeterminate(candidate) ==
    /\ disk' \in {disk, candidate}
    /\ handle' = "fenced"
    /\ evidence' = TRUE

\* The process dies with the temporary written and not yet renamed.
persistTorn ==
    /\ handle' = "closed"
    /\ evidence' = TRUE
    /\ UNCHANGED disk

\* Mutant: the candidate is written without being validated.
update_Unvalidated(candidate) ==
    handle = "open" /\ persistCommitted(candidate)

update(candidate) ==
    /\ handle = "open"
    /\ Validate(candidate)
    /\ \/ persistCommitted(candidate)
       \/ persistFailed
       \/ persistIndeterminate(candidate)
       \/ persistTorn

-----------------------------------------------------------------------------
(* The mutations. *)

Transition(phase, status, desired) ==
    /\ transitionAllowed(disk, phase, status, desired, FALSE, FALSE)
    /\ update(transitioned(disk, phase, status, desired))

Resume ==
    /\ resumeAllowed(disk)
    /\ update(resumed(disk))

ResolveReconciliation(status, desired) ==
    /\ reconciliationAllowed(disk, status, desired)
    /\ update(transitioned(disk, reconciledPhase(disk, status), status, desired))

SetDesired(desired) ==
    /\ desiredAllowed(disk, desired)
    /\ update([disk EXCEPT !.desired = desired])

SetRelativeDestination(relative) ==
    /\ destinationAllowed(disk)
    /\ update([disk EXCEPT !.relativeDestination = relative])

SetComponentProgress(id, observed, committed) ==
    /\ progressAllowed(disk, id, observed, committed)
    /\ update(withProgress(disk, id, observed, committed,
                           disk.components[id].checkpoint))

SetComponentCheckpoint(id, observed, committed, checkpoint) ==
    /\ checkpointAllowed(disk, id, observed, committed, checkpoint)
    /\ update(withProgress(disk, id, observed, committed, checkpoint))

ResetComponent(id) == update(resetComponent(disk, id))

SetStagedOutput(fingerprint) ==
    /\ stagedOutputAllowed(disk)
    /\ update([disk EXCEPT !.stagedFingerprint = fingerprint])

RebindRelativeDestination(relative) ==
    /\ rebindAllowed(disk)
    /\ update([disk EXCEPT !.relativeDestination = relative])

SetPublicationState(state) ==
    /\ publicationAllowed(disk, state)
    /\ update(withPublication(disk, state))

ResolvePublication(state) ==
    /\ publicationResolvable(disk, state)
    /\ update([disk EXCEPT !.publication = state])

SetCleanupState(state) ==
    /\ cleanupAllowed(disk, state)
    /\ update(withCleanup(disk, state))

ResolveCleanup(state) ==
    /\ cleanupResolvable(disk, state)
    /\ update([disk EXCEPT !.cleanup = state])

\* Open takes the lease and refuses a workspace with atomic evidence.
Open ==
    /\ handle = "closed"
    /\ ~evidence
    /\ handle' = "open"
    /\ UNCHANGED <<disk, evidence>>

\* Close releases the lease and removes nothing; a crash between writes does
\* the same, since the operating system drops the lease of a dead process.
Close ==
    /\ handle # "closed"
    /\ handle' = "closed"
    /\ UNCHANGED <<disk, evidence>>

LifecycleMutation ==
    \/ \E phase \in Phase, status \in Status, desired \in DesiredState :
           Transition(phase, status, desired)
    \/ Resume
    \/ \E status \in Status, desired \in DesiredState :
           ResolveReconciliation(status, desired)
    \/ \E desired \in DesiredState : SetDesired(desired)

ComponentMutation ==
    \E id \in Component, observed, committed \in 0 .. MaxBytes :
        \/ SetComponentProgress(id, observed, committed)
        \/ \E checkpoint \in CheckpointMetadata :
               SetComponentCheckpoint(id, observed, committed, checkpoint)
        \/ ResetComponent(id)

OutputMutation ==
    \/ \E relative \in Destination : SetRelativeDestination(relative)
    \/ \E relative \in Destination : RebindRelativeDestination(relative)
    \/ \E fingerprint \in Fingerprint : SetStagedOutput(fingerprint)
    \/ \E state \in PublicationState : SetPublicationState(state)
    \/ \E state \in PublicationState : ResolvePublication(state)
    \/ \E state \in CleanupState : SetCleanupState(state)
    \/ \E state \in CleanupState : ResolveCleanup(state)

Next ==
    LifecycleMutation \/ ComponentMutation \/ OutputMutation \/ Open \/ Close

Spec == Init /\ [][Next]_vars

-----------------------------------------------------------------------------
(* Properties. *)

\* Every image on disk passes Manifest.Validate, so it can be opened again.
TypeOK ==
    /\ Validate(disk)
    /\ handle \in {"closed", "open", "fenced"}
    /\ evidence \in BOOLEAN

\* Publication and cleanup are never both in doubt: reconciliation, which
\* resolves one of them at a time, always knows which obligation it owes.
OneIndeterminacy ==
    disk.publication = "indeterminate" => disk.cleanup = "pending"

\* A result ResolveReconciliation would accept and persist for this image.
Resolvable(m) ==
    \E status \in Status, desired \in DesiredState :
        /\ reconciliationAllowed(m, status, desired)
        /\ Validate(transitioned(m, reconciledPhase(m, status), status, desired))

\* No dead end: an image that needs reconciliation has a legal way out,
\* whatever verdict ResolvePublication or ResolveCleanup records first.
ReconciliationResolvable ==
    disk.status = "needs_reconciliation" =>
        /\ disk.publication = "indeterminate" =>
               \A state \in {"committed", "pending"} :
                   Resolvable([disk EXCEPT !.publication = state])
        /\ disk.cleanup = "indeterminate" =>
               \A state \in {"complete", "pending"} :
                   Resolvable([disk EXCEPT !.cleanup = state])
        /\ disk.publication # "indeterminate" /\ disk.cleanup # "indeterminate"
               => Resolvable(disk)

\* A committed publication is never revoked, and the destination and the
\* fingerprint it was committed with never change afterwards.
CommittedIsFinal ==
    [][disk.publication = "committed" =>
          /\ disk'.publication = "committed"
          /\ disk'.relativeDestination = disk.relativeDestination
          /\ disk'.stagedFingerprint = disk.stagedFingerprint]_vars

\* "Restart authority belongs exclusively to Resume": a session becomes active
\* only with a new generation and with advisory progress dropped.
ActiveOnlyByResume ==
    [][disk.status # "active" /\ disk'.status = "active" =>
          /\ disk'.runGeneration = disk.runGeneration + 1
          /\ \A c \in Component : disk'.components[c].observedBytes
                                    = disk.components[c].committedBytes]_vars

\* Once the cleanup of a session is recorded complete it stays complete and the
\* session never runs again.
CleanupIsFinal ==
    [][disk.cleanup = "complete" =>
          disk'.cleanup = "complete" /\ disk'.status # "active"]_vars

\* A running worker does not advance the phase past a recorded pause or cancel
\* intent, and no change of disposition erases that intent.
IntentHonoured ==
    [][disk.status = "active" /\ disk.desired # "running" =>
          /\ disk'.phase = disk.phase
          /\ disk'.status # "active" => disk'.desired = disk.desired]_vars

\* Durable progress shrinks only by a reset, which drops all of it together
\* with the validators that vouched for it.
DurableProgressKept ==
    [][\A c \in Component :
          disk'.components[c].committedBytes < disk.components[c].committedBytes
            => disk'.components[c] = [observedBytes |-> 0, committedBytes |-> 0,
                                      checkpoint |-> "placed"]]_vars

\* After a write whose outcome is unknown the image is frozen: neither the
\* fenced handle nor a later Open can build on it.
UncertainImageFrozen ==
    [][evidence /\ handle # "open" => disk' = disk /\ handle' # "open"]_vars
=============================================================================
