----------------------- MODULE SessionWorkspaceProofs -----------------------
(***************************************************************************)
(* Proofs about SessionWorkspace, for every set of components,             *)
(* destinations, fingerprints and validators and for every bound.          *)
(***************************************************************************)
EXTENDS SessionWorkspace, TLAPS

\* What a call of Workspace.update may do, whatever mutation made it: the image
\* on disk stays or becomes the candidate, which was validated, and an image
\* only changes under an open handle.
LEMMA UpdateStep ==
    ASSUME NEW candidate, update(candidate)
    PROVE  /\ disk' = disk \/ (disk' = candidate /\ Validate(candidate))
           /\ handle = "open"
           /\ handle' \in {handle, "fenced", "closed"}
           /\ evidence' \in {evidence, TRUE}
BY DEF update, persistCommitted, persistFailed, persistIndeterminate, persistTorn

\* Opening and closing a handle leaves the image alone.
LEMMA HandleStep ==
    ASSUME Open \/ Close
    PROVE  disk' = disk
BY DEF Open, Close

\* A manifest that has just been created is valid (create calls Validate before
\* the first write).
LEMMA CreatedIsValid ==
    ASSUME NEW relative \in Destination \cup {"unset"},
           NEW checkpoints \in [Component -> {"unplaced", "placed"}]
    PROVE  Validate(createdManifest(relative, checkpoints))
<1> DEFINE m == createdManifest(relative, checkpoints)
<1>1. m.components \in [Component -> ComponentState]
  <2>1. ASSUME NEW c \in Component
        PROVE  [observedBytes |-> 0, committedBytes |-> 0,
                checkpoint |-> checkpoints[c]] \in ComponentState
    BY BoundAssumption DEF ComponentState, CheckpointMetadata
  <2> QED BY <2>1 DEF createdManifest
<1>2. m \in Manifest
  <2>1. 1 \in 1 .. MaxGeneration
    BY BoundAssumption
  <2> QED
    BY <1>1, <2>1
       DEF createdManifest, Manifest, Phase, Status, DesiredState,
           PublicationState, CleanupState
<1>3. validComponents(m.components)
  BY DEF createdManifest, validComponents
<1> QED
  BY <1>2, <1>3
     DEF createdManifest, Validate, phaseRequiresDestination, validLifecycleState,
         validDesiredForStatus, validPublication, validCleanup, validLastTransition

\* Every image of every behaviour passes Manifest.Validate.
THEOREM TypeCorrect == Spec => []TypeOK
<1>1. Init => TypeOK
  BY CreatedIsValid DEF Init, TypeOK
<1>2. TypeOK /\ [Next]_vars => TypeOK'
  <2> SUFFICES ASSUME TypeOK, [Next]_vars
               PROVE  TypeOK'
    OBVIOUS
  <2>1. ASSUME NEW candidate, update(candidate)
        PROVE  TypeOK'
    BY <2>1, UpdateStep DEF TypeOK, Validate
  <2>2. CASE LifecycleMutation
    BY <2>1, <2>2 DEF LifecycleMutation, Transition, Resume,
                      ResolveReconciliation, SetDesired
  <2>3. CASE ComponentMutation
    BY <2>1, <2>3 DEF ComponentMutation, SetComponentProgress,
                      SetComponentCheckpoint, ResetComponent
  <2>4. CASE OutputMutation
    BY <2>1, <2>4 DEF OutputMutation, SetRelativeDestination, SetStagedOutput,
                      RebindRelativeDestination, SetPublicationState,
                      ResolvePublication, SetCleanupState, ResolveCleanup
  <2>5. CASE Open \/ Close
    BY <2>5 DEF Open, Close, TypeOK, Validate
  <2>6. CASE UNCHANGED vars
    BY <2>6 DEF vars, TypeOK, Validate
  <2> QED BY <2>2, <2>3, <2>4, <2>5, <2>6 DEF Next
<1> QED BY <1>1, <1>2, PTL DEF Spec

-----------------------------------------------------------------------------
(* The steps an image can take: one disjunct per mutation that changes it. *)

LifecycleStep(m, n) ==
    \/ \E phase \in Phase, status \in Status, desired \in DesiredState :
           /\ transitionAllowed(m, phase, status, desired, FALSE, FALSE)
           /\ n = transitioned(m, phase, status, desired)
    \/ resumeAllowed(m) /\ n = resumed(m)
    \/ \E status \in Status, desired \in DesiredState :
           /\ reconciliationAllowed(m, status, desired)
           /\ n = transitioned(m, reconciledPhase(m, status), status, desired)
    \/ \E desired \in DesiredState :
           desiredAllowed(m, desired) /\ n = [m EXCEPT !.desired = desired]

ComponentStep(m, n) ==
    \E id \in Component, observed, committed \in 0 .. MaxBytes :
        \/ /\ progressAllowed(m, id, observed, committed)
           /\ n = withProgress(m, id, observed, committed,
                               m.components[id].checkpoint)
        \/ \E checkpoint \in CheckpointMetadata :
               /\ checkpointAllowed(m, id, observed, committed, checkpoint)
               /\ n = withProgress(m, id, observed, committed, checkpoint)
        \/ n = resetComponent(m, id)

OutputStep(m, n) ==
    \/ \E relative \in Destination :
           /\ destinationAllowed(m) \/ rebindAllowed(m)
           /\ n = [m EXCEPT !.relativeDestination = relative]
    \/ \E fingerprint \in Fingerprint :
           /\ stagedOutputAllowed(m)
           /\ n = [m EXCEPT !.stagedFingerprint = fingerprint]
    \/ \E state \in PublicationState :
           publicationAllowed(m, state) /\ n = withPublication(m, state)
    \/ \E state \in PublicationState :
           publicationResolvable(m, state) /\ n = [m EXCEPT !.publication = state]
    \/ \E state \in CleanupState :
           cleanupAllowed(m, state) /\ n = withCleanup(m, state)
    \/ \E state \in CleanupState :
           cleanupResolvable(m, state) /\ n = [m EXCEPT !.cleanup = state]

ImageStep(m, n) == LifecycleStep(m, n) \/ ComponentStep(m, n) \/ OutputStep(m, n)

\* Every step of the workspace leaves the image alone or makes one of the steps
\* above, to a valid image.
LEMMA StepOfImage ==
    ASSUME [Next]_vars
    PROVE  \E n : disk' = n /\ (n = disk \/ (ImageStep(disk, n) /\ Validate(n)))
<1> DEFINE Goal ==
        \E n : disk' = n /\ (n = disk \/ (ImageStep(disk, n) /\ Validate(n)))
<1> SUFFICES Goal
  OBVIOUS
<1>0. ASSUME NEW candidate, update(candidate), ImageStep(disk, candidate)
      PROVE  Goal
  BY <1>0, UpdateStep
<1> HIDE DEF Goal
<1>1. CASE LifecycleMutation
  <2>1. ASSUME NEW phase \in Phase, NEW status \in Status, NEW desired \in DesiredState,
               Transition(phase, status, desired)
        PROVE  Goal
    BY <1>0, <2>1, Zenon DEF Transition, ImageStep, LifecycleStep
  <2>2. ASSUME Resume
        PROVE  Goal
    BY <1>0, <2>2, Zenon DEF Resume, ImageStep, LifecycleStep
  <2>3. ASSUME NEW status \in Status, NEW desired \in DesiredState,
               ResolveReconciliation(status, desired)
        PROVE  Goal
    BY <1>0, <2>3, Zenon DEF ResolveReconciliation, ImageStep, LifecycleStep
  <2>4. ASSUME NEW desired \in DesiredState,
               SetDesired(desired)
        PROVE  Goal
    BY <1>0, <2>4, Zenon DEF SetDesired, ImageStep, LifecycleStep
  <2> QED
    BY <2>1, <2>2, <2>3, <2>4, <1>1 DEF LifecycleMutation
<1>2. CASE ComponentMutation
  <2>1. ASSUME NEW id \in Component,
               NEW observed \in 0 .. MaxBytes, NEW committed \in 0 .. MaxBytes,
               SetComponentProgress(id, observed, committed)
        PROVE  Goal
    BY <1>0, <2>1, Zenon DEF SetComponentProgress, ImageStep, ComponentStep
  <2>2. ASSUME NEW id \in Component,
               NEW observed \in 0 .. MaxBytes, NEW committed \in 0 .. MaxBytes,
               NEW checkpoint \in CheckpointMetadata,
               SetComponentCheckpoint(id, observed, committed, checkpoint)
        PROVE  Goal
    BY <1>0, <2>2, Zenon DEF SetComponentCheckpoint, ImageStep, ComponentStep
  <2>3. ASSUME NEW id \in Component,
               NEW observed \in 0 .. MaxBytes, NEW committed \in 0 .. MaxBytes,
               ResetComponent(id)
        PROVE  Goal
    BY <1>0, <2>3, Zenon DEF ResetComponent, ImageStep, ComponentStep
  <2> QED
    BY <2>1, <2>2, <2>3, <1>2 DEF ComponentMutation
<1>3. CASE OutputMutation
  <2>1. ASSUME NEW relative \in Destination,
               SetRelativeDestination(relative)
        PROVE  Goal
    BY <1>0, <2>1, Zenon DEF SetRelativeDestination, ImageStep, OutputStep
  <2>2. ASSUME NEW relative \in Destination,
               RebindRelativeDestination(relative)
        PROVE  Goal
    BY <1>0, <2>2, Zenon DEF RebindRelativeDestination, ImageStep, OutputStep
  <2>3. ASSUME NEW fingerprint \in Fingerprint,
               SetStagedOutput(fingerprint)
        PROVE  Goal
    BY <1>0, <2>3, Zenon DEF SetStagedOutput, ImageStep, OutputStep
  <2>4. ASSUME NEW state \in PublicationState,
               SetPublicationState(state)
        PROVE  Goal
    BY <1>0, <2>4, Zenon DEF SetPublicationState, ImageStep, OutputStep
  <2>5. ASSUME NEW state \in PublicationState,
               ResolvePublication(state)
        PROVE  Goal
    BY <1>0, <2>5, Zenon DEF ResolvePublication, ImageStep, OutputStep
  <2>6. ASSUME NEW state \in CleanupState,
               SetCleanupState(state)
        PROVE  Goal
    BY <1>0, <2>6, Zenon DEF SetCleanupState, ImageStep, OutputStep
  <2>7. ASSUME NEW state \in CleanupState,
               ResolveCleanup(state)
        PROVE  Goal
    BY <1>0, <2>7, Zenon DEF ResolveCleanup, ImageStep, OutputStep
  <2> QED
    BY <2>1, <2>2, <2>3, <2>4, <2>5, <2>6, <2>7, <1>3 DEF OutputMutation
<1>4. CASE Open \/ Close
  BY <1>4, HandleStep DEF Goal
<1>5. CASE UNCHANGED vars
  BY <1>5 DEF vars, Goal
<1> QED BY <1>1, <1>2, <1>3, <1>4, <1>5 DEF Next, Goal

-----------------------------------------------------------------------------
(* What each kind of step keeps and requires. *)

\* Component progress never touches the lifecycle or the output.
LEMMA ComponentStepKeeps ==
    ASSUME NEW m \in Manifest, NEW n, ComponentStep(m, n)
    PROVE  /\ n.phase = m.phase /\ n.status = m.status /\ n.desired = m.desired
           /\ n.publication = m.publication /\ n.cleanup = m.cleanup
           /\ n.relativeDestination = m.relativeDestination
           /\ n.stagedFingerprint = m.stagedFingerprint
           /\ n.runGeneration = m.runGeneration
BY DEF ComponentStep, withProgress, resetComponent, Manifest

\* A lifecycle mutation never touches the output; only Resume makes a session
\* active, and it needs a pending cleanup.
LEMMA LifecycleStepKeeps ==
    ASSUME NEW m \in Manifest, NEW n, LifecycleStep(m, n)
    PROVE  /\ n.publication = m.publication /\ n.cleanup = m.cleanup
           /\ n.relativeDestination = m.relativeDestination
           /\ n.stagedFingerprint = m.stagedFingerprint
           /\ \/ resumeAllowed(m) /\ n = resumed(m)
              \/ /\ n.components = m.components
                 /\ n.runGeneration = m.runGeneration
                 /\ n.status = "active" => m.status = "active"
                 /\ m.status = "active" /\ m.desired # "running" =>
                       /\ n.phase = m.phase
                       /\ n.status = "active" \/ n.desired = m.desired
<1>1. CASE \E phase \in Phase, status \in Status, desired \in DesiredState :
               /\ transitionAllowed(m, phase, status, desired, FALSE, FALSE)
               /\ n = transitioned(m, phase, status, desired)
  <2> PICK phase \in Phase, status \in Status, desired \in DesiredState :
               /\ transitionAllowed(m, phase, status, desired, FALSE, FALSE)
               /\ n = transitioned(m, phase, status, desired)
    BY <1>1
  <2>1. /\ n.publication = m.publication /\ n.cleanup = m.cleanup
        /\ n.relativeDestination = m.relativeDestination
        /\ n.stagedFingerprint = m.stagedFingerprint
        /\ n.components = m.components /\ n.runGeneration = m.runGeneration
        /\ n.phase = phase /\ n.status = status /\ n.desired = desired
    BY DEF transitioned, Manifest
  <2>2. status = "active" => m.status = "active" /\ m.desired = "running"
    BY DEF transitionAllowed, intentAllows
  <2>3. m.desired # "running" => desired = m.desired
    BY DEF transitionAllowed, intentAllows
  <2>4. m.status = "active" /\ m.desired # "running" => phase = m.phase
    BY <2>2, <2>3
       DEF transitionAllowed, CanTransition, completedTransition,
           validLifecycleState, validDesiredForStatus
  <2> QED BY <2>1, <2>2, <2>3, <2>4
<1>2. CASE resumeAllowed(m) /\ n = resumed(m)
  BY <1>2 DEF resumed, Manifest
<1>3. CASE \E status \in Status, desired \in DesiredState :
               /\ reconciliationAllowed(m, status, desired)
               /\ n = transitioned(m, reconciledPhase(m, status), status, desired)
  BY <1>3 DEF reconciliationAllowed, transitioned, Manifest
<1>4. CASE \E desired \in DesiredState :
               desiredAllowed(m, desired) /\ n = [m EXCEPT !.desired = desired]
  BY <1>4 DEF Manifest
<1> QED BY <1>1, <1>2, <1>3, <1>4 DEF LifecycleStep

\* An output mutation keeps the phase, the progress and the generation, and
\* never makes a session active; what it may change depends on the publication,
\* cleanup and disposition it finds.
LEMMA OutputStepKeeps ==
    ASSUME NEW m \in Manifest, NEW n, OutputStep(m, n)
    PROVE  /\ n.phase = m.phase
           /\ n.desired = m.desired
           /\ n.components = m.components
           /\ n.runGeneration = m.runGeneration
           /\ n.status = m.status \/ n.status = "needs_reconciliation"
           /\ n.publication # m.publication =>
                 /\ m.publication # "committed"
                 /\ n.cleanup = m.cleanup
                 /\ n.publication = "indeterminate" => m.status = "active"
           /\ n.cleanup # m.cleanup =>
                 /\ m.cleanup # "complete"
                 /\ n.publication = m.publication
                 /\ terminalCleanupStatus(m.status) \/ m.cleanup = "indeterminate"
           /\ n.relativeDestination # m.relativeDestination =>
                 destinationAllowed(m) \/ rebindAllowed(m)
           /\ n.stagedFingerprint # m.stagedFingerprint => stagedOutputAllowed(m)
<1>1. CASE \E relative \in Destination :
               /\ destinationAllowed(m) \/ rebindAllowed(m)
               /\ n = [m EXCEPT !.relativeDestination = relative]
  BY <1>1 DEF Manifest
<1>2. CASE \E fingerprint \in Fingerprint :
               /\ stagedOutputAllowed(m)
               /\ n = [m EXCEPT !.stagedFingerprint = fingerprint]
  BY <1>2 DEF Manifest
<1>3. CASE \E state \in PublicationState :
               publicationAllowed(m, state) /\ n = withPublication(m, state)
  BY <1>3 DEF publicationAllowed, withPublication, validPublicationTransition,
              transitioned, Manifest
<1>4. CASE \E state \in PublicationState :
               /\ publicationResolvable(m, state)
               /\ n = [m EXCEPT !.publication = state]
  BY <1>4 DEF publicationResolvable, Manifest
<1>5. CASE \E state \in CleanupState :
               cleanupAllowed(m, state) /\ n = withCleanup(m, state)
  BY <1>5 DEF cleanupAllowed, withCleanup, validCleanupTransition, transitioned,
              Manifest
<1>6. CASE \E state \in CleanupState :
               cleanupResolvable(m, state) /\ n = [m EXCEPT !.cleanup = state]
  BY <1>6 DEF cleanupResolvable, Manifest
<1> QED BY <1>1, <1>2, <1>3, <1>4, <1>5, <1>6 DEF OutputStep

-----------------------------------------------------------------------------
(* The theorems. *)

\* Publication and cleanup are never both indeterminate: publication becomes
\* indeterminate only from an active session, whose cleanup is pending, and
\* cleanup only changes in a terminal disposition or when it is in doubt itself.
THEOREM IndeterminacyExclusive == Spec => []OneIndeterminacy
<1>1. Init => OneIndeterminacy
  BY DEF Init, OneIndeterminacy, createdManifest
<1>2. TypeOK /\ OneIndeterminacy /\ [Next]_vars => OneIndeterminacy'
  <2> SUFFICES ASSUME TypeOK, OneIndeterminacy, [Next]_vars
               PROVE  OneIndeterminacy'
    OBVIOUS
  <2> PICK n : disk' = n /\ (n = disk \/ (ImageStep(disk, n) /\ Validate(n)))
    BY StepOfImage
  <2>1. disk \in Manifest /\ validPublication(disk) /\ validCleanup(disk)
    BY DEF TypeOK, Validate
  <2>2. n.publication = "indeterminate" => n.cleanup = "pending"
    <3>1. CASE n = disk
      BY <3>1 DEF OneIndeterminacy
    <3>2. CASE LifecycleStep(disk, n)
      BY <2>1, <3>2, LifecycleStepKeeps DEF OneIndeterminacy
    <3>3. CASE ComponentStep(disk, n)
      BY <2>1, <3>3, ComponentStepKeeps DEF OneIndeterminacy
    <3>4. CASE OutputStep(disk, n)
      <4>1. disk.status = "active" => disk.cleanup = "pending"
        BY <2>1 DEF validCleanup, terminalCleanupStatus, Manifest, CleanupState
      <4>2. disk.publication = "indeterminate"
              => ~terminalCleanupStatus(disk.status)
        BY <2>1 DEF validPublication, terminalCleanupStatus
      <4> QED
        BY <2>1, <3>4, <4>1, <4>2, OutputStepKeeps DEF OneIndeterminacy
    <3> QED BY <3>1, <3>2, <3>3, <3>4 DEF ImageStep
  <2> QED BY <2>2 DEF OneIndeterminacy
<1> QED BY <1>1, <1>2, TypeCorrect, PTL DEF Spec

\* A committed publication is never revoked and keeps its destination and its
\* fingerprint (the guards of RebindRelativeDestination, SetStagedOutput and
\* SetRelativeDestination, the last one by way of Validate).
THEOREM PublicationFinal == Spec => CommittedIsFinal
<1>1. TypeOK /\ [Next]_vars =>
        [disk.publication = "committed" =>
            /\ disk'.publication = "committed"
            /\ disk'.relativeDestination = disk.relativeDestination
            /\ disk'.stagedFingerprint = disk.stagedFingerprint]_vars
  <2> SUFFICES ASSUME TypeOK, [Next]_vars, disk.publication = "committed"
               PROVE  /\ disk'.publication = "committed"
                      /\ disk'.relativeDestination = disk.relativeDestination
                      /\ disk'.stagedFingerprint = disk.stagedFingerprint
    OBVIOUS
  <2> PICK n : disk' = n /\ (n = disk \/ (ImageStep(disk, n) /\ Validate(n)))
    BY StepOfImage
  <2>1. disk \in Manifest /\ validPublication(disk)
    BY DEF TypeOK, Validate
  <2>2. CASE OutputStep(disk, n)
    <3>1. ~destinationAllowed(disk) /\ ~rebindAllowed(disk)
      BY <2>1 DEF destinationAllowed, rebindAllowed, phaseRequiresDestination,
                  validPublication
    <3>2. ~stagedOutputAllowed(disk)
      BY DEF stagedOutputAllowed
    <3> QED BY <2>1, <2>2, <3>1, <3>2, OutputStepKeeps
  <2> QED
    BY <2>1, <2>2, LifecycleStepKeeps, ComponentStepKeeps DEF ImageStep
<1> QED BY <1>1, TypeCorrect, PTL DEF Spec, CommittedIsFinal

\* Only Resume makes a session active: the step opens a new generation and
\* drops the progress that was not durable.
THEOREM RestartByResume == Spec => ActiveOnlyByResume
<1> DEFINE A == disk.status # "active" /\ disk'.status = "active" =>
                    /\ disk'.runGeneration = disk.runGeneration + 1
                    /\ \A c \in Component : disk'.components[c].observedBytes
                                              = disk.components[c].committedBytes
<1>1. TypeOK /\ [Next]_vars => [A]_vars
  <2> SUFFICES ASSUME TypeOK, [Next]_vars,
                      disk.status # "active", disk'.status = "active"
               PROVE  /\ disk'.runGeneration = disk.runGeneration + 1
                      /\ \A c \in Component :
                            disk'.components[c].observedBytes
                              = disk.components[c].committedBytes
    OBVIOUS
  <2> PICK n : disk' = n /\ (n = disk \/ (ImageStep(disk, n) /\ Validate(n)))
    BY StepOfImage
  <2>1. disk \in Manifest
    BY DEF TypeOK, Validate
  <2>2. ~OutputStep(disk, n) /\ ~ComponentStep(disk, n) /\ n # disk
    BY <2>1, OutputStepKeeps, ComponentStepKeeps
  <2>3. n = resumed(disk)
    BY <2>1, <2>2, LifecycleStepKeeps DEF ImageStep
  <2> QED
    BY <2>1, <2>3 DEF resumed, prepareResume, Manifest, ComponentState
<1> QED BY <1>1, TypeCorrect, PTL DEF Spec, ActiveOnlyByResume

\* A completed cleanup stays completed and the session never runs again.
THEOREM CleanupFinal == Spec => CleanupIsFinal
<1>1. TypeOK /\ [Next]_vars =>
        [disk.cleanup = "complete" =>
            disk'.cleanup = "complete" /\ disk'.status # "active"]_vars
  <2> SUFFICES ASSUME TypeOK, [Next]_vars, disk.cleanup = "complete"
               PROVE  disk'.cleanup = "complete" /\ disk'.status # "active"
    OBVIOUS
  <2> PICK n : disk' = n /\ (n = disk \/ (ImageStep(disk, n) /\ Validate(n)))
    BY StepOfImage
  <2>1. disk \in Manifest /\ disk.status # "active"
    BY DEF TypeOK, Validate, validCleanup, terminalCleanupStatus
  <2>2. ~resumeAllowed(disk)
    BY DEF resumeAllowed
  <2> QED
    BY <2>1, <2>2, LifecycleStepKeeps, ComponentStepKeeps, OutputStepKeeps
       DEF ImageStep
<1> QED BY <1>1, TypeCorrect, PTL DEF Spec, CleanupIsFinal

\* A worker cannot advance the phase past a recorded pause or cancel intent, and
\* leaving the active disposition keeps the intent.
THEOREM IntentKept == Spec => IntentHonoured
<1>1. TypeOK /\ [Next]_vars =>
        [disk.status = "active" /\ disk.desired # "running" =>
            /\ disk'.phase = disk.phase
            /\ disk'.status # "active" => disk'.desired = disk.desired]_vars
  <2> SUFFICES ASSUME TypeOK, [Next]_vars,
                      disk.status = "active", disk.desired # "running"
               PROVE  /\ disk'.phase = disk.phase
                      /\ disk'.status # "active" => disk'.desired = disk.desired
    OBVIOUS
  <2> PICK n : disk' = n /\ (n = disk \/ (ImageStep(disk, n) /\ Validate(n)))
    BY StepOfImage
  <2>1. disk \in Manifest
    BY DEF TypeOK, Validate
  <2>2. ~resumeAllowed(disk)
    BY DEF resumeAllowed
  <2> QED
    BY <2>1, <2>2, LifecycleStepKeeps, ComponentStepKeeps, OutputStepKeeps
       DEF ImageStep
<1> QED BY <1>1, TypeCorrect, PTL DEF Spec, IntentHonoured

\* Durable progress shrinks only by ResetComponent, which drops the boundary, the
\* advisory progress and the validators together.
THEOREM ProgressKept == Spec => DurableProgressKept
<1> DEFINE A(c) ==
        disk'.components[c].committedBytes < disk.components[c].committedBytes
          => disk'.components[c] = [observedBytes |-> 0, committedBytes |-> 0,
                                    checkpoint |-> "placed"]
<1>1. TypeOK /\ [Next]_vars => [\A c \in Component : A(c)]_vars
  <2> SUFFICES ASSUME TypeOK, [Next]_vars, NEW c \in Component
               PROVE  A(c)
    OBVIOUS
  <2> PICK n : disk' = n /\ (n = disk \/ (ImageStep(disk, n) /\ Validate(n)))
    BY StepOfImage
  <2> SUFFICES
        n.components[c].committedBytes < disk.components[c].committedBytes
          => n.components[c] = [observedBytes |-> 0, committedBytes |-> 0,
                                checkpoint |-> "placed"]
    OBVIOUS
  <2>1. disk \in Manifest /\ disk.components \in [Component -> ComponentState]
    BY DEF TypeOK, Validate, Manifest
  <2>2. disk.components[c].committedBytes \in 0 .. MaxBytes
    BY <2>1 DEF ComponentState
  <2>3. CASE n.components = disk.components
    BY <2>2, <2>3, BoundAssumption
  <2>4. CASE n = resumed(disk)
    <3>1. n.components[c].committedBytes = disk.components[c].committedBytes
      BY <2>1, <2>4 DEF resumed, prepareResume, Manifest, ComponentState
    <3> QED BY <2>2, <3>1, BoundAssumption
  <2>5. CASE ComponentStep(disk, n)
    <3> PICK id \in Component, observed \in 0 .. MaxBytes,
             committed \in 0 .. MaxBytes :
          \/ /\ progressAllowed(disk, id, observed, committed)
             /\ n = withProgress(disk, id, observed, committed,
                                 disk.components[id].checkpoint)
          \/ \E checkpoint \in CheckpointMetadata :
                 /\ checkpointAllowed(disk, id, observed, committed, checkpoint)
                 /\ n = withProgress(disk, id, observed, committed, checkpoint)
          \/ n = resetComponent(disk, id)
      BY <2>5 DEF ComponentStep
    <3>1. CASE n = resetComponent(disk, id)
      <4>1. disk.components[c].committedBytes > 0
              => disk.components[c].checkpoint # "unplaced"
        BY DEF TypeOK, Validate, validComponents
      <4>2. n.components = [disk.components EXCEPT ![id] =
                [observedBytes |-> 0, committedBytes |-> 0,
                 checkpoint |-> IF disk.components[id].checkpoint = "unplaced"
                                THEN "unplaced" ELSE "placed"]]
        BY <2>1, <3>1 DEF resetComponent, withProgress, Manifest
      <4> QED BY <2>1, <2>2, <4>1, <4>2, BoundAssumption
    <3>2. ASSUME NEW checkpoint,
                 committed >= disk.components[id].committedBytes,
                 n = withProgress(disk, id, observed, committed, checkpoint)
          PROVE  ~(n.components[c].committedBytes
                     < disk.components[c].committedBytes)
      <4>1. n.components = [disk.components EXCEPT ![id] =
                [observedBytes |-> observed, committedBytes |-> committed,
                 checkpoint |-> checkpoint]]
        BY <2>1, <3>2 DEF withProgress, Manifest
      <4> QED BY <2>1, <2>2, <3>2, <4>1, BoundAssumption
    <3> QED
      BY <3>1, <3>2 DEF progressAllowed, checkpointAllowed
  <2> QED
    BY <2>1, <2>3, <2>4, <2>5, LifecycleStepKeeps, OutputStepKeeps DEF ImageStep
<1> QED BY <1>1, TypeCorrect, PTL DEF Spec, DurableProgressKept

\* An image whose last write has an unknown outcome never changes again: the
\* handle that wrote it is fenced and Open refuses the evidence left behind.
THEOREM UncertaintyFreezes == Spec => UncertainImageFrozen
<1>1. [Next]_vars =>
        [evidence /\ handle # "open" => disk' = disk /\ handle' # "open"]_vars
  <2> SUFFICES ASSUME [Next]_vars, evidence, handle # "open"
               PROVE  disk' = disk /\ handle' # "open"
    OBVIOUS
  <2>1. ASSUME NEW candidate
        PROVE  ~update(candidate)
    BY UpdateStep
  <2>2. ~LifecycleMutation
    BY <2>1 DEF LifecycleMutation, Transition, Resume, ResolveReconciliation,
                SetDesired
  <2>3. ~ComponentMutation
    BY <2>1 DEF ComponentMutation, SetComponentProgress, SetComponentCheckpoint,
                ResetComponent
  <2>4. ~OutputMutation
    BY <2>1 DEF OutputMutation, SetRelativeDestination, SetStagedOutput,
                RebindRelativeDestination, SetPublicationState,
                ResolvePublication, SetCleanupState, ResolveCleanup
  <2> QED BY <2>2, <2>3, <2>4 DEF Next, Open, Close, vars
<1> QED BY <1>1, PTL DEF Spec, UncertainImageFrozen

\* Publication is in doubt only in the ready-to-publish phase.  Validate does not
\* say so: it follows from the guard of SetPublicationState and from the phase
\* being fixed while a session needs reconciliation.
IndeterminateIsReady ==
    disk.publication = "indeterminate" => disk.phase = "ready_to_publish"

LEMMA IndeterminateReady == Spec => []IndeterminateIsReady
<1>1. Init => IndeterminateIsReady
  BY DEF Init, IndeterminateIsReady, createdManifest
<1>2. TypeOK /\ IndeterminateIsReady /\ [Next]_vars => IndeterminateIsReady'
  <2> SUFFICES ASSUME TypeOK, IndeterminateIsReady, [Next]_vars
               PROVE  IndeterminateIsReady'
    OBVIOUS
  <2> PICK n : disk' = n /\ (n = disk \/ (ImageStep(disk, n) /\ Validate(n)))
    BY StepOfImage
  <2>1. disk \in Manifest /\ validPublication(disk)
    BY DEF TypeOK, Validate
  <2>2. n.publication = "indeterminate" => n.phase = "ready_to_publish"
    <3>1. CASE n = disk
      BY <3>1 DEF IndeterminateIsReady
    <3>2. CASE LifecycleStep(disk, n)
      <4> SUFFICES ASSUME n.publication = "indeterminate"
                   PROVE  n.phase = "ready_to_publish"
        OBVIOUS
      <4>1. /\ disk.publication = "indeterminate"
            /\ disk.phase = "ready_to_publish"
            /\ disk.status = "needs_reconciliation"
        BY <2>1, <3>2, LifecycleStepKeeps DEF IndeterminateIsReady, validPublication
      <4> QED
        BY <2>1, <3>2, <4>1
           DEF LifecycleStep, transitionAllowed, intentAllows, resumeAllowed,
               reconciliationAllowed, Manifest
    <3>3. CASE ComponentStep(disk, n)
      BY <2>1, <3>3, ComponentStepKeeps DEF IndeterminateIsReady
    <3>4. CASE OutputStep(disk, n)
      <4>1. CASE n.publication = disk.publication
        BY <2>1, <3>4, <4>1, OutputStepKeeps DEF IndeterminateIsReady
      <4>2. CASE n.publication # disk.publication
        BY <2>1, <3>4, <4>2
           DEF OutputStep, publicationAllowed, withPublication, withCleanup,
               validPublicationTransition, publicationResolvable, transitioned,
               Manifest
      <4> QED BY <4>1, <4>2
    <3> QED BY <3>1, <3>2, <3>3, <3>4 DEF ImageStep
  <2> QED BY <2>2 DEF IndeterminateIsReady
<1> QED BY <1>1, <1>2, TypeCorrect, PTL DEF Spec

\* A valid image that needs reconciliation and is in doubt about neither
\* publication nor cleanup can be resolved: to completed from the completed
\* phase, and to canceled from any other.
LEMMA WayOut ==
    ASSUME NEW m, Validate(m), m.status = "needs_reconciliation",
           m.publication # "indeterminate", m.cleanup # "indeterminate"
    PROVE  Resolvable(m)
<1>0. m \in Manifest
  BY DEF Validate
<1>1. CASE m.phase = "completed"
  <2> DEFINE n == transitioned(m, "completed", "completed", "running")
  <2>1. reconciledPhase(m, "completed") = "completed"
    BY DEF reconciledPhase
  <2>2. reconciliationAllowed(m, "completed", "running")
    BY <1>1, <2>1
       DEF Validate, validPublication, reconciliationAllowed, transitionAllowed,
           intentAllows, CanTransition, completedTransition, validLifecycleState,
           validDesiredForStatus, phaseRequiresDestination
  <2>3. recordTransition(m, "completed", "completed") \in TransitionRecord
    BY <1>0 DEF recordTransition, TransitionRecord, Manifest, Phase, Status
  <2>4. n \in Manifest
    BY <1>0, <2>3 DEF transitioned, Manifest, Phase, Status, DesiredState
  <2>5. /\ n.phase = "completed" /\ n.status = "completed"
        /\ n.desired = "running" /\ n.publication = m.publication
        /\ n.cleanup = m.cleanup /\ n.components = m.components
        /\ n.relativeDestination = m.relativeDestination
        /\ n.lastTransition = recordTransition(m, "completed", "completed")
    BY <1>0 DEF transitioned, Manifest
  <2>6. recordTransition(m, "completed", "completed") # NoTransition
    BY DEF recordTransition, NoTransition
  <2>7. validLastTransition(n)
    BY <2>5, <2>6 DEF validLastTransition, recordTransition, Validate
  <2>8. Validate(n)
    BY <1>1, <2>4, <2>5, <2>7
       DEF Validate, validPublication, validCleanup, terminalCleanupStatus,
           validLifecycleState, validDesiredForStatus, phaseRequiresDestination
  <2> QED
    BY <2>1, <2>2, <2>8 DEF Resolvable, Status, DesiredState
<1>2. CASE m.phase # "completed"
  <2> DEFINE n == transitioned(m, m.phase, "canceled", "canceled")
  <2>1. reconciledPhase(m, "canceled") = m.phase
    BY DEF reconciledPhase
  <2>2. reconciliationAllowed(m, "canceled", "canceled")
    <3>1. CanTransition(m.phase, m.status, m.phase, "canceled")
      BY <1>2 DEF CanTransition, samePhaseStatusTransitions, validLifecycleState
    <3> QED
      BY <2>1, <3>1
         DEF Validate, reconciliationAllowed, transitionAllowed, intentAllows,
             validDesiredForStatus
  <2>3. recordTransition(m, m.phase, "canceled") \in TransitionRecord
    BY <1>0 DEF recordTransition, TransitionRecord, Manifest, Status
  <2>4. n \in Manifest
    BY <1>0, <2>3 DEF transitioned, Manifest, Status, DesiredState
  <2>5. /\ n.phase = m.phase /\ n.status = "canceled"
        /\ n.desired = "canceled" /\ n.publication = m.publication
        /\ n.cleanup = m.cleanup /\ n.components = m.components
        /\ n.relativeDestination = m.relativeDestination
        /\ n.lastTransition = recordTransition(m, m.phase, "canceled")
    BY <1>0 DEF transitioned, Manifest
  <2>6. recordTransition(m, m.phase, "canceled") # NoTransition
    BY DEF recordTransition, NoTransition
  <2>7. validLastTransition(n)
    BY <2>5, <2>6 DEF validLastTransition, recordTransition, Validate
  <2>8. Validate(n)
    BY <1>2, <2>4, <2>5, <2>7
       DEF Validate, validPublication, validCleanup, terminalCleanupStatus,
           validLifecycleState, validDesiredForStatus
  <2> QED
    BY <2>1, <2>2, <2>8 DEF Resolvable, Status, DesiredState
<1> QED BY <1>1, <1>2

\* Every image that needs reconciliation has a legal way out, whatever verdict on
\* the publication or the cleanup is recorded first.
THEOREM AlwaysResolvable == Spec => []ReconciliationResolvable
<1>1. TypeOK /\ OneIndeterminacy /\ IndeterminateIsReady
        => ReconciliationResolvable
  <2> SUFFICES ASSUME TypeOK, OneIndeterminacy, IndeterminateIsReady,
                      disk.status = "needs_reconciliation"
               PROVE  ReconciliationResolvable
    BY DEF ReconciliationResolvable
  <2>0. Validate(disk) /\ disk \in Manifest
    BY DEF TypeOK, Validate
  <2>1. ASSUME disk.publication = "indeterminate",
               NEW state \in {"committed", "pending"}
        PROVE  Resolvable([disk EXCEPT !.publication = state])
    <3> DEFINE m == [disk EXCEPT !.publication = state]
    <3>1. /\ m \in Manifest /\ m.phase = disk.phase /\ m.status = disk.status
          /\ m.desired = disk.desired /\ m.cleanup = disk.cleanup
          /\ m.publication = state /\ m.components = disk.components
          /\ m.relativeDestination = disk.relativeDestination
          /\ m.lastTransition = disk.lastTransition
      BY <2>0, <2>1 DEF Manifest, PublicationState
    <3>2. disk.phase = "ready_to_publish" /\ disk.cleanup = "pending"
      BY <2>1 DEF IndeterminateIsReady, OneIndeterminacy
    <3>3. Validate(m)
      BY <2>0, <2>1, <3>1, <3>2
         DEF Validate, validPublication, validCleanup, validLastTransition
    <3> HIDE DEF m
    <3> QED BY <2>1, <3>1, <3>2, <3>3, WayOut DEF m
  <2>2. ASSUME disk.cleanup = "indeterminate",
               NEW state \in {"complete", "pending"}
        PROVE  Resolvable([disk EXCEPT !.cleanup = state])
    <3> DEFINE m == [disk EXCEPT !.cleanup = state]
    <3>1. /\ m \in Manifest /\ m.phase = disk.phase /\ m.status = disk.status
          /\ m.desired = disk.desired /\ m.cleanup = state
          /\ m.publication = disk.publication
          /\ m.components = disk.components
          /\ m.relativeDestination = disk.relativeDestination
          /\ m.lastTransition = disk.lastTransition
      BY <2>0, <2>2 DEF Manifest, CleanupState
    <3>2. disk.publication # "indeterminate"
      BY <2>2 DEF OneIndeterminacy
    <3>3. Validate(m)
      BY <2>0, <2>2, <3>1
         DEF Validate, validPublication, validCleanup, validLastTransition
    <3> HIDE DEF m
    <3> QED BY <2>2, <3>1, <3>2, <3>3, WayOut DEF m
  <2>3. ASSUME disk.publication # "indeterminate", disk.cleanup # "indeterminate"
        PROVE  Resolvable(disk)
    BY <2>0, <2>3, WayOut
  <2> QED BY <2>1, <2>2, <2>3 DEF ReconciliationResolvable
<1> QED
  BY <1>1, TypeCorrect, IndeterminacyExclusive, IndeterminateReady, PTL
=============================================================================
