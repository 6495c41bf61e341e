---------------------------- MODULE DirectSession ---------------------------
(***************************************************************************)
(* Resumable single-track sessions (engine/session_direct.go): one run     *)
(* after another prepares, downloads, stages and publishes, with a crash   *)
(* or a failed write between any two durable steps.  The manifest and its  *)
(* mutations are those of SessionModel.                                    *)
(*                                                                         *)
(*   exists   the sessions that have a workspace                           *)
(*   disk     the manifest of each session                                 *)
(*   area     the other files of each workspace: payload, staged output,   *)
(*            publication journal, and the destinations that are hard      *)
(*            links of the staged output                                   *)
(*   files    what is at each destination of the output root               *)
(*   seen     history: every content each destination ever had             *)
(*   arbiter  the publication arbiter of the current run (its states are   *)
(*            those of PublicationArbiter)                                 *)
(*   run      the runner that holds the lease of each session              *)
(*   budget   how many faults, meddlings and interrupts may still happen   *)
(*                                                                         *)
(* The lease admits one runner per session.  The downloader is abstracted  *)
(* to what it does to the manifest and the payload.  An update that leaves *)
(* atomic evidence ends the session (SessionWorkspace), so it is covered   *)
(* here by a crash that no run follows.  Discarding is one step; its       *)
(* protocol is not part of this module.                                    *)
(***************************************************************************)
EXTENDS SessionModel, FiniteSets

CONSTANTS
    Session,          \* sessions that share the output root
    ServedValidator,  \* checkpoint metadata the servers' responses lead to
    MaxFaults,        \* crashes, failed writes and failed transfers
    MaxMeddling,      \* changes of the destinations by the user
    MaxInterrupts     \* pauses, cancellations and arbiter reservations of the host

ASSUME SessionAssumption ==
    /\ Component = {"primary"}
    /\ MaxBytes > 0
    /\ ServedValidator \subseteq CheckpointMetadata \ {"unplaced"}
    /\ {"absent", "user", "none"} \cap Fingerprint = {}

ASSUME BudgetAssumption ==
    MaxFaults \in Nat /\ MaxMeddling \in Nat /\ MaxInterrupts \in Nat

VARIABLES exists, disk, area, files, seen, arbiter, run, budget

vars == <<exists, disk, area, files, seen, arbiter, run, budget>>

JournalState == {"none", "ready", "publishing", "published", "collision",
                 "indeterminate"}

Journal == [state       : JournalState,
            fingerprint : Fingerprint \cup {"unset"},
            target      : Destination \cup {"unset"}]

NoJournal == [state |-> "none", fingerprint |-> "unset", target |-> "unset"]

EmptyArea == [payload |-> "none", stage |-> "none", links |-> {},
              journal |-> NoJournal]

Content == {"absent", "user"} \cup Fingerprint

\* Where a run is: each value is the durable step it is about to take.
Point == {"down", "prepare", "resolveCompleted", "resolveFailed", "advance",
          "extracting", "work", "reset", "resetComponent", "download", "process",
          "stage", "staged", "ready", "publish", "pending", "reserved", "linking",
          "replaced", "commit", "complete", "collision", "markCollision",
          "indeterminate", "markIndeterminate", "interrupted", "discard"}

\* What a run reports: the disposition, or "error" for an error without one.
Outcome == {"none", "published", "collision", "retained", "recovery",
            "discarded", "cleanupPending", "error", "crashed"}

noManifest == createdManifest("unset", [c \in Component |-> "placed"])

Init ==
    /\ exists = {}
    /\ disk = [s \in Session |-> noManifest]
    /\ area = [s \in Session |-> EmptyArea]
    /\ files \in [Destination -> {"absent", "user"}]
    /\ seen = {<<d, files[d]>> : d \in Destination}
    /\ arbiter = [s \in Session |-> "open"]
    /\ run \in [Session -> {[pc |-> "down", target |-> d, cause |-> "live",
                             stale |-> FALSE, retried |-> FALSE,
                             result |-> "none"] : d \in Destination}]
    /\ budget = [faults |-> MaxFaults, meddling |-> MaxMeddling,
                 interrupts |-> MaxInterrupts]

-----------------------------------------------------------------------------
(* Building blocks. *)

spend(kind) ==
    /\ budget[kind] > 0
    /\ budget' = [budget EXCEPT ![kind] = budget[kind] - 1]

fault == spend("faults")

at(s, point) == [run[s] EXCEPT !.pc = point]

ended(s, result) == [run[s] EXCEPT !.pc = "down", !.result = result]

becomes(s, r) == run' = [run EXCEPT ![s] = r]

component(s) == disk[s].components["primary"]

\* A pause keeps the session; any other cancellation discards it.
interruption(s) == IF run[s].cause = "pause" THEN "interrupted" ELSE "discard"

\* handleInterruption of an error: without an expired context the session is
\* retained as it is.
failed(s) ==
    IF run[s].cause = "live" THEN ended(s, "retained") ELSE at(s, interruption(s))

\* Mutant: the candidate is written without its checks.
mutate_Unchecked(s, allowed, candidate, after, failure) ==
    /\ disk' = [disk EXCEPT ![s] = candidate]
    /\ becomes(s, after)
    /\ UNCHANGED <<exists, area, files, seen, arbiter, budget>>

\* A workspace mutation at the current revision: rejected, written or failed.
mutate(s, allowed, candidate, after, failure) ==
    /\ \/ /\ allowed /\ Validate(candidate)
          /\ disk' = [disk EXCEPT ![s] = candidate]
          /\ becomes(s, after)
          /\ UNCHANGED budget
       \/ /\ IF allowed /\ Validate(candidate) THEN fault ELSE UNCHANGED budget
          /\ becomes(s, failure)
          /\ UNCHANGED disk
    /\ UNCHANGED <<exists, area, files, seen, arbiter>>

transition(s, phase, status, desired, after, failure) ==
    mutate(s, transitionAllowed(disk[s], phase, status, desired, FALSE, FALSE),
           transitioned(disk[s], phase, status, desired), after, failure)

\* A step that leaves every durable image alone.
move(s, r) ==
    /\ becomes(s, r)
    /\ UNCHANGED <<exists, disk, area, files, seen, arbiter, budget>>

\* writeJournal, and the run and the arbiter after a success and a failure.
writeJournal(s, state, after, stateAfter, failure, stateFailed) ==
    /\ \/ /\ area' = [area EXCEPT ![s].journal =
                         [state       |-> state,
                          fingerprint |-> disk[s].stagedFingerprint,
                          target      |-> run[s].target]]
          /\ becomes(s, after)
          /\ arbiter' = [arbiter EXCEPT ![s] = stateAfter]
          /\ UNCHANGED budget
       \/ /\ fault
          /\ becomes(s, failure)
          /\ arbiter' = [arbiter EXCEPT ![s] = stateFailed]
          /\ UNCHANGED area
    /\ UNCHANGED <<exists, disk, files, seen>>

place(destination, content) ==
    /\ files' = [files EXCEPT ![destination] = content]
    /\ seen' = seen \cup {<<destination, content>>}
-----------------------------------------------------------------------------
(* newDirectSession: open the workspace, or create it. *)

Start(s, target) ==
    /\ run[s].pc = "down"
    /\ becomes(s, [pc |-> IF s \in exists THEN "prepare" ELSE "advance",
                   target |-> target, cause |-> "live", stale |-> FALSE,
                   retried |-> FALSE, result |-> "none"])
    /\ exists' = exists \cup {s}
    /\ disk' = IF s \in exists THEN disk
               ELSE [disk EXCEPT ![s] =
                        createdManifest(target, [c \in Component |-> "placed"])]
    /\ arbiter' = [arbiter EXCEPT ![s] = "open"]
    /\ UNCHANGED <<area, files, seen, budget>>

-----------------------------------------------------------------------------
(* prepare and reconcile. *)

\* The journal is evidence about this manifest and this target.
journalAgrees(s) ==
    LET m == disk[s]
        j == area[s].journal
    IN  /\ j.state # "none"
        /\ j.target = m.relativeDestination
        /\ j.target = run[s].target
        /\ m.stagedFingerprint # "unset" => j.fingerprint = m.stagedFingerprint
        /\ m.publication = "indeterminate" => j.state = "indeterminate"

\* Mutant: any file at the destination counts as the published output.
outcome_AnyFile(s) ==
    IF ~journalAgrees(s) THEN "unknown"
    ELSE IF files[disk[s].relativeDestination] = "absent" THEN "pending"
    ELSE "committed"

\* What the destination shows about an unsettled publication.
outcome(s) ==
    LET m    == disk[s]
        held == files[m.relativeDestination]
        fingerprint == IF m.stagedFingerprint # "unset" THEN m.stagedFingerprint
                                              ELSE area[s].journal.fingerprint
    IN  IF ~journalAgrees(s) THEN "unknown"
        ELSE IF held = fingerprint THEN "committed"
        ELSE IF /\ m.publication = "indeterminate"
                /\ area[s].stage = fingerprint
                /\ held = "absent"
             THEN "pending"
             ELSE "unknown"

reconcile(s) ==
    LET m == disk[s]
        resolution == IF outcome(s) = "committed" THEN "resolveCompleted"
                                                  ELSE "resolveFailed"
    IN  IF outcome(s) = "unknown" THEN move(s, ended(s, "recovery"))
        ELSE IF m.publication = "indeterminate"
             THEN mutate(s, publicationResolvable(m, outcome(s)),
                         [m EXCEPT !.publication = outcome(s)],
                         at(s, resolution), ended(s, "recovery"))
             ELSE move(s, at(s, resolution))

Reconcile(s) ==
    /\ run[s].pc = "prepare"
    /\ disk[s].status = "needs_reconciliation"
    /\ reconcile(s)

ResolveCompleted(s) ==
    /\ run[s].pc = "resolveCompleted"
    /\ mutate(s, reconciliationAllowed(disk[s], "completed", "running"),
              transitioned(disk[s], "completed", "completed", "running"),
              at(s, "prepare"), ended(s, "recovery"))

ResolveFailed(s) ==
    /\ run[s].pc = "resolveFailed"
    /\ mutate(s, reconciliationAllowed(disk[s], "failed", "running"),
              transitioned(disk[s], disk[s].phase, "failed", "running"),
              at(s, "prepare"), ended(s, "recovery"))

settled(s) ==
    disk[s].phase = "completed" /\ disk[s].publication = "committed"

\* An earlier run finished: report it if the output is still there.
ReportSettled(s) ==
    /\ run[s].pc = "prepare"
    /\ disk[s].status # "needs_reconciliation" /\ settled(s)
    /\ move(s, ended(s, IF files[disk[s].relativeDestination]
                              = disk[s].stagedFingerprint
                        THEN "published" ELSE "recovery"))

rebindable(s) ==
    /\ disk[s].phase = "ready_to_publish"
    /\ disk[s].status # "active"
    /\ disk[s].publication \notin {"committed", "indeterminate"}

rebindTargetIfNeeded(s) ==
    /\ run[s].pc = "prepare"
    /\ disk[s].status # "needs_reconciliation" /\ ~settled(s)
    /\ disk[s].relativeDestination # run[s].target
    /\ IF rebindable(s)
       THEN mutate(s, rebindAllowed(disk[s]),
                   [disk[s] EXCEPT !.relativeDestination = run[s].target],
                   at(s, "prepare"), ended(s, "recovery"))
       ELSE move(s, ended(s, "recovery"))


\* An active manifest is what a crashed run left: it is paused first.
PauseResidue(s) ==
    /\ run[s].pc = "prepare"
    /\ disk[s].relativeDestination = run[s].target
    /\ disk[s].status = "active"
    /\ transition(s, disk[s].phase, "paused", "paused",
                  at(s, "prepare"), ended(s, "recovery"))

Resume(s) ==
    /\ run[s].pc = "prepare"
    /\ disk[s].relativeDestination = run[s].target
    /\ disk[s].status \in {"paused", "failed"}
    /\ mutate(s, resumeAllowed(disk[s]), resumed(disk[s]),
              at(s, "advance"), ended(s, "recovery"))

Advance(s) ==
    /\ run[s].pc = "advance" /\ run[s].cause = "live"
    /\ CASE disk[s].phase = "prepared" ->
              transition(s, "extracting", "active", "running",
                         at(s, "extracting"), ended(s, "recovery"))
         [] disk[s].phase = "extracting" -> move(s, at(s, "extracting"))
         [] OTHER -> move(s, at(s, "work"))

FinishExtracting(s) ==
    /\ run[s].pc = "extracting"
    /\ transition(s, "downloading", "active", "running",
                  at(s, "work"), ended(s, "recovery"))
-----------------------------------------------------------------------------
(* run: the payload. *)

strong(s) == component(s).checkpoint \in Validator

\* Only a strong validator lets a later run reuse a complete payload.
completedPayload(s) ==
    /\ strong(s)
    /\ component(s).committedBytes = MaxBytes
    /\ area[s].payload # "none"

\* resumeBoundary asks for a reset: nothing that may be appended to.
unresumable(s) ==
    /\ component(s).committedBytes > 0
    /\ component(s).committedBytes = MaxBytes \/ ~strong(s)

Work(s) ==
    /\ run[s].pc = "work"
    /\ move(s, CASE disk[s].phase = "ready_to_publish" -> at(s, "publish")
                 [] disk[s].phase # "ready_to_publish" /\ completedPayload(s)
                      -> at(s, "process")
                 [] disk[s].phase = "processing" /\ ~completedPayload(s)
                      -> ended(s, "error")
                 [] OTHER -> at(s, IF unresumable(s) THEN "reset"
                                                     ELSE "download"))

\* resetDirectEvidence removes the files before it resets the manifest.
RemoveEvidence(s) ==
    /\ run[s].pc = "reset"
    /\ \/ /\ area' = [area EXCEPT ![s].payload = "none"]
          /\ becomes(s, at(s, "resetComponent"))
          /\ UNCHANGED budget
       \/ fault /\ becomes(s, ended(s, "error")) /\ UNCHANGED area
    /\ UNCHANGED <<exists, disk, files, seen, arbiter>>

\* The reset names the revision the run read before the transfer.
ResetComponent(s) ==
    /\ run[s].pc = "resetComponent"
    /\ mutate(s, ~run[s].stale, resetComponent(disk[s], "primary"),
              at(s, "download"), ended(s, "error"))

\* commitCheckpoint, the callback of the downloader.  A report behind the
\* manifest is refused and fails the transfer (TransferFails).
commitCheckpoint(s) ==
    /\ run[s].pc = "download"
    /\ \E bytes \in component(s).committedBytes .. MaxBytes,
          checkpoint \in ServedValidator :
        /\ bytes > 0
        /\ mutate(s,
              checkpointAllowed(disk[s], "primary", bytes, bytes, checkpoint),
              withProgress(disk[s], "primary", bytes, bytes, checkpoint),
              [run[s] EXCEPT !.stale = TRUE], failed(s))

\* The transfer succeeds with the whole representation in the payload.
TransferDone(s) ==
    /\ run[s].pc = "download"
    /\ component(s).committedBytes = MaxBytes
    /\ \E content \in Fingerprint :
          area' = [area EXCEPT ![s].payload = content]
    /\ becomes(s, at(s, "process"))
    /\ UNCHANGED <<exists, disk, files, seen, arbiter, budget>>

TransferFails(s) ==
    /\ run[s].pc = "download"
    /\ fault
    /\ becomes(s, failed(s))
    /\ UNCHANGED <<exists, disk, area, files, seen, arbiter>>

\* The checkpoint cannot be trusted: one more transfer from nothing.
TransferNeedsReset(s) ==
    /\ run[s].pc = "download"
    /\ fault
    /\ becomes(s, IF run[s].retried THEN failed(s)
                  ELSE [at(s, "reset") EXCEPT !.retried = TRUE])
    /\ UNCHANGED <<exists, disk, area, files, seen, arbiter>>

-----------------------------------------------------------------------------
(* run: the staged output. *)

Process(s) ==
    /\ run[s].pc = "process"
    /\ IF disk[s].phase = "downloading"
       THEN transition(s, "processing", "active", "running",
                       at(s, "stage"), ended(s, "error"))
       ELSE move(s, at(s, "stage"))

buildStagedOutput(s) ==
    /\ run[s].pc = "stage"
    /\ \/ /\ area' = [area EXCEPT ![s].stage = area[s].payload,
                                  ![s].links = {}]
          /\ becomes(s, at(s, "staged"))
          /\ UNCHANGED budget
       \/ fault /\ becomes(s, failed(s)) /\ UNCHANGED area
    /\ UNCHANGED <<exists, disk, files, seen, arbiter>>

SetStagedOutput(s) ==
    /\ run[s].pc = "staged"
    /\ mutate(s, stagedOutputAllowed(disk[s]),
              [disk[s] EXCEPT !.stagedFingerprint = area[s].stage],
              at(s, "ready"), ended(s, "error"))

Ready(s) ==
    /\ run[s].pc = "ready"
    /\ transition(s, "ready_to_publish", "active", "running",
                  at(s, "publish"), ended(s, "error"))
-----------------------------------------------------------------------------
(* publish. *)

JournalReady(s) ==
    /\ run[s].pc = "publish" /\ disk[s].publication = "not_started"
    /\ writeJournal(s, "ready", at(s, "pending"), arbiter[s],
                    ended(s, "retained"), arbiter[s])

SetPending(s) ==
    /\ run[s].pc = "pending"
    /\ mutate(s, publicationAllowed(disk[s], "pending"),
              withPublication(disk[s], "pending"),
              at(s, "publish"), ended(s, "retained"))

\* Mutant: the publication does not ask the arbiter.
BeginPublication_IgnoresArbiter(s) ==
    /\ run[s].pc = "publish" /\ disk[s].publication # "not_started"
    /\ run[s].cause = "live"
    /\ becomes(s, at(s, "reserved"))
    /\ UNCHANGED <<exists, disk, area, files, seen, arbiter, budget>>

\* Waits while a cancellation is reserved.
BeginPublication(s) ==
    /\ run[s].pc = "publish" /\ disk[s].publication # "not_started"
    /\ run[s].cause = "live"
    /\ \/ /\ arbiter[s] = "open"
          /\ arbiter' = [arbiter EXCEPT ![s] = "publicationReserved"]
          /\ becomes(s, at(s, "reserved"))
       \/ /\ arbiter[s] = "cancelWon"
          /\ becomes(s, ended(s, "retained"))
          /\ UNCHANGED arbiter
    /\ UNCHANGED <<exists, disk, area, files, seen, budget>>

JournalPublishing(s) ==
    /\ run[s].pc = "reserved"
    /\ writeJournal(s, "publishing", at(s, "linking"), arbiter[s],
                    ended(s, "retained"), "open")

stageIntact(s) == area[s].stage = disk[s].stagedFingerprint

\* The hard link of noReplaceDirectStage.
link(s) ==
    LET d == disk[s].relativeDestination
    IN  IF files[d] = "absent"
        THEN /\ place(d, area[s].stage)
             /\ area' = [area EXCEPT ![s].links = area[s].links \cup {d}]
        ELSE UNCHANGED <<files, seen, area>>

\* Mutant: the output is renamed over whatever is at the destination.
LinkCommitted_Replaces(s) ==
    /\ run[s].pc = "linking" /\ stageIntact(s)
    /\ place(disk[s].relativeDestination, area[s].stage)
    /\ becomes(s, at(s, "replaced"))
    /\ UNCHANGED <<exists, disk, area, arbiter, budget>>

\* Mutant: the stage is renamed instead of linked.
LinkCommitted_Renames(s) ==
    /\ run[s].pc = "linking" /\ stageIntact(s)
    /\ files[disk[s].relativeDestination] = "absent"
    /\ place(disk[s].relativeDestination, area[s].stage)
    /\ area' = [area EXCEPT ![s].stage = "none"]
    /\ becomes(s, at(s, "replaced"))
    /\ UNCHANGED <<exists, disk, arbiter, budget>>

LinkCommitted(s) ==
    /\ run[s].pc = "linking" /\ stageIntact(s)
    /\ files[disk[s].relativeDestination] \in {"absent", disk[s].stagedFingerprint}
    /\ link(s)
    /\ becomes(s, at(s, "replaced"))
    /\ UNCHANGED <<exists, disk, arbiter, budget>>

LinkCollides(s) ==
    /\ run[s].pc = "linking" /\ stageIntact(s)
    /\ files[disk[s].relativeDestination]
         \notin {"absent", disk[s].stagedFingerprint}
    /\ move(s, at(s, "collision"))

LinkFailsBefore(s) ==
    /\ run[s].pc = "linking" /\ stageIntact(s)
    /\ files[disk[s].relativeDestination] = "absent"
    /\ fault
    /\ arbiter' = [arbiter EXCEPT ![s] = "open"]
    /\ becomes(s, ended(s, "retained"))
    /\ UNCHANGED <<exists, disk, area, files, seen>>

\* The stage is not what was staged, or an error that leaves it open whether
\* the directory entry was made.
LinkUncertain(s) ==
    /\ run[s].pc = "linking"
    /\ IF stageIntact(s)
       THEN fault /\ (link(s) \/ UNCHANGED <<files, seen, area>>)
       ELSE UNCHANGED <<budget, files, seen, area>>
    /\ becomes(s, at(s, "indeterminate"))
    /\ UNCHANGED <<exists, disk, arbiter>>

\* A journal that is not written after the link spoils the result, no more.
JournalPublished(s) ==
    /\ run[s].pc = "replaced"
    /\ writeJournal(s, "published",
                    at(s, "commit"), "publicationWon",
                    [at(s, "commit") EXCEPT !.result = "recovery"],
                    "publicationWon")

Commit(s) ==
    /\ run[s].pc = "commit"
    /\ IF disk[s].publication = "pending"
       THEN mutate(s, publicationAllowed(disk[s], "committed"),
                   withPublication(disk[s], "committed"),
                   at(s, "complete"), ended(s, "recovery"))
       ELSE move(s, at(s, "complete"))

Complete(s) ==
    /\ run[s].pc = "complete"
    /\ transition(s, "completed", "completed", "running",
                  ended(s, IF run[s].result = "recovery" THEN "recovery"
                                                         ELSE "published"),
                  ended(s, "recovery"))

JournalCollision(s) ==
    /\ run[s].pc = "collision"
    /\ writeJournal(s, "collision", at(s, "markCollision"), "open",
                    at(s, "markCollision"), "open")

markCollision(s) ==
    /\ run[s].pc = "markCollision"
    /\ transition(s, "ready_to_publish", "failed", "running",
                  ended(s, "collision"), ended(s, "collision"))

JournalIndeterminate(s) ==
    /\ run[s].pc = "indeterminate"
    /\ writeJournal(s, "indeterminate",
                    at(s, "markIndeterminate"), "publicationIndeterminate",
                    at(s, "markIndeterminate"), "publicationIndeterminate")

markPublicationIndeterminate(s) ==
    /\ run[s].pc = "markIndeterminate"
    /\ IF disk[s].publication = "pending"
       THEN mutate(s, publicationAllowed(disk[s], "indeterminate"),
                   withPublication(disk[s], "indeterminate"),
                   ended(s, "recovery"), ended(s, "recovery"))
       ELSE move(s, ended(s, "recovery"))
-----------------------------------------------------------------------------
(* handleInterruption. *)

\* Where a run looks at its context.
Interrupt(s) ==
    /\ run[s].cause # "live"
    /\ IF run[s].pc = "publish" THEN disk[s].publication # "not_started"
                                ELSE run[s].pc \in {"advance", "download"}
    /\ move(s, at(s, interruption(s)))

markPaused(s) ==
    /\ run[s].pc = "interrupted"
    /\ transition(s, disk[s].phase, "paused", "paused",
                  ended(s, "retained"), ended(s, "recovery"))

discardRefused(m) ==
    \/ m.status = "needs_reconciliation"
    \/ m.publication = "indeterminate"
    \/ m.cleanup = "indeterminate"

\* The lease is closed, and PrepareDiscard and Discard remove the workspace
\* unless its outcome is not known.
Discard(s) ==
    /\ run[s].pc = "discard"
    /\ \/ /\ ~discardRefused(disk[s])
          /\ exists' = exists \ {s}
          /\ disk' = [disk EXCEPT ![s] = noManifest]
          /\ area' = [area EXCEPT ![s] = EmptyArea]
          /\ becomes(s, ended(s, "discarded"))
          /\ UNCHANGED budget
       \/ /\ IF discardRefused(disk[s]) THEN UNCHANGED budget ELSE fault
          /\ becomes(s, ended(s, "cleanupPending"))
          /\ UNCHANGED <<exists, disk, area>>
    /\ UNCHANGED <<files, seen, arbiter>>

-----------------------------------------------------------------------------
(* The surroundings: a crash, the host application, the user. *)

Crash(s) ==
    /\ run[s].pc # "down"
    /\ fault
    /\ becomes(s, ended(s, "crashed"))
    /\ UNCHANGED <<exists, disk, area, files, seen, arbiter>>

\* The host cancels the context, with ErrPauseRequested or another cause.
Expire(s) ==
    /\ run[s].pc # "down" /\ run[s].cause = "live"
    /\ spend("interrupts")
    /\ \E cause \in {"pause", "cancel"} :
          becomes(s, [run[s] EXCEPT !.cause = cause])
    /\ UNCHANGED <<exists, disk, area, files, seen, arbiter>>

BeginCancel(s) ==
    /\ run[s].pc # "down" /\ arbiter[s] = "open"
    /\ spend("interrupts")
    /\ arbiter' = [arbiter EXCEPT ![s] = "cancelReserved"]
    /\ UNCHANGED <<exists, disk, area, files, seen, run>>

\* WinCancel or AbortCancel.
EndCancel(s) ==
    /\ arbiter[s] = "cancelReserved"
    /\ \E state \in {"cancelWon", "open"} :
          arbiter' = [arbiter EXCEPT ![s] = state]
    /\ UNCHANGED <<exists, disk, area, files, seen, run, budget>>

\* The user removes, adds or replaces a file of the output root.
Meddle(d) ==
    /\ spend("meddling")
    /\ \E content \in {"absent", "user"} \ {files[d]} : place(d, content)
    /\ area' = [s \in Session |-> [area[s] EXCEPT !.links = area[s].links \ {d}]]
    /\ UNCHANGED <<exists, disk, arbiter, run>>

\* The user edits a file in place, and with it every hard link of it.
Edit(d) ==
    /\ files[d] \in Fingerprint
    /\ spend("meddling")
    /\ LET owners == {s \in Session : d \in area[s].links}
           edited == {d} \cup UNION {area[s].links : s \in owners}
       IN  /\ files' = [e \in Destination |-> IF e \in edited THEN "user"
                                                              ELSE files[e]]
           /\ seen' = seen \cup (edited \X {"user"})
           /\ area' = [s \in Session |->
                          IF s \in owners THEN [area[s] EXCEPT !.stage = "user"]
                                          ELSE area[s]]
    /\ UNCHANGED <<exists, disk, arbiter, run>>

User == \E d \in Destination : Meddle(d) \/ Edit(d)

Step(s) ==
    \/ Reconcile(s) \/ ResolveCompleted(s) \/ ResolveFailed(s)
    \/ ReportSettled(s) \/ rebindTargetIfNeeded(s) \/ PauseResidue(s)
    \/ Resume(s) \/ Advance(s) \/ FinishExtracting(s)
    \/ Work(s) \/ RemoveEvidence(s) \/ ResetComponent(s)
    \/ commitCheckpoint(s) \/ TransferDone(s) \/ TransferFails(s)
    \/ TransferNeedsReset(s) \/ Process(s) \/ buildStagedOutput(s)
    \/ SetStagedOutput(s) \/ Ready(s) \/ JournalReady(s) \/ SetPending(s)
    \/ BeginPublication(s) \/ JournalPublishing(s) \/ LinkCommitted(s)
    \/ LinkCollides(s) \/ LinkFailsBefore(s) \/ LinkUncertain(s)
    \/ JournalPublished(s) \/ Commit(s) \/ Complete(s) \/ JournalCollision(s)
    \/ markCollision(s) \/ JournalIndeterminate(s)
    \/ markPublicationIndeterminate(s)
    \/ Interrupt(s) \/ markPaused(s) \/ Discard(s)

Restart(s) == \E target \in Destination : Start(s, target)

Next ==
    \/ \E s \in Session : \/ Step(s) \/ Restart(s) \/ Crash(s) \/ Expire(s)
                          \/ BeginCancel(s) \/ EndCancel(s)
    \/ User

Spec == Init /\ [][Next]_vars

\* A run does not stop by itself, the host resolves a cancellation it has
\* reserved, and it runs the session again.
Fairness(s) == WF_vars(Step(s)) /\ WF_vars(Restart(s)) /\ WF_vars(EndCancel(s))

-----------------------------------------------------------------------------
(* Properties. *)

Run == [pc : Point, target : Destination, cause : {"live", "pause", "cancel"},
        stale : BOOLEAN, retried : BOOLEAN, result : Outcome]

\* Every manifest on disk passes Validate, whatever crashed between two steps
\* (Manifest.Validate, which every open repeats), and the rest is in its type.
TypeOK ==
    /\ exists \subseteq Session
    /\ \A s \in Session : disk[s] \in Manifest
    /\ \A s \in exists : Validate(disk[s])
    /\ area \in [Session -> [payload : Fingerprint \cup {"none"},
                             stage   : Fingerprint \cup {"none", "user"},
                             links   : SUBSET Destination,
                             journal : Journal]]
    /\ files \in [Destination -> Content]
    /\ seen \subseteq Destination \X Content
    /\ run \in [Session -> Run]
    /\ budget \in [faults : 0 .. MaxFaults, meddling : 0 .. MaxMeddling,
                   interrupts : 0 .. MaxInterrupts]

\* No run ever changes or removes what a destination holds: only the user does
\* (noReplaceDirectStage; "The target is never replaced", engine/resume.go).
TargetNeverReplaced ==
    [][\A d \in Destination :
          files[d] # "absent" /\ files'[d] # files[d] => User]_vars

\* A manifest that says committed tells the truth in every crash and restart
\* history: the staged output was at that destination at some time (publish and
\* reconcile record the commit only on evidence).
CommittedWasPublished ==
    \A s \in exists :
        disk[s].publication = "committed"
            => <<disk[s].relativeDestination, disk[s].stagedFingerprint>> \in seen

\* A ready session can be published without another transfer: the output that
\* its manifest names is in its stage unless the user edited it through the
\* published link ("the ready-to-publish session remains retryable").
ReadyIsRetryable ==
    \A s \in exists :
        disk[s].phase \in {"ready_to_publish", "completed"}
            => /\ disk[s].stagedFingerprint \in Fingerprint
               /\ area[s].stage \in {disk[s].stagedFingerprint, "user"}

Publishing == {"reserved", "linking", "replaced", "commit", "complete"}

\* Once the host has won the cancellation of a run, that run is not between its
\* reservation and the end of a publication (BeginPublication; "avoid
\* publishing a successful final artifact after cancellation",
\* docs/ARCHITECTURE.md).
CancelExcludesPublication ==
    \A s \in Session : arbiter[s] \in {"cancelReserved", "cancelWon"}
                            => run[s].pc \notin Publishing

\* A run reports published only for a session whose commit is durable, and for
\* an output that was at the destination.
PublishedIsDurable ==
    \A s \in Session :
        run[s].pc = "down" /\ run[s].result = "published"
            => s \in exists /\ settled(s)

\* Two sessions that both committed one destination staged the same bytes as
\* long as the user left it alone: the second found its own output there.
OneOutputPerDestination ==
    budget.meddling = MaxMeddling =>
        \A s, t \in exists :
            /\ disk[s].publication = "committed"
            /\ disk[t].publication = "committed"
            /\ disk[s].relativeDestination = disk[t].relativeDestination
            => disk[s].stagedFingerprint = disk[t].stagedFingerprint

\* The comment on downloadedPayload: a checkpoint without a strong validator is
\* rejected by a later run, which has to "conservatively transfer again".
TransfersAgain ==
    [][\A s \in Session :
          /\ run[s].pc = "work" /\ run'[s].pc = "down" /\ budget' = budget
          => ~unresumable(s)]_vars
=============================================================================
