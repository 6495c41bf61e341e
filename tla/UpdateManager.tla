---------------------------- MODULE UpdateManager ----------------------------
(***************************************************************************)
(* The update manager (internal/update): releases are directories, a state *)
(* record names the active and the previous one, and a journal covers the  *)
(* time from the switch to the end of the health check.  Every operation   *)
(* first recovers what a journal left behind.  A process may crash between *)
(* any two durable steps, and a step may fail before or after its effect.  *)
(*                                                                         *)
(*   installation  state.json: the highest generation seen, the active and *)
(*                 the previous release                                    *)
(*   journal       journal.json                                            *)
(*   releases      what each directory of releases/ holds; "hollow" when a *)
(*                 removal stopped between the artifact and the directory  *)
(*   staging       the artifact staged by the transaction in progress      *)
(*   updater       the operation that holds .update.lock; "idle" when      *)
(*                 nobody does, "dead" when its process died               *)
(*   answers       the releases for which a call of ActivePath has given   *)
(*                 the lock back and not yet looked at the artifact        *)
(*   checked       the artifacts that have passed the health check         *)
(*   updateFaults  crashes and failing steps still to come                 *)
(*                                                                         *)
(* The lock excludes here, so there is one operation at a time; the        *)
(* protocol of such a lock and its limits are those of ArchiveStore.       *)
(* Signatures, expiry and platforms are input checks and left out.         *)
(***************************************************************************)
EXTENDS Integers, FiniteSets

CONSTANTS
    Artifact,         \* what metadata may announce and a reader may deliver
    VersionOf,        \* [Artifact -> version], compareVersion is <
    MaxGeneration,
    MaxAnswers,       \* calls of ActivePath that verify at a time
    MaxUpdateFaults   \* crashes and failing steps

ASSUME UpdateAssumption ==
    /\ VersionOf \in [Artifact -> Nat]
    /\ MaxGeneration \in Nat
    /\ MaxAnswers \in Nat /\ MaxUpdateFaults \in Nat

ASSUME UpdateNames ==
    "none" \notin Artifact /\ "absent" \notin Artifact /\ "hollow" \notin Artifact

VARIABLES installation, journal, releases, staging, updater, answers, checked,
          updateFaults

updateVars == <<installation, journal, releases, staging, updater, answers,
                checked, updateFaults>>

disk == <<installation, journal, releases, staging, checked>>

Generation == 0 .. MaxGeneration

Version == {VersionOf[a] : a \in Artifact}

Installed == [artifact : Artifact \cup {"none"}, generation : Generation]

NotInstalled == [artifact |-> "none", generation |-> 0]

Installation == [highest : Generation, active : Installed, previous : Installed]

initialState == [highest |-> 0, active |-> NotInstalled, previous |-> NotInstalled]

Journal == [operation : {"apply", "rollback", "reactivate"},
            before : Installation, after : Installation]

NoJournal == [operation |-> "none", before |-> initialState, after |-> initialState]

UpdatePoint == {"idle", "dead", "recover", "recoverStaging", "recoverRelease",
                "recoverDirectory", "recoverJournal", "begin", "refresh", "stage",
                "journal", "publish", "activate", "health", "restore", "remove",
                "removeDirectory", "abandon", "finish", "retire",
                "retireDirectory", "return"}

IdleUpdater == [pc |-> "idle", op |-> "apply", before |-> initialState,
                after |-> initialState, target |-> NotInstalled]

UpdateInit ==
    /\ installation = initialState
    /\ journal = NoJournal
    /\ releases = [v \in Version |-> "absent"]
    /\ staging = "none"
    /\ updater = IdleUpdater
    /\ answers = {}
    /\ checked = {}
    /\ updateFaults = MaxUpdateFaults

-----------------------------------------------------------------------------
(* Building blocks. *)

pending == journal.operation # "none"

Running(pc) == updater.pc = pc

proceed(pc) ==
    updater' = [updater EXCEPT !.pc = pc] /\ UNCHANGED updateFaults

\* An error ends the operation; what it has written stays.
abort ==
    /\ updateFaults > 0
    /\ updateFaults' = updateFaults - 1
    /\ updater' = [updater EXCEPT !.pc = "return"]

\* validateState, which every read and write of the record repeats.
validateState(s) ==
    /\ s \in Installation
    /\ s.active.generation <= s.highest /\ s.previous.generation <= s.highest

\* writeRecord replaces the file or fails; it may also fail after that.
writeState(s, pc) ==
    \/ installation' = s /\ proceed(pc)
    \/ installation' \in {installation, s} /\ abort

removeJournal(pc) ==
    \/ journal' = NoJournal /\ proceed(pc)
    \/ journal' \in {journal, NoJournal} /\ abort

versionOf(r) == VersionOf[r.artifact]

named(s) == {s.active, s.previous} \ {NotInstalled}

verifyArtifact(r) == releases[versionOf(r)] = r.artifact

\* os.RemoveAll of a release: its artifact first, then the directory.
removeArtifact(v, pc) ==
    \/ /\ releases' = IF releases[v] = "absent" THEN releases
                      ELSE [releases EXCEPT ![v] = "hollow"]
       /\ proceed(pc)
    \/ UNCHANGED releases /\ abort

removeDirectory(v, pc) ==
    \/ releases' = [releases EXCEPT ![v] = "absent"] /\ proceed(pc)
    \/ UNCHANGED releases /\ abort

-----------------------------------------------------------------------------
(* The lock, and recover: every operation begins with it. *)

Lock(op, target) ==
    /\ Running("idle")
    /\ updater' = [IdleUpdater EXCEPT !.pc = "recover", !.op = op, !.target = target]
    /\ UNCHANGED <<disk, answers, updateFaults>>

\* Mutant: a journal whose switch has happened is taken for finished.
RecoverState_Trusts ==
    /\ Running("recover")
    /\ IF ~pending THEN proceed("begin") /\ UNCHANGED installation
       ELSE IF installation = journal.after
            THEN proceed("recoverJournal") /\ UNCHANGED installation
            ELSE writeState(journal.before, "recoverStaging")
    /\ UNCHANGED <<journal, releases, staging, answers, checked>>

\* A journal means that health was not acknowledged: the old state comes back.
RecoverState ==
    /\ Running("recover")
    /\ IF ~pending THEN proceed("begin") /\ UNCHANGED installation
       ELSE IF installation \notin {journal.before, journal.after}
       THEN proceed("return") /\ UNCHANGED installation
       ELSE IF installation = journal.before
       THEN proceed("recoverStaging") /\ UNCHANGED installation
       ELSE writeState(journal.before, "recoverStaging")
    /\ UNCHANGED <<journal, releases, staging, answers, checked>>

\* Mutant: a staging directory that is gone stops the recovery.
RecoverStaging_Required ==
    /\ Running("recoverStaging")
    /\ IF staging = "none" THEN proceed("return") /\ UNCHANGED staging
       ELSE staging' = "none" /\ proceed("recoverRelease")
    /\ UNCHANGED <<installation, journal, releases, answers, checked>>

RecoverStaging ==
    /\ Running("recoverStaging")
    /\ \/ staging' = "none" /\ proceed("recoverRelease")
       \/ UNCHANGED staging /\ abort
    /\ UNCHANGED <<installation, journal, releases, answers, checked>>

\* A release that is not the journal's own is never removed.
RecoverRelease ==
    /\ Running("recoverRelease")
    /\ IF journal.operation # "apply"
          \/ releases[versionOf(journal.after.active)] = "absent"
       THEN proceed("recoverJournal") /\ UNCHANGED releases
       ELSE IF ~verifyArtifact(journal.after.active)
            THEN proceed("return") /\ UNCHANGED releases
            ELSE removeArtifact(versionOf(journal.after.active), "recoverDirectory")
    /\ UNCHANGED <<installation, journal, staging, answers, checked>>

RecoverDirectory ==
    /\ Running("recoverDirectory")
    /\ removeDirectory(versionOf(journal.after.active), "recoverJournal")
    /\ UNCHANGED <<installation, journal, staging, answers, checked>>

RecoverJournal ==
    /\ Running("recoverJournal")
    /\ removeJournal("begin")
    /\ UNCHANGED <<installation, releases, staging, answers, checked>>

-----------------------------------------------------------------------------
(* Apply, Rollback and ActivePath after recover. *)

\* Mutant: a generation that was seen before is accepted again.
selects_Replayed(target) ==
    /\ target.generation >= installation.highest
    /\ installation.active # NotInstalled =>
           versionOf(target) >= versionOf(installation.active)

\* Select: the generation is new and the version is not lower.
selects(target) ==
    /\ target.generation > installation.highest
    /\ installation.active # NotInstalled =>
           versionOf(target) >= versionOf(installation.active)

\* sameArtifact
isInstalled(r, target) == r.artifact = target.artifact

switchTo(pc, after) ==
    updater' = [updater EXCEPT !.pc = pc, !.before = installation,
                               !.after = after]

\* The target becomes active and the active release the previous one.
updated(target) == [highest |-> target.generation, active |-> target,
                    previous |-> installation.active]

BeginApply ==
    LET target == updater.target IN
    /\ Running("begin") /\ updater.op = "apply"
    /\ IF ~selects(target) THEN switchTo("return", installation)
       ELSE IF isInstalled(installation.active, target)
       THEN switchTo("refresh", [installation EXCEPT
                                      !.highest = target.generation,
                                      !.active.generation = target.generation])
       ELSE IF ~isInstalled(installation.previous, target)
       THEN switchTo("stage", updated(target))
       ELSE IF ~verifyArtifact(installation.previous)
       THEN switchTo("return", installation)
       ELSE switchTo("journal", updated(target))
    /\ UNCHANGED <<disk, answers, updateFaults>>

BeginRollback ==
    /\ Running("begin") /\ updater.op = "rollback"
    /\ IF NotInstalled \in {installation.active, installation.previous}
       THEN switchTo("return", installation)
       ELSE IF ~verifyArtifact(installation.previous)
       THEN switchTo("return", installation)
       ELSE switchTo("journal", [installation EXCEPT
                                      !.active = installation.previous,
                                      !.previous = installation.active])
    /\ UNCHANGED <<disk, answers, updateFaults>>

\* Snapshot gives the lock back before ActivePath looks at the artifact.
BeginActivePath ==
    /\ Running("begin") /\ updater.op = "path"
    /\ answers' = answers \cup ({installation.active.artifact} \ {"none"})
    /\ updater' = IdleUpdater
    /\ UNCHANGED <<disk, updateFaults>>

\* ActivePath answers with the path if the artifact is still there.
VerifyActive ==
    /\ \E a \in answers : answers' = answers \ {a}
    /\ UNCHANGED <<disk, updater, updateFaults>>

Refresh ==
    /\ Running("refresh")
    /\ writeState(updater.after, "return")
    /\ UNCHANGED <<journal, releases, staging, answers, checked>>

\* The bytes that arrive are the announced ones or are refused.
Stage ==
    /\ Running("stage")
    /\ \/ staging' = updater.target.artifact /\ proceed("journal")
       \/ UNCHANGED staging /\ abort
    /\ UNCHANGED <<installation, journal, releases, answers, checked>>

journaled ==
    [operation |-> IF updater.op = "rollback" THEN "rollback"
                   ELSE IF staging = "none" THEN "reactivate" ELSE "apply",
     before |-> updater.before, after |-> updater.after]

WriteJournal ==
    /\ Running("journal")
    /\ \/ /\ journal' = journaled
          /\ proceed(IF staging = "none" THEN "activate" ELSE "publish")
       \/ journal' \in {journal, journaled} /\ abort
    /\ UNCHANGED <<installation, releases, staging, answers, checked>>

\* The staging directory becomes the release; one that exists is refused.
Publish ==
    LET v == versionOf(updater.target)
        published == [releases EXCEPT ![v] = staging]
    IN
    /\ Running("publish")
    /\ \/ /\ releases[v] # "absent"
          /\ proceed("abandon")
          /\ UNCHANGED <<releases, staging>>
       \/ /\ releases[v] = "absent"
          /\ releases' = published /\ staging' = "none"
          /\ proceed("activate") \/ abort
       \/ releases[v] = "absent" /\ abort /\ UNCHANGED <<releases, staging>>
    /\ UNCHANGED <<installation, journal, answers, checked>>

-----------------------------------------------------------------------------
(* The switch, the health check and what follows it. *)

Activate ==
    /\ Running("activate")
    /\ writeState(updater.after, "health")
    /\ UNCHANGED <<journal, releases, staging, answers, checked>>

\* The active binary must report its version in time.
CheckHealth ==
    /\ Running("health")
    /\ \/ /\ checked' = checked \cup {updater.after.active.artifact}
          /\ proceed("finish")
       \/ proceed("restore") /\ UNCHANGED checked
    /\ UNCHANGED <<installation, journal, releases, staging, answers>>

Restore ==
    /\ Running("restore")
    /\ writeState(updater.before,
                  IF journal.operation = "apply" THEN "remove" ELSE "abandon")
    /\ UNCHANGED <<journal, releases, staging, answers, checked>>

Remove ==
    /\ Running("remove")
    /\ removeArtifact(versionOf(updater.target), "removeDirectory")
    /\ UNCHANGED <<installation, journal, staging, answers, checked>>

RemoveDirectory ==
    /\ Running("removeDirectory")
    /\ removeDirectory(versionOf(updater.target), "abandon")
    /\ UNCHANGED <<installation, journal, staging, answers, checked>>

\* The update failed; the error of the removal is not looked at.
Abandon ==
    /\ Running("abandon")
    /\ removeJournal("return")
    /\ UNCHANGED <<installation, releases, staging, answers, checked>>

\* The journal goes: from here on the new state counts.
Finish ==
    /\ Running("finish")
    /\ removeJournal(IF updater.op = "apply" /\ journal.operation = "apply"
                        THEN "retire" ELSE "return")
    /\ UNCHANGED <<installation, releases, staging, answers, checked>>

\* removeInactive: the release before the previous one, unless it is still named.
retired ==
    {versionOf(r) : r \in {updater.before.previous} \ {NotInstalled}}
        \ {versionOf(r) : r \in named(updater.after)}

Retire ==
    /\ Running("retire")
    /\ IF retired = {} THEN proceed("return") /\ UNCHANGED releases
       ELSE \E v \in retired : removeArtifact(v, "retireDirectory")
    /\ UNCHANGED <<installation, journal, staging, answers, checked>>

RetireDirectory ==
    /\ Running("retireDirectory")
    /\ \E v \in retired : removeDirectory(v, "return")
    /\ UNCHANGED <<installation, journal, staging, answers, checked>>

\* The deferred calls: the staging directory of this transaction, the lock.
Return ==
    /\ Running("return")
    /\ staging' = IF updater.after.active = updater.target THEN "none" ELSE staging
    /\ updater' = IdleUpdater
    /\ UNCHANGED <<installation, journal, releases, answers, checked, updateFaults>>

-----------------------------------------------------------------------------
(* The surroundings. *)

\* The lock stays.  A staging directory that no journal names is forgotten.
CrashUpdater ==
    /\ updater.pc \notin {"idle", "dead"}
    /\ updateFaults > 0
    /\ updateFaults' = updateFaults - 1
    /\ staging' = IF pending THEN staging ELSE "none"
    /\ updater' = [IdleUpdater EXCEPT !.pc = "dead"]
    /\ UNCHANGED <<installation, journal, releases, answers, checked>>

\* lockStale: its process is dead and StaleLockAfter has passed.
BreakLock ==
    /\ Running("dead")
    /\ updater' = IdleUpdater
    /\ UNCHANGED <<disk, answers, updateFaults>>

UpdateStep ==
    \/ RecoverState \/ RecoverStaging \/ RecoverRelease
    \/ RecoverDirectory \/ RecoverJournal
    \/ BeginApply \/ BeginRollback \/ BeginActivePath
    \/ Refresh \/ Stage \/ WriteJournal \/ Publish \/ Activate
    \/ CheckHealth \/ Restore \/ Remove \/ RemoveDirectory
    \/ Abandon \/ Finish \/ Retire \/ RetireDirectory \/ Return

\* Open, Snapshot and ActivePath.
AskPath == Cardinality(answers) < MaxAnswers /\ Lock("path", NotInstalled)

AskUpdate ==
    \/ Lock("rollback", NotInstalled)
    \/ \E a \in Artifact, g \in 1 .. MaxGeneration :
           Lock("apply", [artifact |-> a, generation |-> g])

UpdateNext ==
    UpdateStep \/ VerifyActive \/ AskPath \/ AskUpdate \/ CrashUpdater \/ BreakLock

UpdateSpec == UpdateInit /\ [][UpdateNext]_updateVars

\* An operation goes on, a stale lock is broken, and somebody asks for the
\* active path again and again, as every start of the program does.
UpdateFairness ==
    /\ WF_updateVars(BreakLock) /\ WF_updateVars(UpdateStep)
    /\ WF_updateVars(VerifyActive) /\ WF_updateVars(AskPath)

UpdateFairSpec == UpdateSpec /\ UpdateFairness
-----------------------------------------------------------------------------
(* Properties. *)

\* Every record on disk passes validateState, so no operation is refused by it.
UpdateTypeOK ==
    /\ validateState(installation)
    /\ journal \in Journal \cup {NoJournal}
    /\ validateState(journal.before) /\ validateState(journal.after)
    /\ releases \in [Version -> Artifact \cup {"absent", "hollow"}]
    /\ staging \in Artifact \cup {"none"}
    /\ updater \in [pc : UpdatePoint, op : {"apply", "rollback", "path"},
                    before : Installation, after : Installation, target : Installed]
    /\ answers \subseteq Artifact
    /\ checked \subseteq Artifact
    /\ updateFaults \in Nat

\* Every release that the state, or the state a recovery would restore, names is
\* whole on disk at every moment, whatever crashed: the switch comes after the
\* publication, the removals after the switch back or after the journal is gone.
NamedReleasesAreWhole ==
    \A r \in named(installation) \cup (IF pending THEN named(journal.before) ELSE {}) :
        verifyArtifact(r)

\* Without a journal the active release has passed the health check, and a path
\* that ActivePath hands out is that of such a release ("A remaining journal
\* means health was not durably acknowledged", recover).
ActiveWasChecked ==
    /\ ~pending /\ installation.active # NotInstalled
           => installation.active.artifact \in checked
    /\ answers \subseteq checked

\* The state a recovery would leave is the installation the manager promises.
Contract == INSTANCE UpdateContract WITH
                installed <- IF pending THEN journal.before ELSE installation

\* Seen from outside an update or rollback happens at once, at the removal of
\* the journal or not at all, and never lowers the generation (Select, recover).
ImplementsContract == Contract!Spec

\* recover refuses a release that is not the one the journal published.
Blocked ==
    /\ pending /\ journal.operation = "apply"
    /\ releases[versionOf(journal.after.active)]
           \notin {"absent", journal.after.active.artifact}

\* A journal is always resolved by some later start, unless its release is one
\* that recover refuses to touch (recover at the head of every operation).
JournalResolves == pending ~> (~pending \/ Blocked)
=============================================================================
