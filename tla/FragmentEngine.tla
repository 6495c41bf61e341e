--------------------------- MODULE FragmentEngine ---------------------------
(***************************************************************************)
(* The transfer of a fragmented stream (internal/fragment) for a session   *)
(* that owns the boundary up to which fragments are committed              *)
(* (engine/session_direct.go), with the reset of the session's workspace   *)
(* (internal/session/workspace.go).  Workers fetch fragments side by side, *)
(* the ledger and the boundary advance with the contiguous prefix, and a   *)
(* crash may come between any two durable steps.                           *)
(*                                                                         *)
(*   frags      the fragment files: the version each holds, or "none"      *)
(*   ledger     state.json: the plan and the fragments recorded            *)
(*   evidence   other files of the work directory                          *)
(*   workDir    whether the work directory exists                          *)
(*   output     the session's payload, NoFragments while there is none     *)
(*   authority  the boundary in the session's manifest                     *)
(*   source     the version a new extraction finds                         *)
(*   run        the run in progress, with what it holds in memory          *)
(*   worker     its workers                                                *)
(*   slack      crashes, failures, cancellations and changes still to come *)
(*                                                                         *)
(* One version stands for one proof of equivalence: the provider promises  *)
(* that equal proofs mean equal bytes, and that the URLs of one extraction *)
(* serve one version.  Fragments hold at least one byte.  Retries inside a *)
(* fetch change nothing and are left out, events, limits on sizes and the  *)
(* mode without a session's boundary too.                                  *)
(***************************************************************************)
EXTENDS Integers, FiniteSets

CONSTANTS
    Version,          \* what extractions may find
    Proof,            \* [Version -> its equivalence proof, or "unset"]
    Plan,             \* [Version -> the hash of its segment plan]
    Segments,         \* how many segments a plan has
    Worker,           \* job.Concurrency of them
    HostLimit,        \* job.PerHostConcurrency; one host serves all segments
    MaxLosses, MaxErrors, MaxStops, MaxRefreshes

ASSUME FragmentAssumption ==
    /\ Segments \in Nat \ {0} /\ HostLimit \in Nat \ {0}
    /\ \A v \in Version : Proof[v] # "unset" =>
            \A u \in Version : Proof[u] = Proof[v] => u = v
    /\ {MaxLosses, MaxErrors, MaxStops, MaxRefreshes} \subseteq Nat

VARIABLES frags, ledger, evidence, workDir, output, authority, source, run,
          worker, slack

files == <<frags, ledger, evidence, workDir>>

fragmentVars == <<files, output, authority, source, run, worker, slack>>

Index == 1 .. Segments

NoFragments == [i \in Index |-> "none"]

NoLedger == [exists |-> FALSE, plan |-> "none", artifacts |-> NoFragments]

NoAuthority == [sequence |-> 0, plan |-> "none", artifacts |-> NoFragments]

\* next is the index the feeder offers; cancelled is the workers' context,
\* stopped the caller's; stale says that the manifest moved since it was read.
NoRun == [pc |-> "down", version |-> "none", retried |-> FALSE, stale |-> FALSE,
          next |-> 1, cancelled |-> FALSE, stopped |-> FALSE,
          callbackErr |-> FALSE, poisoned |-> FALSE, notified |-> 0,
          outcome |-> NoFragments]

NoWork == [w \in Worker |-> [pc |-> "idle", index |-> 0, sequence |-> 0]]

FragmentInit ==
    /\ frags = NoFragments /\ ledger = NoLedger /\ evidence = {} /\ workDir = FALSE
    /\ output = NoFragments
    /\ authority = NoAuthority
    /\ source \in Version
    /\ run = NoRun /\ worker = NoWork
    /\ slack = [losses |-> MaxLosses, errors |-> MaxErrors, stops |-> MaxStops,
                refreshes |-> MaxRefreshes]

-----------------------------------------------------------------------------
(* Building blocks. *)

use(kind) ==
    /\ slack[kind] > 0
    /\ slack' = [slack EXCEPT ![kind] = slack[kind] - 1]

enter(pc) == run' = [run EXCEPT !.pc = pc] /\ UNCHANGED worker

\* The run returns; handleInterruption keeps what is durable.
leave == run' = NoRun /\ worker' = NoWork

\* ErrCheckpointReconciliation or ErrInvalidCheckpoint reaches the session:
\* it resets once and transfers again.
reconcile ==
    IF run.retried THEN leave
    ELSE /\ run' = [run EXCEPT !.pc = "revoke", !.retried = TRUE]
         /\ worker' = NoWork

present == {i \in Index : frags[i] # "none"}

recorded == {i \in Index : ledger.artifacts[i] # "none"}

upTo(artifacts, n) == [i \in Index |-> IF i <= n THEN artifacts[i] ELSE "none"]

contiguousSequence(artifacts) ==
    CHOOSE n \in 0 .. Segments :
        /\ \A i \in 1 .. n : artifacts[i] # "none"
        /\ n < Segments => artifacts[n + 1] = "none"

snapshotForPrefix(n) ==
    [sequence |-> n, plan |-> ledger.plan, artifacts |-> upTo(ledger.artifacts, n)]

-----------------------------------------------------------------------------
(* The session starts a run, and resets what a run cannot continue. *)

\* A fragmented payload has no ETag, so no earlier payload counts as complete.
downloadFragmented ==
    /\ run.pc = "down"
    /\ run' = [NoRun EXCEPT !.pc = "boundary", !.version = source]
    /\ UNCHANGED <<files, output, authority, source, worker, slack>>

\* Mutant: the files go first and the boundary is revoked with the payload.
RevokeAuthority_Later ==
    /\ run.pc = "revoke"
    /\ IF run.stale THEN leave ELSE enter("payload")
    /\ UNCHANGED <<files, output, authority, source, slack>>

\* ResetFragmentComponent, for the revision read before the transfer.
RevokeAuthority ==
    /\ run.pc = "revoke"
    /\ IF run.stale
       THEN leave /\ UNCHANGED authority
       ELSE enter("payload") /\ authority' = NoAuthority
    /\ UNCHANGED <<files, output, source, slack>>

\* Mutant: an earlier payload stays.
ErasePayload_Kept ==
    /\ run.pc = "payload"
    /\ enter("erase")
    /\ UNCHANGED <<files, output, authority, source, slack>>

ErasePayload ==
    /\ run.pc = "payload"
    /\ output' = NoFragments
    /\ enter("erase")
    /\ UNCHANGED <<files, authority, source, slack>>

\* The entries go in directory order.
EraseEntry ==
    /\ run.pc = "erase"
    /\ \/ /\ \E i \in present : frags' = [frags EXCEPT ![i] = "none"]
          /\ UNCHANGED <<ledger, evidence>>
       \/ ledger.exists /\ ledger' = NoLedger /\ UNCHANGED <<frags, evidence>>
       \/ /\ \E name \in evidence : evidence' = evidence \ {name}
          /\ UNCHANGED <<frags, ledger>>
    /\ UNCHANGED <<workDir, output, authority, source, run, worker, slack>>

empty == present = {} /\ ~ledger.exists /\ evidence = {}

EraseDirectory ==
    /\ run.pc = "erase" /\ empty
    /\ workDir' = FALSE
    /\ run' = [NoRun EXCEPT !.pc = "boundary", !.version = run.version, !.retried = TRUE]
    /\ UNCHANGED <<frags, ledger, evidence, output, authority, source, worker, slack>>

-----------------------------------------------------------------------------
(* Download: what the run may continue from. *)

localAhead(n) == \E i \in present \cup recorded : i > n

\* Zero is the boundary of a run that has to find nothing.
reconcileResumeBoundary ==
    IF authority.sequence = 0
    THEN empty /\ output = NoFragments
    ELSE /\ authority.plan = Plan[run.version]
         /\ workDir /\ evidence = {}
         /\ ledger.exists /\ ledger.plan = Plan[run.version]
         /\ \A i \in 1 .. authority.sequence : ledger.artifacts[i] = frags[i]
         /\ snapshotForPrefix(authority.sequence) = authority
         /\ ~localAhead(authority.sequence)

ReconcileBoundary ==
    /\ run.pc = "boundary"
    /\ IF reconcileResumeBoundary THEN enter("open") ELSE reconcile
    /\ UNCHANGED <<files, output, authority, source, slack>>

CreateWorkDirectory ==
    /\ run.pc = "open" /\ ~workDir
    /\ workDir' = TRUE
    /\ UNCHANGED <<frags, ledger, evidence, output, authority, source, run, worker, slack>>

\* Mutant: a fragment recorded without proof is as good as its digest.
equivalenceRestartRequired_Digest ==
    \E i \in recorded : Proof[ledger.artifacts[i]] # Proof[run.version]

equivalenceRestartRequired ==
    \E i \in recorded :
        Proof[run.version] = "unset" \/ Proof[ledger.artifacts[i]] # Proof[run.version]

\* configureCallback: the boundary is what the session knows of.
configured == run' = [run EXCEPT !.pc = "work", !.notified = authority.sequence]
              /\ UNCHANGED worker

openArtifactManifest ==
    /\ run.pc = "open" /\ workDir /\ ledger.exists
    /\ IF equivalenceRestartRequired THEN reconcile ELSE configured
    /\ UNCHANGED <<files, output, authority, source, slack>>

initialManifestState == [NoLedger EXCEPT !.exists = TRUE, !.plan = Plan[run.version]]

\* A write that did not settle leaves a marker, unless that fails as well.
unsettled == evidence' \in {evidence, evidence \cup {"reconciliation"}}

writeInitialState ==
    /\ run.pc = "open" /\ workDir /\ ~ledger.exists
    /\ \/ /\ ledger' = initialManifestState /\ configured
          /\ UNCHANGED <<evidence, slack>>
       \/ use("errors") /\ leave /\ UNCHANGED <<ledger, evidence>>
       \/ use("errors") /\ ledger' \in {ledger, initialManifestState}
          /\ unsettled /\ reconcile
    /\ UNCHANGED <<frags, workDir, output, authority, source>>

-----------------------------------------------------------------------------
(* Download: the workers. *)

\* Worker w is done with its index; any error cancels the others.
finish(w, outcome) ==
    /\ worker' = [worker EXCEPT ![w] = NoWork[w]]
    /\ run' = [run EXCEPT !.outcome[worker[w].index] = outcome,
                          !.cancelled = run.cancelled
                                        \/ outcome \notin {"downloaded", "reused"}]

go(w, pc) == worker' = [worker EXCEPT ![w].pc = pc] /\ UNCHANGED run

\* The mutex of the manifest is held over the write and the callback.
mutexFree == \A w \in Worker : worker[w].pc # "callback"

Feed(w) ==
    /\ run.pc = "work" /\ worker[w].pc = "idle" /\ run.next <= Segments
    /\ worker' = [worker EXCEPT ![w] = [NoWork[w] EXCEPT !.pc = "reuse", !.index = run.next]]
    /\ run' = [run EXCEPT !.next = run.next + 1]
    /\ UNCHANGED <<files, output, authority, source, slack>>

FeederStops ==
    /\ run.pc = "work" /\ run.cancelled /\ run.next <= Segments
    /\ run' = [run EXCEPT !.next = Segments + 1]
    /\ UNCHANGED <<files, output, authority, source, worker, slack>>

\* What a failed callback or an unsettled write leaves to the others.
refused(w) ==
    \/ run.callbackErr /\ finish(w, "failed")
    \/ ~run.callbackErr /\ run.poisoned /\ finish(w, "checkpoint")

reusableScaled(w) ==
    LET i == worker[w].index
        known == ledger.artifacts[i]
    IN  /\ worker[w].pc = "reuse" /\ mutexFree
        /\ IF run.callbackErr \/ run.poisoned THEN refused(w)
           ELSE IF known = "none" \/ (Proof[run.version] # "unset"
                                      /\ Proof[known] # Proof[run.version])
                THEN go(w, "acquire")
           ELSE finish(w, IF frags[i] = known THEN "reused" ELSE "checkpoint")
        /\ UNCHANGED <<files, output, authority, source, slack>>

\* Mutant: the limiter admits everybody.
AcquireHost_Unlimited(w) ==
    /\ worker[w].pc = "acquire"
    /\ go(w, "fetch")
    /\ UNCHANGED <<files, output, authority, source, slack>>

AcquireHost(w) ==
    /\ worker[w].pc = "acquire"
    /\ Cardinality({u \in Worker : worker[u].pc = "fetch"}) < HostLimit
    /\ go(w, "fetch")
    /\ UNCHANGED <<files, output, authority, source, slack>>

\* The host limiter and the transport watch the workers' context.
WorkerCancelled(w) ==
    /\ worker[w].pc \in {"acquire", "fetch"} /\ run.cancelled
    /\ finish(w, "cancelled")
    /\ UNCHANGED <<files, output, authority, source, slack>>

fetchWithRetry(w) ==
    LET fetched == [frags EXCEPT ![worker[w].index] = run.version]
    IN  /\ worker[w].pc = "fetch"
        /\ \/ frags' = fetched /\ go(w, "record") /\ UNCHANGED <<evidence, slack>>
           \/ use("errors") /\ finish(w, "failed") /\ UNCHANGED <<frags, evidence>>
           \/ use("errors") /\ frags' \in {frags, fetched} /\ unsettled
              /\ finish(w, "checkpoint")
        /\ UNCHANGED <<ledger, workDir, output, authority, source>>

\* The ledger is written first; the session hears of it when the prefix grew.
RecordScaled(w) ==
    LET i == worker[w].index
        candidate == [ledger EXCEPT !.artifacts[i] = frags[i]]
        sequence == contiguousSequence(candidate.artifacts)
    IN  /\ worker[w].pc = "record" /\ mutexFree
        /\ IF run.callbackErr \/ run.poisoned
           THEN refused(w) /\ UNCHANGED <<ledger, evidence, slack>>
           ELSE \/ /\ ledger' = candidate
                   /\ IF sequence > run.notified
                      THEN /\ worker' = [worker EXCEPT ![w].pc = "callback",
                                                       ![w].sequence = sequence]
                           /\ UNCHANGED run
                      ELSE finish(w, "downloaded")
                   /\ UNCHANGED <<evidence, slack>>
                \/ use("errors") /\ finish(w, "failed") /\ UNCHANGED <<ledger, evidence>>
                \/ /\ use("errors") /\ ledger' \in {ledger, candidate} /\ unsettled
                   /\ worker' = [worker EXCEPT ![w] = NoWork[w]]
                   /\ run' = [run EXCEPT !.outcome[i] = "checkpoint",
                                         !.cancelled = TRUE, !.poisoned = TRUE]
        /\ UNCHANGED <<frags, workDir, output, authority, source>>

\* The session stores the snapshot. (It would give up a larger boundary, or one
\* of another plan, first.)  A failure may come after the manifest is written.
commitFragmentCheckpoint(w) ==
    LET snapshot == snapshotForPrefix(worker[w].sequence)
    IN  /\ worker[w].pc = "callback"
        /\ worker' = [worker EXCEPT ![w] = NoWork[w]]
        /\ \/ /\ authority' = snapshot
              /\ run' = [run EXCEPT !.outcome[worker[w].index] = "downloaded",
                                    !.notified = worker[w].sequence, !.stale = TRUE]
              /\ UNCHANGED slack
           \/ /\ use("errors")
              /\ authority' \in {authority, snapshot}
              /\ run' = [run EXCEPT !.outcome[worker[w].index] = "failed",
                                    !.cancelled = TRUE, !.callbackErr = TRUE,
                                    !.stale = run.stale \/ authority' # authority]
        /\ UNCHANGED <<files, output, source>>

outcomes == {run.outcome[i] : i \in Index}

\* deterministicOutcomeError: a checkpoint error comes before any other.
CollectOutcomes ==
    /\ run.pc = "work" /\ run.next > Segments
    /\ \A w \in Worker : worker[w].pc = "idle"
    /\ IF "checkpoint" \in outcomes THEN reconcile
       ELSE IF run.cancelled THEN leave
       ELSE enter("assemble")
    /\ UNCHANGED <<files, output, authority, source, slack>>

-----------------------------------------------------------------------------
(* assemble and cleanupCommittedCheckpoint. *)

AssemblePart ==
    /\ run.pc = "assemble"
    /\ \/ ~run.stopped /\ evidence' = evidence \cup {"assembled"} /\ enter("mark")
          /\ UNCHANGED slack
       \/ run.stopped /\ leave /\ UNCHANGED <<evidence, slack>>
       \/ use("errors") /\ leave /\ UNCHANGED evidence
    /\ UNCHANGED <<frags, ledger, workDir, output, authority, source>>

MarkPublication ==
    /\ run.pc = "mark"
    /\ \/ evidence' = evidence \cup {"publication"} /\ enter("publish") /\ UNCHANGED slack
       \/ use("errors") /\ evidence' = evidence \ {"assembled"} /\ leave
       \/ /\ use("errors") /\ reconcile
          /\ \E left \in SUBSET {"publication", "reconciliation"} :
                evidence' = evidence \cup left
    /\ UNCHANGED <<frags, ledger, workDir, output, authority, source>>

\* replaceAtomic moves the assembled file over the payload.
PublishAssembled ==
    /\ run.pc = "publish"
    /\ \/ /\ output' = frags /\ evidence' = evidence \ {"assembled"}
          /\ enter("clean") /\ UNCHANGED slack
       \/ use("errors") /\ reconcile /\ UNCHANGED <<output, evidence>>
       \/ /\ use("errors") /\ reconcile /\ output' = frags
          /\ \E marker \in SUBSET {"reconciliation"} :
                evidence' = (evidence \ {"assembled"}) \cup marker
    /\ UNCHANGED <<frags, ledger, workDir, authority, source>>

\* In the order of their names: fragments, then the ledger.
CleanArtifact ==
    /\ run.pc = "clean"
    /\ \/ /\ \E i \in present : /\ \A j \in present : i <= j
                                /\ frags' = [frags EXCEPT ![i] = "none"]
          /\ UNCHANGED ledger
       \/ present = {} /\ ledger.exists /\ ledger' = NoLedger /\ UNCHANGED frags
    /\ UNCHANGED <<evidence, workDir, output, authority, source, run, worker, slack>>

\* The directory goes if it can; then downloadedPayload has the last word.
CleanMarker ==
    /\ run.pc = "clean" /\ present = {} /\ ~ledger.exists
    /\ evidence' = evidence \ {"publication"}
    /\ workDir' \in BOOLEAN
    /\ IF authority.sequence = Segments THEN enter("complete") ELSE leave
    /\ UNCHANGED <<frags, ledger, output, authority, source, slack>>

-----------------------------------------------------------------------------
(* The surroundings. *)

\* An atomic write that a crash cuts short leaves its temporary file.
writing ==
    \/ run.pc = "mark" \/ (run.pc = "open" /\ workDir)
    \/ \E w \in Worker : worker[w].pc \in {"fetch", "record"}

\* The process dies, or the file system fails during a reset or a cleanup.
RunLost ==
    /\ run.pc \notin {"down", "complete"}
    /\ use("losses")
    /\ evidence' \in {evidence} \cup (IF writing THEN {evidence \cup {"atomic"}} ELSE {})
    /\ leave
    /\ UNCHANGED <<frags, ledger, workDir, output, authority, source>>

\* The caller's context ends, and the workers' with it.
StopRun ==
    /\ run.pc \in {"work", "assemble"} /\ ~run.stopped
    /\ use("stops")
    /\ run' = [run EXCEPT !.stopped = TRUE, !.cancelled = TRUE]
    /\ UNCHANGED <<files, output, authority, source, worker>>

SourceChanges ==
    /\ run.pc # "complete"
    /\ use("refreshes")
    /\ source' \in Version \ {source}
    /\ UNCHANGED <<files, output, authority, run, worker>>

\* The session goes on with the payload.
TransferDone == run.pc = "complete" /\ UNCHANGED fragmentVars

workerStep(w) ==
    \/ Feed(w) \/ reusableScaled(w) \/ AcquireHost(w) \/ WorkerCancelled(w)
    \/ fetchWithRetry(w) \/ RecordScaled(w) \/ commitFragmentCheckpoint(w)

FragmentStep ==
    \/ RevokeAuthority \/ ErasePayload \/ EraseEntry \/ EraseDirectory
    \/ ReconcileBoundary \/ CreateWorkDirectory \/ openArtifactManifest
    \/ writeInitialState \/ FeederStops \/ (\E w \in Worker : workerStep(w))
    \/ CollectOutcomes \/ AssemblePart \/ MarkPublication \/ PublishAssembled
    \/ CleanArtifact \/ CleanMarker

FragmentNext ==
    downloadFragmented \/ FragmentStep \/ RunLost \/ StopRun \/ SourceChanges \/ TransferDone

FragmentSpec == FragmentInit /\ [][FragmentNext]_fragmentVars

-----------------------------------------------------------------------------
(* Properties. *)

Held == Version \cup {"none"}

\* Everything has the shape the code gives it, no worker works without a run,
\* the limiter admits no more than it may, and files only live in a directory.
FragmentTypeOK ==
    /\ {frags, output, authority.artifacts, ledger.artifacts} \subseteq [Index -> Held]
    /\ evidence \subseteq {"assembled", "publication", "reconciliation", "atomic"}
    /\ ~workDir => empty
    /\ run.next \in 1 .. Segments + 1 /\ run.notified \in 0 .. Segments
    /\ (\E w \in Worker : worker[w].pc # "idle") => run.pc = "work"
    /\ Cardinality({w \in Worker : worker[w].pc = "fetch"}) <= HostLimit
    /\ \A kind \in DOMAIN slack : slack[kind] \in Nat

\* The payload a session goes on with is made of the fragments of one version:
\* fragments kept from an earlier extraction are only joined by new ones when
\* their recorded proof says that they are the same bytes.
PayloadIsOneVersion ==
    run.pc = "complete" => \E v \in Version : output = [i \in Index |-> v]

\* The boundary of the manifest is backed: as long as there is a ledger, and no
\* publication under way has begun to take it apart, the ledger and the files
\* hold exactly the fragments the boundary names.  The ledger is written before
\* the callback, and a reset revokes the boundary before it deletes.
AuthorityIsBacked ==
    ledger.exists /\ "publication" \notin evidence =>
        \A i \in 1 .. authority.sequence :
            frags[i] = authority.artifacts[i] /\ ledger.artifacts[i] = frags[i]

\* The boundary is only ever extended, by fragments that follow it, or revoked
\* as a whole, although workers finish in any order: callbacks come in the order
\* of the ledger because the mutex is held across both.
AuthorityGrows ==
    [][authority' = NoAuthority
       \/ (authority.sequence <= authority'.sequence
           /\ upTo(authority'.artifacts, authority.sequence) = authority.artifacts)]_authority

\* The comment on CoordinatorBoundary: "a ledger commit that crashed before
\* OnCommit can never become reusable local-ahead authority".
OnlyAuthorizedIsReused ==
    [][\A i \in Index :
            run.outcome[i] # "reused" /\ run'.outcome[i] = "reused" =>
                i <= authority.sequence]_run

\* A transfer that was begun completes when the session is run again: whatever a crash, an
\* error or a cancellation left behind, reconcileResumeBoundary continues from
\* it or the session's reset removes it, and no worker waits for ever.
FragmentsComplete == (run.pc # "down") ~> (run.pc = "complete")
=============================================================================
