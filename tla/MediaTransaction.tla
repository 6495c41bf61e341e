-------------------------- MODULE MediaTransaction --------------------------
(* The transaction around the files of one downloaded entry                  *)
(* (multioutput_transaction.go), driven through the stages of every output   *)
(* plan (output_lifecycle.go) by processMedia (client.go).                   *)
(*                                                                           *)
(* A file that is about to be overwritten is renamed to a backup, one that   *)
(* is about to be appended to or removed is copied to a backup. An entry     *)
(* that fails puts the backups back and removes what it made; one that       *)
(* succeeds removes the backups and is then recorded in the archive. The     *)
(* contents of a file are what tells its origin: old (there before the       *)
(* entry), more (old with lines appended), new. The request overwrites; one  *)
(* that does not fails where it finds a file, which any stage here may do.   *)
EXTENDS Integers, Sequences

LOCAL INSTANCE SequencesExt

CONSTANTS MaxPlans, MaxMediaFaults

ASSUME MediaBounds == MaxPlans \in {1, 2} /\ MaxMediaFaults \in Nat

VARIABLES
    before,      \* what the entry found
    request,     \* the plans of the entry and what it asks of them
    tx,          \* the files, the backups and the transaction's slots
    entry,       \* how far the entry is
    archived,    \* the entry is in the archive
    mediaFaults  \* failures of rollback and commit so far

mediaVars == <<before, request, tx, entry, archived, mediaFaults>>

Plan == 1 .. MaxPlans

Media(k) == <<"m1", "m2">>[k]

\* Where a postprocessor puts what it makes of a plan's media.
Derived(k) == <<"d1", "d2">>[k]

\* The print file, the thumbnail and the subtitle (as downloaded, as converted)
\* belong to the entry: every plan writes the same ones.
File == {"log", "thumb", "sub", "vtt"} \cup {Media(k) : k \in Plan} \cup {Derived(k) : k \in Plan}

Content == {"none", "old", "more", "new"}

Slot == [destination : File, backup : Content, published : BOOLEAN, removed : BOOLEAN]

Phases == <<"print", "thumbnail", "print", "subtitle", "convert", "protect",
            "download", "process", "embed", "after-print">>

(* The transaction and the entry have the shape the code gives them, and a   *)
(* slot's backup, while the slot lasts, is a file on disk.                   *)
MediaTypeOK ==
    /\ before \in [File -> {"none", "old"}]
    /\ tx.files \in [File -> Content]
    /\ tx.aside \subseteq File \X {"old", "more", "new"}
    /\ \A i \in DOMAIN tx.destinations : tx.destinations[i] \in Slot
    /\ \A i \in DOMAIN tx.artifacts : tx.artifacts[i] \in Slot
    /\ \A i \in DOMAIN tx.artifacts :
            LET s == tx.artifacts[i] IN s.backup # "none" => <<s.destination, s.backup>> \in tx.aside
    /\ tx.acquired \in BOOLEAN /\ archived \in BOOLEAN
    /\ entry.pc \in {"pre", "acquire", "stages", "rollback", "commit", "archive",
                     "done", "failed", "stranded", "uncommitted"}
    /\ entry.plan \in 1 .. MaxPlans + 1 /\ entry.stage \in 1 .. Len(Phases)
    /\ mediaFaults \in 0 .. MaxMediaFaults

-----------------------------------------------------------------------------
(* The transaction's operations, on a value t of tx.                         *)

slot(path, backup, removed) ==
    [destination |-> path, backup |-> backup, published |-> FALSE, removed |-> removed]

hasPath(t, path) ==
    \/ \E i \in DOMAIN t.destinations : t.destinations[i].destination = path
    \/ \E i \in DOMAIN t.artifacts : t.artifacts[i].destination = path

\* The backup of a file that may not exist.
kept(t, path) == IF t.files[path] = "none" THEN {} ELSE {<<path, t.files[path]>>}

backupExistingRegularFile(t, path) ==
    [t EXCEPT !.aside = @ \cup kept(t, path), !.files[path] = "none"]

copyExistingToBackup(t, path) == [t EXCEPT !.aside = @ \cup kept(t, path)]

protectPath(t, path) ==
    IF hasPath(t, path) THEN t
    ELSE [backupExistingRegularFile(t, path) EXCEPT
            !.artifacts = Append(@, slot(path, t.files[path], FALSE))]

protectAppendPath(t, path) ==
    IF hasPath(t, path) THEN t
    ELSE [copyExistingToBackup(t, path) EXCEPT
            !.artifacts = Append(@, slot(path, t.files[path], FALSE))]

\* A path that has an artifact slot keeps it, and the backup it has.
snapshotRemovedPath(t, path) ==
    LET known == {i \in DOMAIN t.artifacts : t.artifacts[i].destination = path}
        had(i) == t.artifacts[i].backup # "none" IN
    IF known = {}
        THEN [copyExistingToBackup(t, path) EXCEPT
                !.artifacts = Append(@, slot(path, t.files[path], TRUE))]
        ELSE LET i == CHOOSE i \in known : TRUE
                 b == IF had(i) THEN t.artifacts[i].backup ELSE t.files[path] IN
             [t EXCEPT !.artifacts[i].removed = TRUE, !.artifacts[i].backup = b,
                       !.aside = @ \cup IF had(i) THEN {} ELSE kept(t, path)]

acquireDestination(t, path) ==
    IF hasPath(t, path) THEN t
    ELSE [backupExistingRegularFile(t, path) EXCEPT
            !.destinations = Append(@, slot(path, t.files[path], FALSE))]

markPublished(t, path) ==
    [t EXCEPT !.destinations = [i \in DOMAIN @ |->
        IF @[i].destination = path THEN [@[i] EXCEPT !.published = TRUE] ELSE @[i]]]

write(t, path, content) == [t EXCEPT !.files[path] = content]

-----------------------------------------------------------------------------
(* Rollback and commit. A slot on which the filesystem fails is passed over; *)
(* "stuck" leaves its file alone, "torn" has removed it before failing.      *)

restoreMediaDestination(t, s) ==
    [t EXCEPT !.files[s.destination] = s.backup, !.aside = @ \ {<<s.destination, s.backup>>}]

rollbackDestinationSlot(t, s) ==
    CASE s.backup # "none" -> restoreMediaDestination(t, s)
      [] s.backup = "none" /\ s.published -> write(t, s.destination, "none")
      [] OTHER -> t


rollbackArtifactSlot(t, s) ==
    CASE s.backup # "none" -> restoreMediaDestination(t, s)
      [] s.backup = "none" /\ ~s.removed -> write(t, s.destination, "none")
      [] OTHER -> t

\* What rolling back one slot may come to when it is the one that fails.
failing(t, s, how) == IF how = "torn" THEN write(t, s.destination, "none") ELSE t

indices(slots) == [i \in DOMAIN slots |-> i]

rollbackArtifacts(t, bad, how) ==
    LET undo(u, i) == IF i = bad THEN failing(u, t.artifacts[i], how)
                                 ELSE rollbackArtifactSlot(u, t.artifacts[i]) IN
    [FoldLeft(undo, t, indices(t.artifacts)) EXCEPT !.artifacts = <<>>]

\* The artifacts first, then the media destinations: a snapshot of published
\* media is put back before the media is removed or replaced by its backup.
rollback(t, bad, how) ==
    LET undo(u, i) == IF i + Len(t.artifacts) = bad
                      THEN failing(u, t.destinations[i], how)
                      ELSE rollbackDestinationSlot(u, t.destinations[i]) IN
    [FoldLeft(undo, rollbackArtifacts(t, bad, how), indices(t.destinations))
        EXCEPT !.destinations = <<>>, !.acquired = FALSE]

rollbackTransaction(t, bad, how) ==
    IF t.acquired THEN rollback(t, bad, how) ELSE rollbackArtifacts(t, bad, how)

\* Mutant: the backups of the sidecars stay.
commit_Media(t) ==
    LET gone == {<<s.destination, s.backup>> : s \in ToSet(t.destinations)} IN
    [t EXCEPT !.aside = @ \ gone, !.destinations = <<>>, !.artifacts = <<>>, !.acquired = FALSE]

commit(t) ==
    LET gone == {<<s.destination, s.backup>> : s \in ToSet(t.destinations \o t.artifacts)} IN
    [t EXCEPT !.aside = @ \ gone, !.destinations = <<>>, !.artifacts = <<>>, !.acquired = FALSE]

-----------------------------------------------------------------------------
(* The stages of a plan. Each is the sequence of values tx goes through, so  *)
(* that a failure can leave any of them behind.                              *)

appended(content) == IF content \in {"old", "more"} THEN "more" ELSE "new"

writePrintFiles(t) ==
    LET u == protectAppendPath(t, "log") IN <<u, write(u, "log", appended(u.files["log"]))>>

writeSidecar(t, path) ==
    LET u == protectPath(t, path) IN <<u, write(u, path, "new")>>

convertSubtitles(t) ==
    LET u == writeSidecar(t, "vtt")
        v == snapshotRemovedPath(u[2], "sub") IN
    u \o <<v, write(v, "sub", "none")>>

downloadMedia(t, k) ==
    LET u == write(t, Media(k), "new") IN <<u, markPublished(u, Media(k))>>

applyPostprocessors(t, k) ==
    LET u == write(t, Derived(k), "new")
        v == snapshotRemovedPath(u, Media(k)) IN
    <<u, v, write(v, Media(k), "none")>>

\* The stages that rewrite the media in place snapshot it first.
embed(t, k) ==
    <<snapshotRemovedPath(t, IF request.processes THEN Derived(k) ELSE Media(k))>>

course(t, k, stage) ==
    CASE stage \in {"print", "after-print"} -> writePrintFiles(t)
      [] stage = "thumbnail" -> writeSidecar(t, "thumb")
      [] stage = "subtitle" -> writeSidecar(t, "sub")
      [] stage = "convert" /\ request.converts -> convertSubtitles(t)
      [] stage = "protect" /\ request.processes -> <<protectPath(t, Derived(k))>>
      [] stage = "download" -> downloadMedia(t, k)
      [] stage = "process" /\ request.processes -> applyPostprocessors(t, k)
      [] stage = "embed" /\ request.embeds -> embed(t, k)
      [] OTHER -> <<t>>

-----------------------------------------------------------------------------
(* processMedia.                                                             *)

\* The files the request can have something to do with.
Touched ==
    {"log", "thumb", "sub"} \cup {Media(k) : k \in 1 .. request.plans}
    \cup {f \in {"vtt"} : request.converts}
    \cup {Derived(k) : k \in {j \in 1 .. request.plans : request.processes}}

MediaInit ==
    /\ request \in [plans : Plan, converts : BOOLEAN, processes : BOOLEAN, embeds : BOOLEAN]
    /\ before \in [File -> {"none", "old"}]
    /\ \A path \in File \ Touched : before[path] = "none"
    /\ tx = [files |-> before, aside |-> {}, destinations |-> <<>>, artifacts |-> <<>>,
             acquired |-> FALSE]
    /\ entry = [pc |-> "pre", plan |-> 1, stage |-> 1, clean |-> FALSE]
    /\ archived = FALSE
    /\ mediaFaults = 0

\* The filesystem fails while the transaction ends. What makes a plan fail is
\* not counted: it happens once.
fails == mediaFaults < MaxMediaFaults /\ mediaFaults' = mediaFaults + 1

moves(pc) == entry' = [entry EXCEPT !.pc = pc]

\* The slot that fails when the transaction is undone, at most one (0: none).
BadSlot == 0 .. Len(tx.artifacts) + Len(tx.destinations)

rolledBack(bad) ==
    /\ entry' = [entry EXCEPT !.pc = "failed", !.clean = bad = 0]
    /\ IF bad = 0 THEN UNCHANGED mediaFaults ELSE fails

\* The print files of the first two stages come before any plan.
PrePrint ==
    /\ entry.pc = "pre"
    /\ \/ tx' = Last(writePrintFiles(tx)) /\ moves("acquire")
       \/ tx' \in ToSet(<<tx>> \o writePrintFiles(tx)) /\ moves("rollback")
    /\ UNCHANGED <<before, request, archived, mediaFaults>>

Acquire ==
    LET t == acquireDestination(tx, Media(entry.plan))
        last == entry.plan = request.plans IN
    /\ entry.pc = "acquire"
    /\ tx' = [t EXCEPT !.acquired = last]
    /\ entry' = [entry EXCEPT !.pc = IF last THEN "stages" ELSE "acquire",
                              !.plan = IF last THEN 1 ELSE @ + 1]
    /\ UNCHANGED <<before, request, archived, mediaFaults>>

\* acquireDestinationBackups undoes the backups it has made.
AcquireFails ==
    /\ entry.pc = "acquire"
    /\ \E bad \in BadSlot, how \in {"stuck", "torn"} :
        tx' = rollback(tx, bad, how) /\ rolledBack(bad)
    /\ UNCHANGED <<before, request, archived>>

RunStage ==
    LET lastStage == entry.stage = Len(Phases)
        lastPlan  == entry.plan = request.plans IN
    /\ entry.pc = "stages"
    /\ tx' = Last(course(tx, entry.plan, Phases[entry.stage]))
    /\ entry' = [entry EXCEPT !.pc = IF lastStage /\ lastPlan THEN "commit" ELSE @,
                              !.stage = IF lastStage THEN 1 ELSE @ + 1,
                              !.plan = IF lastStage THEN @ + 1 ELSE @]
    /\ UNCHANGED <<before, request, archived, mediaFaults>>

\* A print stage before the download returns its error as it is; only an entry
\* of several plans is then rolled back by processMedia.
StageFails ==
    LET stage == Phases[entry.stage] IN
    /\ entry.pc = "stages"
    /\ tx' \in ToSet(<<tx>> \o course(tx, entry.plan, stage))
    /\ moves(IF stage = "print" /\ request.plans = 1 THEN "stranded" ELSE "rollback")
    /\ UNCHANGED <<before, request, archived, mediaFaults>>

RollbackEntry ==
    /\ entry.pc = "rollback"
    /\ \E bad \in BadSlot, how \in {"stuck", "torn"} :
        tx' = rollbackTransaction(tx, bad, how) /\ rolledBack(bad)
    /\ UNCHANGED <<before, request, archived>>

Commit ==
    /\ entry.pc = "commit"
    /\ tx' = commit(tx) /\ moves("archive")
    /\ UNCHANGED <<before, request, archived, mediaFaults>>

\* A backup that cannot be removed keeps its slot, and nothing is rolled back.
CommitFails ==
    /\ entry.pc = "commit" /\ fails
    /\ \E left \in tx.aside : tx' = [commit(tx) EXCEPT !.aside = @ \cup {left}]
    /\ moves("uncommitted")
    /\ UNCHANGED <<before, request, archived>>

RecordArchive ==
    /\ entry.pc = "archive"
    /\ archived' \in {TRUE, FALSE}
    /\ moves("done")
    /\ UNCHANGED <<before, request, tx, mediaFaults>>

MediaNext ==
    \/ PrePrint \/ Acquire \/ AcquireFails \/ RunStage \/ StageFails
    \/ RollbackEntry \/ Commit \/ CommitFails \/ RecordArchive

MediaSpec == MediaInit /\ [][MediaNext]_mediaVars

-----------------------------------------------------------------------------
(* Properties.                                                               *)

(* Until every plan has succeeded, what the entry found at a path is still   *)
(* at that path or in a backup beside it: no sequence of overwriting,        *)
(* appending, removing, failing and half-failed rolling back, nor a crash in *)
(* between, destroys a file that was there before the entry.                 *)
OldContentIsKept ==
    entry.pc \notin {"commit", "archive", "done", "uncommitted"} =>
        \A path \in File :
            before[path] = "old" =>
                tx.files[path] \in {"old", "more"} \/ <<path, "old">> \in tx.aside


(* What the archive records is complete: the final file of every plan is     *)
(* there, new, and no backup of what it replaced is left.                    *)
ArchivedIsComplete ==
    archived =>
        /\ tx.aside = {}
        /\ \A k \in 1 .. request.plans :
                tx.files[IF request.processes THEN Derived(k) ELSE Media(k)] = "new"

(* On a download failure rollback removes new artifacts: a sidecar that the  *)
(* entry did not find is not there when its download has failed.             *)
RollbackRemovesNew ==
    entry.pc = "failed" /\ entry.clean /\ Phases[entry.stage] = "download" =>
        \A path \in {"log", "thumb", "sub", "vtt"} :
            before[path] = "none" => tx.files[path] = "none"

=============================================================================
