---------------------------- MODULE ArchiveStore ----------------------------
(***************************************************************************)
(* The download archive (internal/archive): a file of records that several *)
(* processes update under a lock directory.  Record and Migrate hold the   *)
(* lock, Match only reads.  A lock that nobody released is broken once it  *)
(* is old.  Each process performs one operation and may crash in it.       *)
(*                                                                         *)
(*   archive  the records of the file and which file it is, 0 for none     *)
(*   lock     the lock directory: who made it, whose token its owner file  *)
(*            holds ("none" before it is written), whether it is old       *)
(*   proc     the operation of each process                                *)
(*   budget   crashes and failures still to come                           *)
(***************************************************************************)
EXTENDS Integers, FiniteSets

CONSTANTS
    Process,
    Record,          \* the identities, canonical and legacy
    Canonical,       \* what Migrate replaces a record by
    MaxCrashes, MaxFailures

ASSUME RecordAssumption == Canonical \in [Record -> Record]

ASSUME ArchiveBudgetAssumption ==
    MaxCrashes \in Nat /\ MaxFailures \in Nat

ASSUME NobodyIsNamedNone == "none" \notin Process

VARIABLES archive, lock, proc, budget

vars == <<archive, lock, proc, budget>>

Operation == {"record", "migrate", "match"}

NoLock == [maker |-> "none", owner |-> "none", old |-> FALSE]

\* pc follows the code; result is what the operation returned.
PC == {"begin", "own", "stat", "judge", "rename", "read", "write", "check",
       "remove", "open", "done", "crashed"}

Result == {"unset", "true", "false", "error"}

\* Every value has its type, and an operation has an answer exactly from the
\* point on where it only gives the lock back.
TypeOK ==
    /\ archive \in [records : SUBSET Record, version : Nat]
    /\ lock \in [maker : Process \cup {"none"}, owner : Process \cup {"none"},
                 old : BOOLEAN]
    /\ proc \in [Process -> [op : Operation, record : Record, pc : PC,
                             old : BOOLEAN, seen : SUBSET Record,
                             version : Nat, result : Result]]
    /\ \A p \in Process :
          /\ proc[p].pc \in {"check", "remove", "done"} => proc[p].result # "unset"
          /\ proc[p].result # "unset" =>
                proc[p].pc \in {"check", "remove", "done", "crashed"}
    /\ budget \in [crashes : Nat, failures : Nat]

Begin(op, r) ==
    [op |-> op, record |-> r, pc |-> IF op = "match" THEN "read" ELSE "begin",
     old |-> FALSE, seen |-> {}, version |-> 0, result |-> "unset"]

Init ==
    /\ archive \in [records : SUBSET Record, version : {1}]
                   \cup {[records |-> {}, version |-> 0]}
    /\ lock = NoLock
    /\ proc \in [Process -> {Begin(op, r) : op \in Operation, r \in Record}]
    /\ budget = [crashes |-> MaxCrashes, failures |-> MaxFailures]

-----------------------------------------------------------------------------
(* Building blocks. *)

locked == lock.maker # "none"

at(p, pc) == proc[p].pc = pc

set(p, fields) ==
    proc' = [proc EXCEPT ![p] = [f \in DOMAIN proc[p] |->
                IF f \in DOMAIN fields THEN fields[f] ELSE proc[p][f]]]

goto(p, pc) == set(p, [pc |-> pc])

return(p, result) == set(p, [pc |-> "done", result |-> result])

fail == budget.failures > 0 /\ budget' = [budget EXCEPT !.failures = @ - 1]

-----------------------------------------------------------------------------
(* lock *)

\* Mutant: a directory that exists already is taken over.
Mkdir_TakesOver(p) ==
    /\ at(p, "begin")
    /\ lock' = [maker |-> p, owner |-> "none", old |-> FALSE]
    /\ goto(p, "own")
    /\ UNCHANGED <<archive, budget>>

\* The context may have ended, or the directory cannot be made.
Mkdir(p) ==
    /\ at(p, "begin")
    /\ \/ locked /\ goto(p, "stat") /\ UNCHANGED <<lock, budget>>
       \/ /\ ~locked
          /\ lock' = [maker |-> p, owner |-> "none", old |-> FALSE]
          /\ goto(p, "own")
          /\ UNCHANGED budget
       \/ fail /\ return(p, "error") /\ UNCHANGED lock
    /\ UNCHANGED archive

\* The owner file goes into whatever directory has the name by now; when it
\* cannot be written, whatever has the name is removed.
WriteOwner(p) ==
    /\ at(p, "own")
    /\ \/ /\ locked
          /\ lock' = [lock EXCEPT !.owner = p, !.old = FALSE]
          /\ goto(p, "read")
          /\ UNCHANGED budget
       \/ /\ IF locked THEN fail ELSE UNCHANGED budget
          /\ lock' = NoLock
          /\ return(p, "error")
    /\ UNCHANGED archive

\* The time of the directory is taken first, it counts when there is no owner.
Stat(p) ==
    /\ at(p, "stat")
    /\ IF locked THEN set(p, [pc |-> "judge", old |-> lock.old])
                 ELSE goto(p, "begin")
    /\ UNCHANGED <<archive, lock, budget>>

\* Mutant: an old lock is waited for.
Judge_Waits(p) ==
    /\ at(p, "judge")
    /\ goto(p, "begin")
    /\ UNCHANGED <<archive, lock, budget>>

\* lockIsStale, then a poll or the end of the context.
Judge(p) ==
    /\ at(p, "judge")
    /\ LET stale == IF locked /\ lock.owner # "none" THEN lock.old ELSE proc[p].old
       IN  IF stale THEN goto(p, "rename") /\ UNCHANGED budget
           ELSE \/ goto(p, "begin") /\ UNCHANGED budget
                \/ fail /\ return(p, "error")
    /\ UNCHANGED <<archive, lock>>

\* The directory that has the name now is moved away and deleted.
Rename(p) ==
    /\ at(p, "rename")
    /\ lock' = NoLock
    /\ goto(p, "begin")
    /\ UNCHANGED <<archive, budget>>

-----------------------------------------------------------------------------
(* Record, Migrate and Match *)

\* read looks at the name before it opens it.
Read(p) ==
    /\ at(p, "read")
    /\ set(p, [pc |-> "open", version |-> archive.version])
    /\ UNCHANGED <<archive, lock, budget>>

found(p) == proc[p].record \in archive.records

\* Match also looks for the legacy forms of the identity.
matched(p) ==
    \E r \in archive.records : proc[p].record \in {r, Canonical[r]}

\* Mutant: legacy records are dropped instead of replaced.
migrated_Drops == {r \in archive.records : Canonical[r] = r}

\* Records are a set here: that Migrate also drops repeated lines is left out.
migrated == {Canonical[r] : r \in archive.records}

isMigrated == \A r \in archive.records : Canonical[r] = r

\* Match has no lock to release.
after(p) == IF proc[p].op = "match" THEN "done" ELSE "check"

replaced(p) == proc[p].version \notin {0, archive.version}

\* What the operation does with the records it has read.
decide(p) ==
    CASE proc[p].op = "match" ->
           [pc |-> "done", result |-> IF matched(p) THEN "true" ELSE "false"]
      [] proc[p].op = "record" /\ ~found(p) ->
           [pc |-> "write", seen |-> archive.records \cup {proc[p].record}]
      [] proc[p].op = "migrate" /\ ~isMigrated ->
           [pc |-> "write", seen |-> migrated]
      [] OTHER -> [pc |-> "check", result |-> "false"]

\* A file that was replaced in between is refused; reading may also fail.
Open(p) ==
    /\ at(p, "open")
    /\ \/ ~replaced(p) /\ set(p, decide(p)) /\ UNCHANGED budget
       \/ /\ IF replaced(p) THEN UNCHANGED budget ELSE fail
          /\ set(p, [pc |-> after(p), result |-> "error"])
    /\ UNCHANGED <<archive, lock>>

\* The new file replaces the old one; until then nothing has happened.
Write(p) ==
    /\ at(p, "write")
    /\ \/ /\ archive' = [records |-> proc[p].seen, version |-> archive.version + 1]
          /\ set(p, [pc |-> "check", result |-> "true"])
          /\ UNCHANGED budget
       \/ /\ fail
          /\ set(p, [pc |-> "check", result |-> "error"])
          /\ UNCHANGED archive
    /\ UNCHANGED lock

\* releaseLock reads the owner and then removes the directory.
CheckOwner(p) ==
    /\ at(p, "check")
    /\ goto(p, IF lock.owner = p THEN "remove" ELSE "done")
    /\ UNCHANGED <<archive, lock, budget>>

RemoveLock(p) ==
    /\ at(p, "remove")
    /\ lock' = NoLock
    /\ goto(p, "done")
    /\ UNCHANGED <<archive, budget>>

-----------------------------------------------------------------------------
(* The surroundings. *)

Crash(p) ==
    /\ proc[p].pc \notin {"done", "crashed"}
    /\ budget.crashes > 0
    /\ budget' = [budget EXCEPT !.crashes = @ - 1]
    /\ goto(p, "crashed")
    /\ UNCHANGED <<archive, lock>>

\* StaleLockAfter has passed since the lock was taken.  An operation that lives
\* is assumed to be done by then.
Age ==
    /\ locked /\ ~lock.old
    /\ at(lock.maker, "crashed")
    /\ lock' = [lock EXCEPT !.old = TRUE]
    /\ UNCHANGED <<archive, proc, budget>>

Done ==
    /\ \A p \in Process : proc[p].pc \in {"done", "crashed"}
    /\ UNCHANGED vars

Step(p) ==
    \/ Mkdir(p) \/ WriteOwner(p) \/ Stat(p) \/ Judge(p) \/ Rename(p)
    \/ Read(p) \/ Open(p) \/ Write(p) \/ CheckOwner(p) \/ RemoveLock(p)

Next == (\E p \in Process : Step(p) \/ Crash(p)) \/ Age \/ Done

Spec == Init /\ [][Next]_vars

\* A process that lives goes on, and time passes.
FairSpec == Spec /\ WF_vars(Age) /\ \A p \in Process : WF_vars(Step(p))

-----------------------------------------------------------------------------
(* Properties. *)

inSection(p) ==
    proc[p].op # "match" /\ proc[p].pc \in {"read", "open", "write"}

\* The lock directory excludes: between its read and its write a Record or
\* Migrate is alone, also when it is the one waiter that broke a dead one's lock.
OneHolder ==
    \A p, q \in Process : inSection(p) /\ inSection(q) => p = q

\* What Record has answered true for stays in the archive, as it is or as the
\* identity Migrate replaces it by: no update is lost.
AcknowledgedStays ==
    \A p \in Process : proc[p].op = "record" /\ proc[p].result = "true" =>
        \/ proc[p].record \in archive.records
        \/ Canonical[proc[p].record] \in archive.records

\* Of several calls of Record with one canonical identity one answers true.
RecordedOnce ==
    \A p, q \in Process :
        /\ proc[p].op = "record" /\ proc[p].result = "true"
        /\ proc[q].op = "record" /\ proc[q].result = "true"
        /\ proc[p].record = proc[q].record
        /\ Canonical[proc[p].record] = proc[p].record
        => p = q

\* Every operation ends, also when a process died with the lock: the lock is
\* broken once it is old (lockIsStale and the rename in lock).
OperationsEnd == \A p \in Process : <>(proc[p].pc \in {"done", "crashed"})

\* The comment on Record: "Record atomically adds identity. It returns false if
\* another operation or process has already recorded it."
RecordIsAtomic == AcknowledgedStays /\ RecordedOnce
=============================================================================
