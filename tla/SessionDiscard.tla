--------------------------- MODULE SessionDiscard ---------------------------
(* How a session workspace is discarded while other processes create, open   *)
(* and discard the same session: maintenance.go, with the parts of           *)
(* workspace.go and lease.go that it races against.                          *)
(*                                                                           *)
(* One session identifier owns three directory names: its workspace          *)
(* (original), the quarantine its workspace is renamed to, and a guard. The  *)
(* identity of a directory (device and inode in the code) is an incarnation  *)
(* number: a workspace created again under the same name is another          *)
(* incarnation. A lease is a native lock on an open file, so a file that was *)
(* removed can still be locked by whoever opened it earlier; lease files     *)
(* therefore have identities of their own.                                   *)
EXTENDS Integers, FiniteSets

CONSTANTS Process, Collector, MaxIncarnations, MaxDiscards, MaxDiscardFaults

ASSUME DiscardBounds ==
    /\ IsFiniteSet(Process) /\ Collector \in Process
    /\ MaxDiscards \in Nat
    /\ MaxIncarnations \in Nat \ {0}
    /\ MaxDiscardFaults \in Nat

VARIABLES
    place,         \* which incarnation the two workspace names lead to, 0 for none
    tree,          \* what each incarnation's directory holds
    guard,         \* the guard directory
    actor,         \* what each process is doing, and the locks it holds
    made,          \* how many incarnations were created
    asked,         \* discards that processes other than the collector asked for
    discardFaults  \* failures, crashes and abandoned handles so far

discardVars == <<place, tree, guard, actor, made, asked, discardFaults>>

Incarnation == 1 .. MaxIncarnations

Path == {"original", "quarantine"}

\* Every open handle and every lease file that exists at one time.
LeaseFile == 1 .. (2 * Cardinality(Process) + MaxIncarnations + 1)

NoTree == [lease |-> 0, manifest |-> "none", evidence |-> FALSE, marker |-> 0]

NoGuard == [present |-> FALSE, lease |-> 0, record |-> 0, evidence |-> FALSE]

Resting == [pc |-> "rest", path |-> "none", target |-> 0, record |-> 0,
            seen |-> 0, lease |-> 0, guard |-> 0, holds |-> {}]

Steps == {"rest", "open", "open-lock", "open-read", "owner", "create",
          "create-lock", "create-write", "target", "target-lock", "target-read",
          "guard", "guard-lock", "guard-record", "relock", "prepared", "marked",
          "unleased", "children", "lease", "marker", "rmdir", "close-guard",
          "guard-file", "guard-lease", "guard-dir"}

(* The names lead to incarnations, each directory holds what its files can   *)
(* say, and a lock is held by at most one process.                           *)
DiscardTypeOK ==
    /\ place \in [Path -> 0 .. MaxIncarnations]
    /\ tree \in [Incarnation ->
            [lease : LeaseFile \cup {0}, manifest : {"none", "fine", "unsettled"},
             evidence : BOOLEAN, marker : 0 .. MaxIncarnations]]
    /\ guard \in [present : BOOLEAN, lease : LeaseFile \cup {0},
                  record : 0 .. MaxIncarnations, evidence : BOOLEAN]
    /\ \A p \in Process :
            /\ actor[p].pc \in Steps
            /\ actor[p].path \in Path \cup {"none"}
            /\ actor[p].holds \subseteq LeaseFile
    /\ \A p, q \in Process : p # q => actor[p].holds \cap actor[q].holds = {}
    /\ made \in 0 .. MaxIncarnations
    /\ asked \in 0 .. MaxDiscards
    /\ discardFaults \in 0 .. MaxDiscardFaults

DiscardInit ==
    /\ place = [n \in Path |-> 0]
    /\ tree = [n \in Incarnation |-> NoTree]
    /\ guard = NoGuard
    /\ actor = [p \in Process |-> Resting]
    /\ made = 0
    /\ asked = 0
    /\ discardFaults = 0

-----------------------------------------------------------------------------
(* Leases.                                                                   *)

at(p, pc) == actor[p].pc = pc

goes(p, record) == actor' = [actor EXCEPT ![p] = record]

\* Every return that closes what the process holds.
rests(p) == goes(p, Resting)

Locked(file) == \E p \in Process : file \in actor[p].holds

FreshFile ==
    CHOOSE f \in LeaseFile :
        /\ f # guard.lease
        /\ \A n \in Incarnation : tree[n].lease # f
        /\ \A p \in Process : f \notin {actor[p].lease, actor[p].guard}

\* The directory a name leads to, an empty one if it leads nowhere.
directory(path) == IF place[path] = 0 THEN NoTree ELSE tree[place[path]]

\* The lease file found at a workspace name is opened; the lock comes later.
opensLease(p, next) ==
    /\ directory(actor[p].path).lease # 0
    /\ goes(p, [actor[p] EXCEPT !.pc = next,
                                !.lease = directory(actor[p].path).lease])

\* Mutant: the lock of another process is not noticed.
locks_Shared(p, file, next) ==
    goes(p, [actor[p] EXCEPT !.pc = next, !.holds = @ \cup {file}])

\* tryNativeLock never waits: a lock that is held fails the whole operation.
locks(p, file, next) ==
    \/ Locked(file) /\ rests(p)
    \/ ~Locked(file) /\ goes(p, [actor[p] EXCEPT !.pc = next, !.holds = @ \cup {file}])

-----------------------------------------------------------------------------
(* Opening and creating a workspace.                                         *)

Open(p) ==
    /\ at(p, "rest") /\ place["original"] # 0 /\ ~guard.present
    /\ goes(p, [Resting EXCEPT !.pc = "open", !.path = "original"])
    /\ UNCHANGED <<place, tree, guard, made, asked, discardFaults>>

OpenLease(p) ==
    /\ at(p, "open")
    /\ opensLease(p, "open-lock") \/ (directory("original").lease = 0 /\ rests(p))
    /\ UNCHANGED <<place, tree, guard, made, asked, discardFaults>>

OpenLock(p) ==
    /\ at(p, "open-lock")
    /\ locks(p, actor[p].lease, "open-read")
    /\ UNCHANGED <<place, tree, guard, made, asked, discardFaults>>


OpenRead(p) ==
    LET found == directory("original")
        good  == ~found.evidence /\ found.marker = 0 /\ found.manifest # "none" IN
    /\ at(p, "open-read")
    /\ \/ good /\ goes(p, [actor[p] EXCEPT !.pc = "owner", !.target = place["original"]])
       \/ ~good /\ rests(p)
    /\ UNCHANGED <<place, tree, guard, made, asked, discardFaults>>

Create(p) ==
    /\ at(p, "rest") /\ place["original"] = 0 /\ made < MaxIncarnations
    /\ made' = made + 1
    /\ place' = [place EXCEPT !["original"] = made + 1]
    /\ goes(p, [Resting EXCEPT !.pc = "create", !.path = "original", !.target = made + 1])
    /\ UNCHANGED <<tree, guard, asked, discardFaults>>

CreateLease(p) ==
    /\ at(p, "create")
    /\ tree' = [tree EXCEPT ![actor[p].target].lease = FreshFile]
    /\ goes(p, [actor[p] EXCEPT !.pc = "create-lock", !.lease = FreshFile])
    /\ UNCHANGED <<place, guard, made, asked, discardFaults>>

CreateLock(p) ==
    /\ at(p, "create-lock")
    /\ locks(p, actor[p].lease, "create-write")
    /\ UNCHANGED <<place, tree, guard, made, asked, discardFaults>>

CreateManifest(p) ==
    /\ at(p, "create-write")
    /\ tree' = [tree EXCEPT ![actor[p].target].manifest = "fine"]
    /\ goes(p, [actor[p] EXCEPT !.pc = "owner"])
    /\ UNCHANGED <<place, guard, made, asked, discardFaults>>

\* recoverCreateFailure: the manifest was not written, what was made is removed.
CreateFails(p) ==
    /\ at(p, "create-write") /\ discardFaults < MaxDiscardFaults
    /\ discardFaults' = discardFaults + 1
    /\ tree' = [tree EXCEPT ![actor[p].target] = NoTree]
    /\ place' = [place EXCEPT !["original"] = 0]
    /\ rests(p)
    /\ UNCHANGED <<guard, made, asked>>

\* The owner leaves a state that only a reconciliation may resolve.
Unsettle(p) ==
    /\ at(p, "owner") /\ place["original"] = actor[p].target
    /\ tree[actor[p].target].manifest = "fine"
    /\ tree' = [tree EXCEPT ![actor[p].target].manifest = "unsettled"]
    /\ UNCHANGED <<place, guard, actor, made, asked, discardFaults>>

CloseWorkspace(p) ==
    /\ at(p, "owner")
    /\ rests(p)
    /\ UNCHANGED <<place, tree, guard, made, asked, discardFaults>>

-----------------------------------------------------------------------------
(* PrepareDiscard.                                                           *)

\* One process runs CollectOrphans again and again; a discard asked for by
\* another one is an operation of its user.
asks(p) ==
    IF p = Collector THEN UNCHANGED asked ELSE asked < MaxDiscards /\ asked' = asked + 1

\* Exactly one of the two names exists: it and its identity are the target.
PrepareDiscard(p) ==
    /\ at(p, "rest") /\ asks(p)
    /\ \E path \in Path :
        /\ \A other \in Path : place[other] # 0 <=> other = path
        /\ goes(p, [Resting EXCEPT !.pc = "target", !.path = path, !.target = place[path]])
    /\ UNCHANGED <<place, tree, guard, made, discardFaults>>

\* Neither exists: what is left of an earlier discard is its guard.
PrepareCleanup(p) ==
    /\ at(p, "rest") /\ asks(p)
    /\ \A path \in Path : place[path] = 0
    /\ guard.present
    /\ goes(p, [Resting EXCEPT !.pc = "guard", !.record = guard.record])
    /\ UNCHANGED <<place, tree, guard, made, discardFaults>>

\* Mutant: a quarantine without its lease is refused.
TargetLease_NoFallback(p) ==
    /\ at(p, "target")
    /\ opensLease(p, "target-lock") \/ (directory(actor[p].path).lease = 0 /\ rests(p))
    /\ UNCHANGED <<place, tree, guard, made, asked, discardFaults>>

\* A quarantine that has lost its lease is reopened on the guard's authority.
TargetLease(p) ==
    LET a       == actor[p]
        missing == directory(a.path).lease = 0
        trusted == a.path = "quarantine" /\ guard.record = a.target IN
    /\ at(p, "target")
    /\ \/ opensLease(p, "target-lock")
       \/ missing /\ trusted /\ goes(p, [a EXCEPT !.pc = "guard", !.record = guard.record])
       \/ missing /\ ~trusted /\ rests(p)
    /\ UNCHANGED <<place, tree, guard, made, asked, discardFaults>>

TargetLock(p) ==
    /\ at(p, "target-lock")
    /\ locks(p, actor[p].lease, "target-read")
    /\ UNCHANGED <<place, tree, guard, made, asked, discardFaults>>

\* The marker, or else the guard's record, or else a settled manifest, is the
\* authority for discarding the incarnation in found.
authority(found, target) ==
    CASE found.marker # 0 -> found.marker = target
      [] found.marker = 0 /\ found.evidence -> FALSE
      [] found.marker = 0 /\ ~found.evidence /\ guard.record # 0 -> guard.record = target
      [] OTHER -> found.manifest = "fine"

TargetRead(p) ==
    LET a == actor[p]
        granted == authority(directory(a.path), a.target) IN
    /\ at(p, "target-read")
    /\ \/ granted /\ goes(p, [a EXCEPT !.pc = "guard", !.record = a.target])
       \/ ~granted /\ rests(p)
    /\ UNCHANGED <<place, tree, guard, made, asked, discardFaults>>

\* openDiscardGuard makes the directory and the lease file if they are missing;
\* openEmptyDiscardGuard, which has no record, makes only the lease file. What
\* the record said is read here, before the lock.
GuardOpen(p) ==
    LET a    == actor[p]
        file == IF guard.lease = 0 THEN FreshFile ELSE guard.lease
        good == /\ ~guard.evidence
                /\ a.record = 0 => guard.present
                /\ a.record # 0 => guard.record \in {0, a.record} IN
    /\ at(p, "guard")
    /\ \/ /\ good
          /\ guard' = [guard EXCEPT !.present = TRUE, !.lease = file]
          /\ goes(p, [a EXCEPT !.pc = "guard-lock", !.guard = file, !.seen = guard.record])
       \/ ~good /\ rests(p) /\ UNCHANGED guard
    /\ UNCHANGED <<place, tree, made, asked, discardFaults>>

GuardLock(p) ==
    /\ at(p, "guard-lock")
    /\ locks(p, actor[p].guard, "guard-record")
    /\ UNCHANGED <<place, tree, guard, made, asked, discardFaults>>

\* The record is written where the read before the lock found none; a guard
\* directory that another process removed meanwhile fails the write.
GuardRecord(p) ==
    LET a      == actor[p]
        writes == a.seen = 0 /\ a.record # 0 IN
    /\ at(p, "guard-record")
    /\ \/ writes /\ ~guard.present /\ rests(p) /\ UNCHANGED guard
       \/ /\ writes => guard.present
          /\ guard' = IF writes THEN [guard EXCEPT !.record = a.record] ELSE guard
          /\ goes(p, [a EXCEPT !.pc = "relock"])
    /\ UNCHANGED <<place, tree, made, asked, discardFaults>>

\* The last step of PrepareDiscard: a missing quarantine lease is created again,
\* and the target must still be the directory whose identity was read first.
PrepareEnds(p) ==
    LET a     == actor[p]
        again == a.path = "quarantine" /\ a.lease = 0
        found == directory(a.path)
        file  == IF found.lease = 0 THEN FreshFile ELSE found.lease
        good  == a.path # "none" => place[a.path] = a.target IN
    /\ at(p, "relock")
    /\ \/ ~good /\ rests(p) /\ UNCHANGED tree
       \/ good /\ ~again /\ goes(p, [a EXCEPT !.pc = "prepared"]) /\ UNCHANGED tree
       \/ good /\ again /\ Locked(file) /\ rests(p) /\ UNCHANGED tree
       \/ /\ good /\ again /\ ~Locked(file)
          /\ tree' = [tree EXCEPT ![a.target].lease = file]
          /\ goes(p, [a EXCEPT !.pc = "prepared", !.lease = file, !.holds = @ \cup {file}])
    /\ UNCHANGED <<place, guard, made, asked, discardFaults>>

-----------------------------------------------------------------------------
(* Discard.                                                                  *)

\* Close gives the authority back; the guard stays behind.
AbandonDiscard(p) ==
    /\ at(p, "prepared") /\ discardFaults < MaxDiscardFaults
    /\ discardFaults' = discardFaults + 1
    /\ rests(p)
    /\ UNCHANGED <<place, tree, guard, made, asked>>

FinishGuardOnly(p) ==
    LET gone == \A path \in Path : place[path] = 0 IN
    /\ at(p, "prepared") /\ actor[p].path = "none"
    /\ \/ gone /\ goes(p, [actor[p] EXCEPT !.pc = "close-guard"])
       \/ ~gone /\ rests(p)
    /\ UNCHANGED <<place, tree, guard, made, asked, discardFaults>>

WriteMarker(p) ==
    LET a    == actor[p]
        good == directory(a.path).marker \in {0, a.record} /\ place[a.path] # 0 IN
    /\ at(p, "prepared") /\ a.path # "none"
    /\ \/ /\ good
          /\ tree' = [tree EXCEPT ![place[a.path]].marker = a.record]
          /\ goes(p, [a EXCEPT !.pc = "marked"])
       \/ ~good /\ rests(p) /\ UNCHANGED tree
    /\ UNCHANGED <<place, guard, made, asked, discardFaults>>

CloseLease(p) ==
    /\ at(p, "marked")
    /\ goes(p, [actor[p] EXCEPT !.pc = "unleased", !.holds = @ \ {actor[p].lease}])
    /\ UNCHANGED <<place, tree, guard, made, asked, discardFaults>>

\* The identity is compared again, then the workspace is renamed; an empty
\* directory at the quarantine name does not stop the rename.
Quarantine(p) ==
    LET a    == actor[p]
        same == place[a.path] = a.target
        free == directory("quarantine") = NoTree IN
    /\ at(p, "unleased")
    /\ \/ /\ same /\ a.path = "original" /\ free
          /\ place' = [original |-> 0, quarantine |-> a.target]
          /\ goes(p, [a EXCEPT !.pc = "children", !.path = "quarantine"])
       \/ /\ same /\ a.path = "quarantine"
          /\ goes(p, [a EXCEPT !.pc = "children"])
          /\ UNCHANGED place
       \/ /\ ~same \/ (a.path = "original" /\ ~free)
          /\ rests(p) /\ UNCHANGED place
    /\ UNCHANGED <<tree, guard, made, asked, discardFaults>>

\* cleanupTree opens the directory by name and identity, and works on the open
\* directory from then on: children, lease, marker, the directory, the guard.
RemoveChildren(p) ==
    LET a == actor[p] IN
    /\ at(p, "children")
    /\ \/ /\ place["quarantine"] = a.target
          /\ tree' = [tree EXCEPT ![a.target].manifest = "none", ![a.target].evidence = FALSE]
          /\ goes(p, [a EXCEPT !.pc = "lease"])
       \/ place["quarantine"] # a.target /\ rests(p) /\ UNCHANGED tree
    /\ UNCHANGED <<place, guard, made, asked, discardFaults>>

RemoveLease(p) ==
    /\ at(p, "lease")
    /\ tree' = [tree EXCEPT ![actor[p].target].lease = 0]
    /\ goes(p, [actor[p] EXCEPT !.pc = "marker"])
    /\ UNCHANGED <<place, guard, made, asked, discardFaults>>

RemoveMarker(p) ==
    /\ at(p, "marker")
    /\ tree' = [tree EXCEPT ![actor[p].target].marker = 0]
    /\ goes(p, [actor[p] EXCEPT !.pc = "rmdir"])
    /\ UNCHANGED <<place, guard, made, asked, discardFaults>>

\* A directory that is no longer there is as good as removed; one that is not
\* empty, or is another one, stays.
RemoveQuarantine(p) ==
    LET a    == actor[p]
        good == place["quarantine"] = 0
                    \/ (place["quarantine"] = a.target /\ tree[a.target] = NoTree) IN
    /\ at(p, "rmdir")
    /\ \/ /\ good
          /\ place' = [place EXCEPT !["quarantine"] = 0]
          /\ goes(p, [a EXCEPT !.pc = "close-guard"])
       \/ ~good /\ rests(p) /\ UNCHANGED place
    /\ UNCHANGED <<tree, guard, made, asked, discardFaults>>

-----------------------------------------------------------------------------
(* removeGuard, the guard's lease released first.                            *)

\* preserveGuardRecord: a guard whose removal failed gets its record back.
preserved(a) ==
    IF a.record # 0 /\ guard.present THEN [guard EXCEPT !.record = a.record] ELSE guard

CloseGuard(p) ==
    /\ at(p, "close-guard")
    /\ goes(p, [actor[p] EXCEPT !.pc = "guard-file", !.holds = {}])
    /\ UNCHANGED <<place, tree, guard, made, asked, discardFaults>>

RemoveGuardRecord(p) ==
    /\ at(p, "guard-file")
    /\ guard' = [guard EXCEPT !.record = 0]
    /\ goes(p, [actor[p] EXCEPT !.pc = "guard-lease"])
    /\ UNCHANGED <<place, tree, made, asked, discardFaults>>

RemoveGuardLease(p) ==
    /\ at(p, "guard-lease")
    /\ guard' = [guard EXCEPT !.lease = 0]
    /\ goes(p, [actor[p] EXCEPT !.pc = "guard-dir"])
    /\ UNCHANGED <<place, tree, made, asked, discardFaults>>

RemoveGuard(p) ==
    LET empty == [guard EXCEPT !.present = FALSE] = NoGuard IN
    /\ at(p, "guard-dir")
    /\ guard' = IF empty THEN NoGuard ELSE preserved(actor[p])
    /\ rests(p)
    /\ UNCHANGED <<place, tree, made, asked, discardFaults>>

-----------------------------------------------------------------------------
(* Failures and crashes.                                                     *)

\* One of the filesystem operations of Discard fails; the handle is consumed.
DiscardFails(p) ==
    /\ discardFaults < MaxDiscardFaults
    /\ actor[p].pc \in {"prepared", "marked", "unleased", "children", "lease",
                        "marker", "rmdir", "guard-file", "guard-lease", "guard-dir"}
    /\ discardFaults' = discardFaults + 1
    /\ guard' = IF actor[p].pc \in {"guard-file", "guard-lease", "guard-dir"}
                    THEN preserved(actor[p]) ELSE guard
    /\ rests(p)
    /\ UNCHANGED <<place, tree, made, asked>>

\* The process dies and its locks with it. Death inside an atomic write leaves
\* the temporary file of that write, in the workspace or in the guard.
CrashDiscard(p) ==
    LET a == actor[p] IN
    /\ ~at(p, "rest") /\ discardFaults < MaxDiscardFaults
    /\ discardFaults' = discardFaults + 1
    /\ \E written \in BOOLEAN :
        /\ tree' = [n \in Incarnation |->
                IF /\ written /\ a.pc \in {"owner", "create-write", "prepared"}
                   /\ a.path # "none" /\ n = place[a.path]
                    THEN [tree[n] EXCEPT !.evidence = TRUE] ELSE tree[n]]
        /\ guard' = IF written /\ a.pc = "guard-record" /\ guard.present
                        THEN [guard EXCEPT !.evidence = TRUE] ELSE guard
    /\ rests(p)
    /\ UNCHANGED <<place, made, asked>>

-----------------------------------------------------------------------------

DiscardStep(p) ==
    \/ TargetLease(p) \/ TargetLock(p) \/ TargetRead(p)
    \/ GuardOpen(p) \/ GuardLock(p) \/ GuardRecord(p) \/ PrepareEnds(p)
    \/ FinishGuardOnly(p) \/ WriteMarker(p) \/ CloseLease(p) \/ Quarantine(p)
    \/ RemoveChildren(p) \/ RemoveLease(p) \/ RemoveMarker(p) \/ RemoveQuarantine(p)
    \/ CloseGuard(p) \/ RemoveGuardRecord(p) \/ RemoveGuardLease(p) \/ RemoveGuard(p)

WorkspaceStep(p) ==
    \/ OpenLease(p) \/ OpenLock(p) \/ OpenRead(p)
    \/ CreateLease(p) \/ CreateLock(p) \/ CreateManifest(p)

Collect(p) == PrepareDiscard(p) \/ PrepareCleanup(p)

DiscardNext ==
    \E p \in Process :
        \/ Open(p) \/ Create(p) \/ CreateFails(p) \/ Unsettle(p) \/ CloseWorkspace(p)
        \/ WorkspaceStep(p) \/ Collect(p) \/ DiscardStep(p)
        \/ AbandonDiscard(p) \/ DiscardFails(p) \/ CrashDiscard(p)

DiscardSpec == DiscardInit /\ [][DiscardNext]_discardVars

\* A call that was started runs on, and CollectOrphans comes round again.
DiscardFairness ==
    /\ \A p \in Process : WF_discardVars(DiscardStep(p)) /\ WF_discardVars(WorkspaceStep(p))
    /\ WF_discardVars(Collect(Collector))

DiscardFairSpec == DiscardSpec /\ DiscardFairness

-----------------------------------------------------------------------------
(* Properties.                                                               *)

\* The process has incarnation n open under n's own lease file.
Owns(p, n) ==
    /\ at(p, "owner")
    /\ actor[p].target = n /\ n # 0
    /\ tree[n].lease # 0 /\ tree[n].lease \in actor[p].holds


DiscardPending == guard.present \/ place["quarantine"] # 0

(* What no PrepareDiscard accepts: the session created again over an         *)
(* unfinished discard, the temporary file of a write that a crash cut short, *)
(* a workspace without lease or settled manifest that nothing vouches for.   *)
Stranded ==
    \/ \A path \in Path : place[path] # 0
    \/ guard.evidence
    \/ \E path \in Path :
        /\ place[path] # 0
        /\ \/ guard.record \notin {0, place[path]}
           \/ directory(path).lease = 0 /\ ~(path = "quarantine" /\ guard.record = place[path])
           \/ ~authority(directory(path), place[path])

(* A discard that was begun is finished: whichever step failed or crashed,   *)
(* the marker, the quarantine or the guard lets a later PrepareDiscard       *)
(* continue, until nothing is left; except where the evidence contradicts    *)
(* itself, or the workspace is in use.                                       *)
DiscardFinishes ==
    DiscardPending ~> (~DiscardPending \/ Stranded \/ \E p \in Process : at(p, "owner"))

=============================================================================
