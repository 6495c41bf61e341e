---------------------------- MODULE PlayerSolver ----------------------------
(***************************************************************************)
(* Challenge solving (internal/javascript/ejs) through a helper process    *)
(* (internal/javascript/supervisor).  Callers of several solvers share a   *)
(* memory cache of preprocessed players and a disk cache; callers of one   *)
(* solver share the flight that preprocesses a player; one slot per        *)
(* process serialises preprocessing; one gate per solver serialises the    *)
(* requests to its helper.  Any caller's context may end at any time.      *)
(*                                                                         *)
(*   job     the solver and the player of each caller                      *)
(*   memory  the transforms in memory: value, and whether it came from disk*)
(*   lru     the players in memory, oldest first                           *)
(*   disk    the transforms on disk: "good", "bad" or "none"               *)
(*   flights the flight registered for each solver and player              *)
(*   flight  every flight, named after its caller and the caller's attempt *)
(*   slot    the flight that may preprocess                                *)
(*   caller  the calls of SolvePlayer                                      *)
(*   mu      the caller inside solver.mu                                   *)
(*   helper  who holds the gate, and the helper process behind it          *)
(*   spare   the disturbances still to come, and a clearing under way      *)
(*                                                                         *)
(* A transform is "bad" when it passes the integrity checks of the cache   *)
(* and still does not solve; preprocessing makes good ones.  Left out: the *)
(* challenges and their answers, time buckets, request limits.             *)
(***************************************************************************)
EXTENDS Integers, Sequences

LOCAL INSTANCE SequencesExt

CONSTANTS
    Caller, Solver, Player,
    Jobs,               \* the possible values of job
    MaxCachedPlayers,   \* the bound of the memory cache
    MaxDisturbances     \* ending contexts, helper faults, steps of others

ASSUME SolverAssumption ==
    /\ Jobs \subseteq [Caller -> [solver : Solver, player : Player]]
    /\ MaxCachedPlayers \in Nat \ {0}
    /\ MaxDisturbances \in Nat

VARIABLES job, memory, lru, disk, flights, flight, slot, caller, mu, helper, spare

caches == <<memory, lru, disk>>

solverVars == <<job, caches, flights, flight, slot, caller, mu, helper, spare>>

Flight == Caller \X {1, 2}

nobody == <<"none", 0>>

NoEntry == [value |-> "none", persistent |-> FALSE]

NoFlight == [pc |-> "none", waiters |-> 0, abandoned |-> FALSE, entry |-> NoEntry,
             result |-> "none"]

NoCall == [pc |-> "memory", attempt |-> 1, live |-> TRUE, entry |-> NoEntry,
           waits |-> nobody, result |-> "none"]

wanted(p) == \E c \in Caller : job[c].player = p

SolverInit ==
    /\ job \in Jobs
    /\ memory = [p \in Player |-> NoEntry] /\ lru = <<>>
    /\ disk \in {d \in [Player -> {"none", "bad"}] : \A p \in Player : d[p] = "bad" => wanted(p)}
    /\ flights = [s \in Solver, p \in Player |-> nobody]
    /\ flight = [f \in Flight |-> NoFlight]
    /\ slot = nobody
    /\ caller = [c \in Caller |-> NoCall]
    /\ mu = [s \in Solver |-> "none"]
    /\ helper = [s \in Solver |-> [gate |-> nobody, process |-> "down"]]
    /\ spare \in [disturbances : 0 .. MaxDisturbances, erasing : {FALSE}]

-----------------------------------------------------------------------------
(* Building blocks. *)

disturb ==
    /\ spare.disturbances > 0
    /\ spare' = [spare EXCEPT !.disturbances = @ - 1]

solverOf(c) == job[c].solver

playerOf(c) == job[c].player

\* The second attempt of a caller takes nothing that came from disk.
bypasses(attempt) == attempt = 2

move(c, pc) == caller' = [caller EXCEPT ![c].pc = pc]

\* SolvePlayer returns.
returns(c, result) ==
    caller' = [caller EXCEPT ![c] = [NoCall EXCEPT !.pc = "returned", !.result = result,
                                                   !.live = caller[c].live]]

proceed(c, entry) ==
    caller' = [caller EXCEPT ![c].pc = "solve", ![c].entry = entry, ![c].waits = nobody]

fly(f, pc) == flight' = [flight EXCEPT ![f].pc = pc]

-----------------------------------------------------------------------------
(* The memory cache. *)

usable(p, attempt) ==
    memory[p].value # "none" /\ (bypasses(attempt) => ~memory[p].persistent)

\* lookupPreprocessed moves what it finds to the end.
touch(p) ==
    lru' = IF memory[p].value = "none" THEN lru ELSE Append(Remove(lru, p), p)

storeLocked(p, entry) ==
    IF memory[p].value # "none"
    THEN /\ memory' = IF entry.persistent THEN memory ELSE [memory EXCEPT ![p] = entry]
         /\ UNCHANGED lru
    ELSE IF Len(lru) >= MaxCachedPlayers
    THEN /\ memory' = [memory EXCEPT ![Head(lru)] = NoEntry, ![p] = entry]
         /\ lru' = Append(Tail(lru), p)
    ELSE memory' = [memory EXCEPT ![p] = entry] /\ lru' = Append(lru, p)

-----------------------------------------------------------------------------
(* getPreprocessed: the lookups, made once without and once with solver.mu. *)

\* Mutant: a flight that everybody left is joined.
joinable_Abandoned(f) == f # nobody

joinable(f) == f # nobody /\ ~flight[f].abandoned

waitFor(c, f) == caller' = [caller EXCEPT ![c].pc = "wait", ![c].waits = f]

\* Under solver.mu: wait for the flight of the player, or start one.
joinOrFly(c) ==
    LET key == <<solverOf(c), playerOf(c)>>
        own == <<c, caller[c].attempt>>
    IN  IF joinable(flights[key])
        THEN /\ flight' = [flight EXCEPT ![flights[key]].waiters = @ + 1]
             /\ waitFor(c, flights[key])
             /\ UNCHANGED flights
        ELSE /\ flight' = [flight EXCEPT ![own] = [NoFlight EXCEPT !.pc = "slot", !.waiters = 1]]
             /\ flights' = [flights EXCEPT ![key] = own]
             /\ waitFor(c, own)

LookupMemory(c) ==
    /\ caller[c].pc = "memory"
    /\ touch(playerOf(c))
    /\ IF usable(playerOf(c), caller[c].attempt) THEN proceed(c, memory[playerOf(c)])
       ELSE IF ~caller[c].live THEN returns(c, "canceled")
       ELSE move(c, IF bypasses(caller[c].attempt) THEN "lock" ELSE "disk")
    /\ UNCHANGED <<job, memory, disk, flights, flight, slot, mu, helper, spare>>

\* The solver is locked and the memory looked at again.
LockSolver(c) ==
    /\ caller[c].pc = "lock" /\ mu[solverOf(c)] = "none"
    /\ touch(playerOf(c))
    /\ IF usable(playerOf(c), caller[c].attempt)
       THEN proceed(c, memory[playerOf(c)]) /\ UNCHANGED <<flights, flight, mu>>
       ELSE IF bypasses(caller[c].attempt) THEN joinOrFly(c) /\ UNCHANGED mu
       ELSE /\ mu' = [mu EXCEPT ![solverOf(c)] = c]
            /\ move(c, "disk")
            /\ UNCHANGED <<flights, flight>>
    /\ UNCHANGED <<job, memory, disk, slot, helper, spare>>

holds(c) == mu[solverOf(c)] = c

unlocks(c) ==
    mu' = IF holds(c) THEN [mu EXCEPT ![solverOf(c)] = "none"] ELSE mu

\* An entry that has expired, or a lookup that fails, is a miss.
LookupDisk(c) ==
    LET value == disk[playerOf(c)]
    IN  /\ caller[c].pc = "disk"
        /\ \/ ~holds(c) /\ move(c, "lock") /\ UNCHANGED <<flights, flight, mu>>
           \/ holds(c) /\ joinOrFly(c) /\ unlocks(c)
           \/ /\ caller[c].live /\ value # "none"
              /\ caller' = [caller EXCEPT ![c].pc = "promote",
                                          ![c].entry = [value |-> value, persistent |-> TRUE]]
              /\ UNCHANGED <<flights, flight, mu>>
        /\ UNCHANGED <<job, caches, slot, helper, spare>>

\* The caller goes on with what it read, whatever is in memory by now.
Promote(c) ==
    /\ caller[c].pc = "promote"
    /\ storeLocked(playerOf(c), caller[c].entry)
    /\ move(c, "solve") /\ unlocks(c)
    /\ UNCHANGED <<job, disk, flights, flight, slot, helper, spare>>

-----------------------------------------------------------------------------
(* waitForFlight. *)

\* The channel of the flight is closed.  The record of a flight is dropped with
\* its last waiter.
Landed(c) ==
    LET f == flight[caller[c].waits]
    IN  /\ caller[c].pc = "wait" /\ f.pc = "done"
        /\ IF f.result = "ok" THEN proceed(c, f.entry) ELSE returns(c, f.result)
        /\ flight' = [flight EXCEPT ![caller[c].waits] =
                        IF f.waiters = 1 THEN NoFlight ELSE [@ EXCEPT !.waiters = @ - 1]]
        /\ UNCHANGED <<job, caches, flights, slot, mu, helper, spare>>

\* The last one to leave abandons the flight and cancels its context.
LeaveFlight(c) ==
    LET f == caller[c].waits
    IN  /\ caller[c].pc = "wait" /\ ~caller[c].live /\ mu[solverOf(c)] = "none"
        /\ flight' = [flight EXCEPT ![f] =
                        IF @.pc = "done" /\ @.waiters = 1 THEN NoFlight
                        ELSE [@ EXCEPT !.waiters = @ - 1, !.abandoned = (flight[f].waiters = 1)]]
        /\ returns(c, "canceled")
        /\ UNCHANGED <<job, caches, flights, slot, mu, helper, spare>>

-----------------------------------------------------------------------------
(* Execute: the gate, the helper process and one request at a time. *)

\* Enter the gate; the helper is started when there is none.
begin(s, user) ==
    /\ helper[s].gate = nobody
    /\ helper' = [helper EXCEPT ![s] = [gate |-> user,
                                        process |-> IF @.process = "down" THEN "up" ELSE @.process]]

startFails(s) ==
    /\ helper[s] = [gate |-> nobody, process |-> "down"] /\ disturb
    /\ UNCHANGED helper

finished(s, process) == helper' = [helper EXCEPT ![s] = [gate |-> nobody, process |-> process]]

answered(s) == helper[s].process = "up" /\ finished(s, "up") /\ UNCHANGED spare

\* An error in the answer, or no answer: then stopLocked ends the helper.
errors(s) ==
    \/ helper[s].process = "up" /\ disturb /\ finished(s, "up")
    \/ helper[s].process = "up" /\ disturb /\ finished(s, "down")
    \/ helper[s].process = "dead" /\ finished(s, "down") /\ UNCHANGED spare

-----------------------------------------------------------------------------
(* solve, and one more attempt for a transform that came from disk. *)

\* Mutant: the transform is tried again as it is.
solveFailed_Again(c) ==
    IF caller[c].entry.persistent /\ caller[c].live THEN move(c, "solve") ELSE returns(c, "failed")

solveFailed(c) ==
    IF caller[c].attempt = 1 /\ caller[c].entry.persistent /\ caller[c].live
    THEN move(c, "invalidate") ELSE returns(c, "failed")

BeginSolve(c) ==
    /\ caller[c].pc = "solve"
    /\ \/ begin(solverOf(c), <<c, 0>>) /\ move(c, "solving") /\ UNCHANGED spare
       \/ startFails(solverOf(c)) /\ solveFailed(c)
    /\ UNCHANGED <<job, caches, flights, flight, slot, mu>>

\* A helper that reports a time-out is not asked again.
Solve(c) ==
    /\ caller[c].pc = "solving"
    /\ \/ /\ answered(solverOf(c))
          /\ IF caller[c].entry.value = "good" THEN returns(c, "solved") ELSE solveFailed(c)
       \/ errors(solverOf(c)) /\ (solveFailed(c) \/ returns(c, "failed"))
    /\ UNCHANGED <<job, caches, flights, flight, slot, mu>>

\* The context ends: before the gate, or stopLocked kills the helper.
SolveCanceled(c) ==
    /\ ~caller[c].live
    /\ \/ caller[c].pc = "solve" /\ UNCHANGED helper
       \/ caller[c].pc = "solving" /\ finished(solverOf(c), "down")
    /\ returns(c, "canceled")
    /\ UNCHANGED <<job, caches, flights, flight, slot, mu, spare>>

\* Mutant: the order keeps a player that is gone.
InvalidateMemory_KeepsOrder(c) ==
    /\ caller[c].pc = "invalidate"
    /\ memory' = [memory EXCEPT ![playerOf(c)] = NoEntry]
    /\ move(c, "evict")
    /\ UNCHANGED <<job, lru, disk, flights, flight, slot, mu, helper, spare>>

InvalidateMemory(c) ==
    /\ caller[c].pc = "invalidate"
    /\ memory' = [memory EXCEPT ![playerOf(c)] = NoEntry]
    /\ lru' = Remove(lru, playerOf(c))
    /\ move(c, "evict")
    /\ UNCHANGED <<job, disk, flights, flight, slot, mu, helper, spare>>

\* A failing removal is ignored.
EvictDisk(c) ==
    /\ caller[c].pc = "evict"
    /\ \/ caller[c].live /\ disk' = [disk EXCEPT ![playerOf(c)] = "none"]
       \/ UNCHANGED disk
    /\ caller' = [caller EXCEPT ![c] = [NoCall EXCEPT !.attempt = 2, !.live = caller[c].live]]
    /\ UNCHANGED <<job, memory, lru, flights, flight, slot, mu, helper, spare>>

-----------------------------------------------------------------------------
(* preprocess: the flight. *)

flightPlayer(f) == playerOf(f[1])

flightSolver(f) == solverOf(f[1])

\* preprocess returns: the slot is given back before the flight lands.
land(f, result, entry) ==
    /\ flight' = [flight EXCEPT ![f].pc = "landing", ![f].result = result, ![f].entry = entry]
    /\ slot' = IF slot = f THEN nobody ELSE slot

SlotCanceled(f) ==
    /\ flight[f].pc = "slot" /\ flight[f].abandoned
    /\ land(f, "canceled", NoEntry)
    /\ UNCHANGED <<job, caches, flights, caller, mu, helper, spare>>

\* Mutant: what other solvers did in the meantime is not looked at.
TakeSlot_Hurries(f) ==
    /\ flight[f].pc = "slot" /\ slot = nobody
    /\ slot' = f /\ fly(f, IF bypasses(f[2]) THEN "execute" ELSE "disk")
    /\ UNCHANGED <<job, caches, flights, caller, mu, helper, spare>>

\* The slot is taken and the memory looked at again; a hit gives it back.
TakeSlot(f) ==
    LET p == flightPlayer(f)
    IN  /\ flight[f].pc = "slot" /\ slot = nobody
        /\ touch(p)
        /\ IF usable(p, f[2]) THEN land(f, "ok", memory[p])
           ELSE slot' = f /\ fly(f, IF bypasses(f[2]) THEN "execute" ELSE "disk")
        /\ UNCHANGED <<job, memory, disk, flights, caller, mu, helper, spare>>

RecheckDisk(f) ==
    LET value == disk[flightPlayer(f)]
    IN  /\ flight[f].pc = "disk"
        /\ \/ fly(f, "execute")
           \/ /\ ~flight[f].abandoned /\ value # "none"
              /\ flight' = [flight EXCEPT ![f].pc = "promote",
                                          ![f].entry = [value |-> value, persistent |-> TRUE]]
        /\ UNCHANGED <<job, caches, flights, slot, caller, mu, helper, spare>>

PromoteFlight(f) ==
    /\ flight[f].pc = "promote"
    /\ storeLocked(flightPlayer(f), flight[f].entry)
    /\ land(f, "ok", flight[f].entry)
    /\ UNCHANGED <<job, disk, flights, caller, mu, helper, spare>>

BeginPreprocess(f) ==
    /\ flight[f].pc = "execute"
    /\ \/ begin(flightSolver(f), f) /\ fly(f, "executing") /\ UNCHANGED <<slot, spare>>
       \/ startFails(flightSolver(f)) /\ land(f, "failed", NoEntry)
    /\ UNCHANGED <<job, caches, flights, caller, mu>>

Preprocess(f) ==
    /\ flight[f].pc = "executing"
    /\ \/ answered(flightSolver(f)) /\ fly(f, "store") /\ UNCHANGED slot
       \/ errors(flightSolver(f)) /\ land(f, "failed", NoEntry)
    /\ UNCHANGED <<job, caches, flights, caller, mu>>

PreprocessCanceled(f) ==
    /\ flight[f].abandoned
    /\ \/ flight[f].pc = "execute" /\ UNCHANGED helper
       \/ flight[f].pc = "executing" /\ finished(flightSolver(f), "down")
    /\ land(f, "canceled", NoEntry)
    /\ UNCHANGED <<job, caches, flights, caller, mu, spare>>

Made == [value |-> "good", persistent |-> FALSE]

StoreTransform(f) ==
    /\ flight[f].pc = "store"
    /\ storeLocked(flightPlayer(f), Made)
    /\ fly(f, "persist")
    /\ UNCHANGED <<job, disk, flights, slot, caller, mu, helper, spare>>

\* storePersistent: an optimization that may fail.
StorePersistent(f) ==
    /\ flight[f].pc = "persist"
    /\ \/ ~flight[f].abandoned /\ disk' = [disk EXCEPT ![flightPlayer(f)] = "good"]
       \/ UNCHANGED disk
    /\ land(f, "ok", Made)
    /\ UNCHANGED <<job, memory, lru, flights, caller, mu, helper, spare>>

\* The flight leaves the map, if it is still there, and wakes its waiters.
Land(f) ==
    LET key == <<flightSolver(f), flightPlayer(f)>>
    IN  /\ flight[f].pc = "landing" /\ mu[flightSolver(f)] = "none"
        /\ flights' = IF flights[key] = f THEN [flights EXCEPT ![key] = nobody] ELSE flights
        /\ flight' = [flight EXCEPT ![f] = IF @.waiters = 0 THEN NoFlight
                                           ELSE [@ EXCEPT !.pc = "done"]]
        /\ UNCHANGED <<job, caches, slot, caller, mu, helper, spare>>

-----------------------------------------------------------------------------
(* The surroundings. *)

ContextEnds(c) ==
    /\ caller[c].pc # "returned" /\ caller[c].live /\ disturb
    /\ caller' = [caller EXCEPT ![c].live = FALSE]
    /\ UNCHANGED <<job, caches, flights, flight, slot, mu, helper>>

HelperDies(s) ==
    /\ helper[s].process = "up" /\ disturb
    /\ helper' = [helper EXCEPT ![s].process = "dead"]
    /\ UNCHANGED <<job, caches, flights, flight, slot, caller, mu>>

\* Another process stores a transform on disk.
ForeignStore(p) ==
    /\ wanted(p) /\ disturb
    /\ disk' = [disk EXCEPT ![p] = "bad"]
    /\ UNCHANGED <<job, memory, lru, flights, flight, slot, caller, mu, helper>>

\* ClearPreprocessedPlayers: the memory, then the disk, which may fail.
ClearMemory ==
    /\ spare.disturbances > 0 /\ ~spare.erasing
    /\ spare' = [spare EXCEPT !.disturbances = @ - 1, !.erasing = TRUE]
    /\ memory' = [p \in Player |-> NoEntry] /\ lru' = <<>>
    /\ UNCHANGED <<job, disk, flights, flight, slot, caller, mu, helper>>

ClearDisk ==
    /\ spare.erasing
    /\ spare' = [spare EXCEPT !.erasing = FALSE]
    /\ disk' \in {disk, [p \in Player |-> "none"]}
    /\ UNCHANGED <<job, memory, lru, flights, flight, slot, caller, mu, helper>>

\* The owner of a solver closes its helper when no call is active.
CloseHelper(s) ==
    /\ \A c \in Caller : solverOf(c) = s => caller[c].pc = "returned"
    /\ helper[s].gate = nobody /\ helper[s].process # "down"
    /\ finished(s, "down")
    /\ UNCHANGED <<job, caches, flights, flight, slot, caller, mu, spare>>

SolverDone ==
    /\ \A c \in Caller : caller[c].pc = "returned"
    /\ flight = [f \in Flight |-> NoFlight]
    /\ UNCHANGED solverVars

callerStep(c) ==
    \/ LookupMemory(c) \/ LookupDisk(c) \/ Promote(c) \/ LockSolver(c)
    \/ Landed(c) \/ LeaveFlight(c) \/ BeginSolve(c) \/ Solve(c) \/ SolveCanceled(c)
    \/ InvalidateMemory(c) \/ EvictDisk(c)

flightStep(f) ==
    \/ TakeSlot(f) \/ SlotCanceled(f) \/ RecheckDisk(f)
    \/ PromoteFlight(f) \/ BeginPreprocess(f) \/ Preprocess(f) \/ PreprocessCanceled(f)
    \/ StoreTransform(f) \/ StorePersistent(f) \/ Land(f)

SolverNext ==
    \/ \E c \in Caller : callerStep(c) \/ ContextEnds(c)
    \/ \E f \in Flight : flightStep(f)
    \/ \E s \in Solver : HelperDies(s) \/ CloseHelper(s)
    \/ \E p \in Player : ForeignStore(p)
    \/ ClearMemory \/ ClearDisk \/ SolverDone

SolverSpec == SolverInit /\ [][SolverNext]_solverVars

-----------------------------------------------------------------------------
(* Properties. *)

\* The memory cache keeps its bound, and its order names exactly the players it
\* holds: storeLocked takes order[0] when the cache is full.  Who holds a gate
\* has a request under way.
SolverTypeOK ==
    /\ Len(lru) <= MaxCachedPlayers /\ IsInjective(lru)
    /\ Range(lru) = {p \in Player : memory[p].value # "none"}
    /\ \A s \in Solver : helper[s].gate # nobody =>
            \/ \E c \in Caller : helper[s].gate = <<c, 0>> /\ caller[c].pc = "solving"
            \/ \E f \in Flight : helper[s].gate = f /\ flight[f].pc = "executing"

made(p) == memory[p].value # "none" /\ ~memory[p].persistent

\* A player is preprocessed only while the memory, which all solvers share, holds
\* no transform made here (the second lookup in preprocess, under the slot):
\* a solver that queued for the slot does not repeat the work of another.
TransformedOnce ==
    \A f \in Flight : flight[f].pc \in {"execute", "executing"} => ~made(flightPlayer(f))

\* A caller is told of a cancellation only when its own context has ended:
\* that others left a flight never fails the one who came (waitForFlight and the
\* abandoned flag of getPreprocessed).
CancellationIsOwn ==
    \A c \in Caller : caller[c].result = "canceled" => ~caller[c].live

\* A transform made here is never replaced by one that was read from disk before
\* (the racing promotion in storeLocked).
MadeIsKept ==
    [][\A p \in Player : made(p) /\ memory'[p].value # "none" => ~memory'[p].persistent]_memory

\* Every call returns, whatever the helper and the other callers do: the slot,
\* the gate and solver.mu are given back on every path.
CallsReturn ==
    \A c \in Caller : (caller[c].pc = "memory") ~> (caller[c].pc = "returned")

\* A second attempt bypasses the disk: the transform it solves with was made here,
\* unless it joined a flight that another first attempt had started.
RetryBypassesDisk ==
    [][\A c \in Caller :
        /\ caller[c].pc # "solve" /\ caller'[c].pc = "solve"
        /\ caller[c].attempt = 2 /\ caller'[c].entry.persistent
        => caller[c].waits # nobody /\ caller[c].waits[2] = 1]_caller
=============================================================================
