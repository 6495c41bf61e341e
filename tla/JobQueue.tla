------------------------------ MODULE JobQueue ------------------------------
(***************************************************************************)
(* The download queue of the desktop application                           *)
(* (apps/desktop/internal/jobs): a FIFO with one running job.  Calls of    *)
(* the user interface, the goroutine of the running job and the shutdown   *)
(* of the window interleave; each holds the mutex for one action.          *)
(*                                                                         *)
(*   m         the Manager: the status of the jobs, the pending order, the *)
(*             running job and what its download returned, the canceled    *)
(*             contexts and the event channel                              *)
(*   ui        what the listener has seen last                             *)
(*   closing   the shutdown: whether it began, the jobs it has still to    *)
(*             cancel and the one that was running when it listed them     *)
(*   calls     calls of the user still to come                             *)
(*                                                                         *)
(* A sender blocks on a full channel with the mutex held; here its action  *)
(* waits for room, which leaves the dispatcher as the only one to go on.   *)
(* The queue:update snapshots, each sent by a goroutine of its own, are    *)
(* left out: nothing orders them, and they change nothing in the Manager.  *)
(***************************************************************************)
EXTENDS Integers, Sequences, FiniteSets

CONSTANTS
    Job,
    Capacity,       \* of the event channel, 256 in New
    MaxCalls

ASSUME JobAssumption == "none" \notin Job

\* Submit sends two events.
ASSUME CapacityAssumption ==
    /\ Capacity \in Nat /\ Capacity >= 2
    /\ MaxCalls \in Nat

VARIABLES m, ui, closing, calls

vars == <<m, ui, closing, calls>>

Terminal == {"complete", "failed", "canceled"}

Status == {"new", "pending", "active", "removed"} \cup Terminal

\* Every value has its type, and the event channel never holds more than its
\* capacity.
TypeOK ==
    /\ m \in [status : [Job -> Status], order : Seq(Job),
              active : Job \cup {"none"},
              returned : {"none", "complete", "failed"}, canceled : SUBSET Job,
              events : Seq([job : Job, status : Status])]
    /\ Len(m.events) <= Capacity
    /\ ui \in [Job -> Status]
    /\ closing \in [begun : BOOLEAN, left : SUBSET Job,
                  first : Job \cup {"none"}]
    /\ calls \in 0 .. MaxCalls

Init ==
    /\ m = [status |-> [j \in Job |-> "new"], order |-> <<>>, active |-> "none",
            returned |-> "none", canceled |-> {}, events |-> <<>>]
    /\ ui = [j \in Job |-> "new"]
    /\ closing = [begun |-> FALSE, left |-> {}, first |-> "none"]
    /\ calls = MaxCalls

-----------------------------------------------------------------------------
(* What the methods do under the mutex, as operators on the Manager. *)

emitLocked(q, j) ==
    [q EXCEPT !.events = Append(@, [job |-> j, status |-> q.status[j]])]

become(q, j, status) == emitLocked([q EXCEPT !.status[j] = status], j)

\* Entries at the head that are not pending are dropped.
isPending(q, i) == q.status[q.order[i]] = "pending"

fromFirstPending(q) ==
    LET heads == {i \in DOMAIN q.order : isPending(q, i)
                      /\ \A k \in 1 .. i - 1 : ~isPending(q, k)}
    IN  IF heads = {} THEN <<>>
        ELSE SubSeq(q.order, CHOOSE i \in heads : TRUE, Len(q.order))

maybeStartNextLocked(q) ==
    LET order == fromFirstPending(q)
        j == Head(order)
    IN  IF q.active # "none" THEN q
        ELSE IF order = <<>> THEN [q EXCEPT !.order = <<>>]
        ELSE become([q EXCEPT !.active = j, !.order = Tail(order),
                              !.canceled = @ \ {j}], j, "active")

\* Only the first occurrence is removed.
removeFromOrderLocked(q, j) ==
    LET at == {i \in DOMAIN q.order : q.order[i] = j
                   /\ \A k \in 1 .. i - 1 : q.order[k] # j}
    IN  IF at = {} THEN q
        ELSE LET i == CHOOSE i \in at : TRUE
             IN  [q EXCEPT !.order = SubSeq(@, 1, i - 1)
                                     \o SubSeq(@, i + 1, Len(@))]

\* Mutant: events are sent without waiting for room.
apply_Unbounded(q) == m' = q

\* The method has sent its events, in order, before it gives the mutex back.
apply(q) ==
    /\ Len(q.events) <= Capacity
    /\ m' = q

cancel(q, j) ==
    IF q.active = j
    THEN emitLocked([q EXCEPT !.canceled = @ \cup {j}], j)
    ELSE maybeStartNextLocked(removeFromOrderLocked(become(q, j, "canceled"), j))

-----------------------------------------------------------------------------
(* Calls of the user interface.  The window is closed when shutdown runs, so *)
(* none comes after it began.  A call that returns early changes nothing.    *)

call ==
    /\ ~closing.begun
    /\ calls > 0
    /\ calls' = calls - 1
    /\ UNCHANGED <<ui, closing>>

Submit(j) ==
    /\ call /\ m.status[j] = "new"
    /\ apply(maybeStartNextLocked(
              become([m EXCEPT !.order = Append(@, j)], j, "pending")))

Cancel(j) ==
    /\ call /\ m.status[j] \in {"pending", "active"}
    /\ apply(cancel(m, j))

Retry(j) ==
    /\ call /\ m.status[j] \in {"failed", "canceled"}
    /\ apply(maybeStartNextLocked(
              become([m EXCEPT !.order = Append(@, j)], j, "pending")))

Remove(j) ==
    /\ call /\ m.status[j] \in Terminal
    /\ apply(removeFromOrderLocked([m EXCEPT !.status[j] = "removed"], j))

ClearTerminal ==
    /\ call
    /\ apply([m EXCEPT
                !.status = [j \in Job |-> IF @[j] \in Terminal THEN "removed" ELSE @[j]],
                !.order = SelectSeq(@, LAMBDA j : m.status[j] \notin Terminal)])

-----------------------------------------------------------------------------
(* The goroutine of the running job. *)

\* handleEvent: nothing is reported once the context is canceled.
Progress ==
    /\ m.active # "none" /\ m.returned = "none" /\ m.active \notin m.canceled
    /\ Len(m.events) < Capacity
    /\ m' = emitLocked(m, m.active)
    /\ UNCHANGED <<ui, closing, calls>>

\* Mutant: a download whose context is canceled does not return.
Return_Hangs ==
    /\ m.active # "none" /\ m.returned = "none" /\ m.active \notin m.canceled
    /\ \E result \in {"complete", "failed"} : m' = [m EXCEPT !.returned = result]
    /\ UNCHANGED <<ui, closing, calls>>

\* The download returns; the goroutine has still to get the mutex.
Return ==
    /\ m.active # "none" /\ m.returned = "none"
    /\ \E result \in {"complete", "failed"} : m' = [m EXCEPT !.returned = result]
    /\ UNCHANGED <<ui, closing, calls>>

\* Mutant: the next job waits for the next call.
Finish_Stalls ==
    /\ m.returned # "none"
    /\ apply(become([m EXCEPT !.active = "none", !.returned = "none"], m.active,
                    IF m.active \in m.canceled THEN "canceled" ELSE m.returned))
    /\ UNCHANGED <<ui, closing, calls>>

\* Mutant: a download that returned before it noticed is complete.
Finish_IgnoresCancel ==
    /\ m.returned # "none"
    /\ apply(maybeStartNextLocked(
          become([m EXCEPT !.active = "none", !.returned = "none"], m.active,
                 m.returned)))
    /\ UNCHANGED <<ui, closing, calls>>

Finish ==
    /\ m.returned # "none"
    /\ apply(maybeStartNextLocked(
          become([m EXCEPT !.active = "none", !.returned = "none"], m.active,
                 IF m.active \in m.canceled THEN "canceled" ELSE m.returned)))
    /\ UNCHANGED <<ui, closing, calls>>

-----------------------------------------------------------------------------
(* The listener and the shutdown of the application. *)

dispatchEvents ==
    /\ m.events # <<>>
    /\ LET event == Head(m.events)
       IN  ui' = [ui EXCEPT ![event.job] = event.status]
    /\ m' = [m EXCEPT !.events = Tail(@)]
    /\ UNCHANGED <<closing, calls>>

\* Mutant: only the running job is canceled.
BeginShutdown_ActiveOnly ==
    /\ ~closing.begun
    /\ closing' = [begun |-> TRUE, first |-> m.active,
                   left |-> {j \in Job : m.status[j] = "active"}]
    /\ UNCHANGED <<m, ui, calls>>

\* shutdown lists the jobs once and cancels them one by one, the running one
\* first; pending jobs of one second are in no particular order.
BeginShutdown ==
    /\ ~closing.begun
    /\ closing' = [begun |-> TRUE, first |-> m.active,
                   left |-> {j \in Job : m.status[j] \in {"pending", "active"}}]
    /\ UNCHANGED <<m, ui, calls>>

ShutdownCancel ==
    /\ \E j \in closing.left :
          /\ closing.first \in closing.left => j = closing.first
          /\ IF m.status[j] \in {"pending", "active"} THEN apply(cancel(m, j))
             ELSE UNCHANGED m
          /\ closing' = [closing EXCEPT !.left = @ \ {j}]
    /\ UNCHANGED <<ui, calls>>

Call == ClearTerminal \/ \E j \in Job : Submit(j) \/ Cancel(j) \/ Retry(j) \/ Remove(j)

Next ==
    \/ Call \/ Progress \/ Return \/ Finish \/ dispatchEvents
    \/ BeginShutdown \/ ShutdownCancel

Spec == Init /\ [][Next]_vars

\* Every download ends, the goroutines run, and a shutdown that began goes on.
FairSpec ==
    /\ Spec
    /\ WF_vars(Return) /\ WF_vars(Finish) /\ WF_vars(dispatchEvents)
    /\ WF_vars(ShutdownCancel)

-----------------------------------------------------------------------------
(* Properties. *)

\* The order is the pending jobs, each once, under every sequence of Submit,
\* Cancel, Retry, Remove and ClearTerminal: no entry is left behind that would
\* start a job twice.
OrderIsPending ==
    /\ \A j \in Job : m.status[j] = "pending" <=> \E i \in DOMAIN m.order : m.order[i] = j
    /\ \A i, k \in DOMAIN m.order : m.order[i] = m.order[k] => i = k

\* The queue never stalls and never runs two (maybeStartNextLocked): a job is active exactly when it is
\* the running one, and nothing is pending while nothing runs.
OneRunner ==
    /\ \A j \in Job : m.status[j] = "active" <=> m.active = j
    /\ m.active = "none" => m.returned = "none"
                            /\ \A j \in Job : m.status[j] # "pending"

\* The Manager's books agree with the jobs under every sequence of calls: the
\* order is what is pending and the running job is what is active (order, active
\* and status are three copies that every method updates by hand).
QueueIsConsistent == OrderIsPending /\ OneRunner

\* Once the channel is empty the interface shows the status of every job:
\* emitLocked blocks on a full channel rather than drop the latest state.
InterfaceAgrees ==
    m.events = <<>> => \A j \in Job : m.status[j] \in {"removed", ui[j]}

\* A running job that was canceled ends canceled, whatever its download returned
\* before it noticed (the first branch at the end of run).
CancelIsHonoured ==
    [][\A j \in m.canceled : m.status[j] = "active"
          => m'.status[j] \in {"active", "canceled"}]_vars

\* When shutdown has gone through its list, nothing is left but a job whose
\* context is canceled, also when jobs finished and started meanwhile.
ShutdownReachesAll ==
    closing.begun /\ closing.left = {} =>
        \A j \in Job : /\ m.status[j] # "pending"
                       /\ m.status[j] = "active" => j \in m.canceled

\* A queued job gets its turn and ends, or is removed: every way the running job
\* leaves goes through maybeStartNextLocked, and no sender blocks for ever.
NoStarvation ==
    \A j \in Job : m.status[j] = "pending" ~> m.status[j] \in Terminal \cup {"removed"}
=============================================================================
