------------------------- MODULE PublicationArbiter -------------------------
(***************************************************************************)
(* The arbiter that serializes durable cancellation with output            *)
(* publication for one worker run (engine/publication_arbiter.go).         *)
(*                                                                         *)
(*   state        the arbiter's state, guarded by its mutex                *)
(*   activeGuard  the caller whose reservation is the live one             *)
(*   pc           where each caller is in BeginCancel or BeginPublication, *)
(*                or which reservation it holds                            *)
(*   asleep       the callers whose captured channel is still open         *)
(*   expired      the calls in progress whose context has expired          *)
(*   result       what the last call of each caller returned               *)
(*                                                                         *)
(* A critical section of the mutex is one step; the context check at the   *)
(* top of the loop and the select are steps of their own.  A caller that   *)
(* returned may call again with a new context.  Terminal operations on a   *)
(* reservation that is no longer live panic and are not modelled.          *)
(***************************************************************************)
EXTENDS Naturals, FiniteSets

CONSTANTS Canceler,    \* goroutines that call BeginCancel
          Publisher    \* goroutines that call BeginPublication

ASSUME CallerAssumption ==
    /\ Canceler \cap Publisher = {}
    /\ "none" \notin Canceler \cup Publisher

VARIABLES state, activeGuard, pc, asleep, expired, result

vars == <<state, activeGuard, pc, asleep, expired, result>>

Caller == Canceler \cup Publisher

Reserved == {"cancelReserved", "publicationReserved"}

Terminal == {"cancelWon", "publicationWon", "publicationIndeterminate"}

ArbiterState == {"open"} \cup Reserved \cup Terminal

\* waitingOnPublication is captured with the channel, so waiting has two forms.
Waiting == {"waiting", "waitingOnPublication"}

\* A holder reserved the arbiter; a publisher past MarkDestinationReplaced
\* still owes FinishPublication.
Location == {"idle", "looping", "locking", "holding", "replaced"} \cup Waiting

Result == {"none", "ctx.Err", "ErrCompletionInProgress", "ErrCancelAlreadyAccepted",
           "ErrCancelWon", "ErrAlreadyPublished", "ErrPublicationIndeterminate",
           "WinCancel", "FinishPublication", "MarkIndeterminate", "aborted"}

Init ==
    /\ state = "open"
    /\ activeGuard = "none"
    /\ pc = [c \in Caller |-> "idle"]
    /\ asleep = {}
    /\ expired = {}
    /\ result = [c \in Caller |-> "none"]

-----------------------------------------------------------------------------
(* Steps the two Begin operations have in common. *)

goto(c, location) == pc' = [pc EXCEPT ![c] = location]

return(c, value) ==
    /\ goto(c, "idle")
    /\ result' = [result EXCEPT ![c] = value]
    /\ expired' = expired \ {c}

\* Closing the channel wakes every caller that captured it.
signalChangeLocked == asleep' = {}

\* A new call, with a context that may already have expired.
Call(c) ==
    /\ pc[c] = "idle"
    /\ goto(c, "looping")
    /\ expired' \in {expired, expired \cup {c}}
    /\ UNCHANGED <<state, activeGuard, asleep, result>>

\* The context of a call in progress expires.
Expire(c) ==
    /\ pc[c] \in {"looping", "locking"} \cup Waiting
    /\ c \notin expired
    /\ expired' = expired \cup {c}
    /\ UNCHANGED <<state, activeGuard, pc, asleep, result>>

\* The context check at the top of the loop.
CheckContext(c) ==
    /\ pc[c] = "looping"
    /\ IF c \in expired
       THEN return(c, "ctx.Err")
       ELSE goto(c, "locking") /\ UNCHANGED <<expired, result>>
    /\ UNCHANGED <<state, activeGuard, asleep>>

\* The open case: a context that expired while the mutex was taken is refused.
reserve(c, reserved) ==
    IF c \in expired
    THEN return(c, "ctx.Err") /\ UNCHANGED <<state, activeGuard, asleep>>
    ELSE /\ state' = reserved
         /\ activeGuard' = c
         /\ goto(c, "holding")
         /\ signalChangeLocked
         /\ UNCHANGED <<expired, result>>

\* The default case: the current channel is captured under the mutex.
wait(c, location) ==
    /\ goto(c, location)
    /\ asleep' = asleep \cup {c}
    /\ UNCHANGED <<state, activeGuard, expired, result>>

refuse(c, error) == return(c, error) /\ UNCHANGED <<state, activeGuard, asleep>>

\* The critical section of BeginCancel.
BeginCancel(c) ==
    /\ pc[c] = "locking" /\ c \in Canceler
    /\ \/ state = "open" /\ reserve(c, "cancelReserved")
       \/ state = "cancelWon" /\ refuse(c, "ErrCancelAlreadyAccepted")
       \/ state = "publicationWon" /\ refuse(c, "ErrAlreadyPublished")
       \/ state = "publicationIndeterminate"
            /\ refuse(c, "ErrPublicationIndeterminate")
       \/ state = "cancelReserved" /\ wait(c, "waiting")
       \/ state = "publicationReserved" /\ wait(c, "waitingOnPublication")

\* The critical section of BeginPublication.
BeginPublication(c) ==
    /\ pc[c] = "locking" /\ c \in Publisher
    /\ \/ state = "open" /\ reserve(c, "publicationReserved")
       \/ state = "cancelWon" /\ refuse(c, "ErrCancelWon")
       \/ state = "publicationWon" /\ refuse(c, "ErrAlreadyPublished")
       \/ state = "publicationIndeterminate"
            /\ refuse(c, "ErrPublicationIndeterminate")
       \/ state \in Reserved /\ wait(c, "waiting")

\* Mutant: a wait is left only for its context.
Wake_Misses(c) ==
    /\ pc[c] \in Waiting
    /\ c \notin asleep /\ c \in expired
    /\ goto(c, "looping")
    /\ UNCHANGED <<state, activeGuard, asleep, expired, result>>

\* The channel case of the select.
Wake(c) ==
    /\ pc[c] \in Waiting
    /\ c \notin asleep
    /\ goto(c, "looping")
    /\ UNCHANGED <<state, activeGuard, asleep, expired, result>>

\* Mutant: an expired wait tries again.
TimeOut_Retries(c) ==
    /\ pc[c] \in Waiting
    /\ c \in expired
    /\ goto(c, "locking")
    /\ asleep' = asleep \ {c}
    /\ UNCHANGED <<state, activeGuard, expired, result>>

\* The context case of the select.
TimeOut(c) ==
    /\ pc[c] \in Waiting
    /\ c \in expired
    /\ return(c, IF pc[c] = "waitingOnPublication" THEN "ErrCompletionInProgress"
                                                   ELSE "ctx.Err")
    /\ asleep' = asleep \ {c}
    /\ UNCHANGED <<state, activeGuard>>

-----------------------------------------------------------------------------
(* Terminal operations of a reservation.  Each panics unless the caller's  *)
(* guard is the active one and the state is the reserved one.              *)

valid(c, reserved) == activeGuard = c /\ state = reserved

terminal(c, next, value) ==
    /\ state' = next
    /\ activeGuard' = "none"
    /\ return(c, value)
    /\ signalChangeLocked

WinCancel(c) ==
    /\ pc[c] = "holding" /\ c \in Canceler /\ valid(c, "cancelReserved")
    /\ terminal(c, "cancelWon", "WinCancel")

AbortCancel(c) ==
    /\ pc[c] = "holding" /\ c \in Canceler /\ valid(c, "cancelReserved")
    /\ terminal(c, "open", "aborted")

MarkDestinationReplaced(c) ==
    /\ pc[c] = "holding" /\ c \in Publisher /\ valid(c, "publicationReserved")
    /\ state' = "publicationWon"
    /\ goto(c, "replaced")
    /\ signalChangeLocked
    /\ UNCHANGED <<activeGuard, expired, result>>

FinishPublication(c) ==
    /\ pc[c] = "replaced" /\ valid(c, "publicationWon")
    /\ terminal(c, state, "FinishPublication")

MarkIndeterminate(c) ==
    /\ pc[c] = "holding" /\ c \in Publisher /\ valid(c, "publicationReserved")
    /\ terminal(c, "publicationIndeterminate", "MarkIndeterminate")

\* Mutant: giving a publication up counts as a cancellation.
AbortBeforeReplace_Cancels(c) ==
    /\ pc[c] = "holding" /\ c \in Publisher /\ valid(c, "publicationReserved")
    /\ terminal(c, "cancelWon", "aborted")

AbortBeforeReplace(c) ==
    /\ pc[c] = "holding" /\ c \in Publisher /\ valid(c, "publicationReserved")
    /\ terminal(c, "open", "aborted")

-----------------------------------------------------------------------------

\* The steps a running goroutine takes by itself.
Step(c) ==
    \/ CheckContext(c) \/ BeginCancel(c) \/ BeginPublication(c)
    \/ Wake(c) \/ TimeOut(c)

\* The terminal operations the holder of a reservation owes.
Finish(c) ==
    \/ WinCancel(c) \/ AbortCancel(c)
    \/ MarkDestinationReplaced(c) \/ FinishPublication(c)
    \/ MarkIndeterminate(c) \/ AbortBeforeReplace(c)

Next == \E c \in Caller : Call(c) \/ Expire(c) \/ Step(c) \/ Finish(c)

\* Goroutines are scheduled fairly; holders finish ("until exactly one terminal
\* operation is called"); nobody is obliged to call and no context to expire.
Fairness == \A c \in Caller : WF_vars(Step(c)) /\ WF_vars(Finish(c))

Spec == Init /\ [][Next]_vars

FairSpec == Spec /\ Fairness

-----------------------------------------------------------------------------
(* Properties. *)

\* The arbiter and its callers stay in their types (PublicationArbiter).
TypeOK ==
    /\ state \in ArbiterState
    /\ activeGuard \in Caller \cup {"none"}
    /\ pc \in [Caller -> Location]
    /\ asleep \in SUBSET Caller
    /\ expired \in SUBSET Caller
    /\ result \in [Caller -> Result]

\* A caller that holds a reservation passes the check its terminal operation
\* makes, so the only panics are those of a caller that ends a reservation
\* twice.  In particular at most one reservation is live.
HolderIsValid ==
    \A c \in Caller :
        /\ pc[c] = "holding" =>
               valid(c, IF c \in Canceler THEN "cancelReserved"
                                          ELSE "publicationReserved")
        /\ pc[c] = "replaced" => c \in Publisher /\ valid(c, "publicationWon")

\* No lost wakeup: a caller sleeps on an open channel only while somebody holds
\* a reservation that will close it.
NoLostWakeup ==
    \A c \in Caller :
        pc[c] \in Waiting /\ c \in asleep =>
            \E h \in Caller : pc[h] = "holding" /\ activeGuard = h

\* What an answer says stays true: no caller is told that the cancellation won
\* while another is, or will be, told that the output was published.
AnswersAgree ==
    \A c \in Caller :
        /\ result[c] \in {"WinCancel", "ErrCancelAlreadyAccepted", "ErrCancelWon"}
             => state = "cancelWon"
        /\ result[c] \in {"FinishPublication", "ErrAlreadyPublished"}
             => state = "publicationWon"
        /\ result[c] \in {"MarkIndeterminate", "ErrPublicationIndeterminate"}
             => state = "publicationIndeterminate"

\* "BeginCancel waits for any in-flight reservation or for ctx to expire": a
\* waiting call always comes back, to try again or to return.
WaitsEnd == \A c \in Caller : (pc[c] \in Waiting) ~> (pc[c] \notin Waiting)

\* A call whose context has expired returns.
ExpiredReturns ==
    \A c \in Caller :
        (pc[c] \in {"looping", "locking"} \cup Waiting /\ c \in expired)
            ~> (pc[c] = "idle")

\* The arbiter implements the decision it promises: one of cancellation,
\* publication and doubt, taken once, by the one holder of the reservation.
Decision == INSTANCE PublicationDecision WITH
    decision <- IF state \in Terminal THEN state ELSE "undecided",
    holder   <- IF state \in Reserved THEN activeGuard ELSE "none"

ImplementsDecision == Decision!Spec
=============================================================================
