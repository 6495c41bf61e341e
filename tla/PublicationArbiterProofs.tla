---------------------- MODULE PublicationArbiterProofs ----------------------
(***************************************************************************)
(* Proofs about PublicationArbiter, for any sets of callers.               *)
(***************************************************************************)
EXTENDS PublicationArbiter, TLAPS

\* A reserved arbiter has its holder.
ReservationIsHeld ==
    state \in Reserved =>
        activeGuard \in Caller /\ pc[activeGuard] = "holding"

\* Only a reserved arbiter leaves a caller asleep.
SleepersAreGuarded ==
    \A c \in Caller : pc[c] \in Waiting /\ c \in asleep => state \in Reserved

\* The invariant the step lemma carries.
IInv ==
    /\ TypeOK
    /\ HolderIsValid
    /\ ReservationIsHeld
    /\ SleepersAreGuarded
    /\ AnswersAgree

LEMMA InitEstablishes == Init => IInv
  BY DEF Init, IInv, TypeOK, HolderIsValid, ReservationIsHeld, SleepersAreGuarded,
         AnswersAgree, ArbiterState, Reserved, Terminal, Waiting, Location, Result

LEMMA StepPreserves == IInv /\ [Next]_vars => IInv'
<1> SUFFICES ASSUME IInv, [Next]_vars PROVE IInv'
  OBVIOUS
<1> USE DEF IInv, TypeOK, HolderIsValid, ReservationIsHeld, SleepersAreGuarded,
            AnswersAgree, ArbiterState, Reserved, Terminal, Waiting, Location,
            Result, valid, goto, return
<1>1. CASE UNCHANGED vars
  BY <1>1 DEF vars
<1>2. ASSUME NEW c \in Caller, Call(c) PROVE IInv'
  BY <1>2 DEF Call
<1>3. ASSUME NEW c \in Caller, Expire(c) PROVE IInv'
  BY <1>3 DEF Expire
<1>4. ASSUME NEW c \in Caller, CheckContext(c) PROVE IInv'
  BY <1>4 DEF CheckContext
<1>5. ASSUME NEW c \in Caller, BeginCancel(c) PROVE IInv'
  BY <1>5, CallerAssumption
     DEF BeginCancel, reserve, refuse, wait, signalChangeLocked, Caller
<1>6. ASSUME NEW c \in Caller, BeginPublication(c) PROVE IInv'
  BY <1>6, CallerAssumption
     DEF BeginPublication, reserve, refuse, wait, signalChangeLocked, Caller
<1>7. ASSUME NEW c \in Caller, Wake(c) PROVE IInv'
  BY <1>7 DEF Wake
<1>8. ASSUME NEW c \in Caller, TimeOut(c) PROVE IInv'
  BY <1>8 DEF TimeOut
<1>9. ASSUME NEW c \in Caller, Finish(c) PROVE IInv'
  BY <1>9, CallerAssumption
     DEF Finish, WinCancel, AbortCancel, MarkDestinationReplaced,
         FinishPublication, MarkIndeterminate, AbortBeforeReplace, terminal,
         signalChangeLocked, Caller
<1> QED
  BY <1>1, <1>2, <1>3, <1>4, <1>5, <1>6, <1>7, <1>8, <1>9 DEF Next, Step

LEMMA Invariance == Spec => []IInv
  BY InitEstablishes, StepPreserves, PTL DEF Spec

\* The arbiter and its callers stay in their declared states.
THEOREM ArbiterTypeCorrect == Spec => []TypeOK
  BY Invariance, PTL DEF IInv

\* The holder of a reservation passes the check of its terminal operations, for
\* any number of cancelers and publishers: WinCancel and the others never panic
\* on a reservation that is used once.
THEOREM HolderNeverPanics == Spec => []HolderIsValid
  BY Invariance, PTL DEF IInv

\* signalChangeLocked is called wherever a sleeping caller could be forgotten.
THEOREM NobodyForgotten == Spec => []NoLostWakeup
<1>1. IInv => NoLostWakeup
  BY DEF IInv, NoLostWakeup, ReservationIsHeld, SleepersAreGuarded
<1> QED BY <1>1, Invariance, PTL

\* Cancellation and publication never both win, whoever asks and whenever.
THEOREM OneAnswer == Spec => []AnswersAgree
  BY Invariance, PTL DEF IInv

\* The arbiter, with its mutex, contexts and channels, implements the decision
\* taken once by the one holder of the reservation.
THEOREM ArbiterImplementsDecision == Spec => ImplementsDecision
<1>1. Init => Decision!Init
  BY DEF Init, Decision!Init, Reserved, Terminal
<1>2. IInv /\ [Next]_vars => [Decision!Next]_Decision!vars
  <2> SUFFICES ASSUME IInv, [Next]_vars
               PROVE  [Decision!Next]_Decision!vars
    OBVIOUS
  <2> USE DEF IInv, HolderIsValid, ReservationIsHeld, Reserved, Terminal, valid,
              Decision!vars, Decision!Next
  <2>1. CASE UNCHANGED <<state, activeGuard>>
    BY <2>1
  <2>2. ASSUME NEW c \in Caller, BeginCancel(c)
        PROVE  [Decision!Next]_Decision!vars
    BY <2>2 DEF BeginCancel, reserve, refuse, wait, Decision!Reserve, Caller
  <2>3. ASSUME NEW c \in Caller, BeginPublication(c)
        PROVE  [Decision!Next]_Decision!vars
    BY <2>3 DEF BeginPublication, reserve, refuse, wait, Decision!Reserve, Caller
  <2>4. ASSUME NEW c \in Caller, WinCancel(c) \/ AbortCancel(c)
        PROVE  [Decision!Next]_Decision!vars
    BY <2>4, CallerAssumption
       DEF WinCancel, AbortCancel, terminal, Decision!Decide, Decision!Release, Caller
  <2>5. ASSUME NEW c \in Caller, MarkDestinationReplaced(c)
        PROVE  [Decision!Next]_Decision!vars
    BY <2>5, CallerAssumption
       DEF MarkDestinationReplaced, Decision!Decide, Caller
  <2>6. ASSUME NEW c \in Caller, MarkIndeterminate(c) \/ AbortBeforeReplace(c)
        PROVE  [Decision!Next]_Decision!vars
    BY <2>6, CallerAssumption
       DEF MarkIndeterminate, AbortBeforeReplace, terminal, Decision!Decide,
           Decision!Release, Caller
  <2>7. ASSUME NEW c \in Caller, FinishPublication(c)
        PROVE  [Decision!Next]_Decision!vars
    BY <2>7 DEF FinishPublication, terminal
  <2>8. ASSUME NEW c \in Caller,
               Call(c) \/ Expire(c) \/ CheckContext(c) \/ Wake(c) \/ TimeOut(c)
        PROVE  UNCHANGED <<state, activeGuard>>
    BY <2>8 DEF Call, Expire, CheckContext, Wake, TimeOut
  <2> QED
    BY <2>1, <2>2, <2>3, <2>4, <2>5, <2>6, <2>7, <2>8
       DEF Next, Step, Finish, vars
<1> QED
  BY <1>1, <1>2, Invariance, PTL DEF Spec, ImplementsDecision, Decision!Spec
=============================================================================
