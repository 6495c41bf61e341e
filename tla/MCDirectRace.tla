---------------------------- MODULE MCDirectRace ----------------------------
(***************************************************************************)
(* Two instances of DirectSession in one: sessions that race for one       *)
(* destination and are not interrupted, and one session alone that is and  *)
(* that gets the same bytes whenever it transfers again.                   *)
(***************************************************************************)
EXTENDS DirectSession

CONSTANTS d1, f1, f2, s1, s2, etag

VARIABLE party   \* the sessions that are run

alone == party # Session

MCInit == Init /\ party \in {Session, {s1}}

MCNext ==
    /\ \E s \in party :
        \/ Step(s) \/ Restart(s) \/ Crash(s)
        \/ alone /\ (Expire(s) \/ BeginCancel(s) \/ EndCancel(s))
    /\ alone => area'[s1].payload \in {"none", f1}
    /\ UNCHANGED party

MCSpec == MCInit /\ [][MCNext]_<<vars, party>>

MCFairSpec == MCSpec /\ Fairness(s1)

=============================================================================
