-------------------------- MODULE MCDirectSession --------------------------
(***************************************************************************)
(* Small instances of DirectSession.                                       *)
(***************************************************************************)
EXTENDS DirectSession, TLC

CONSTANTS d1, d2, f1, f2, s1, s2, etag

Symmetry == Permutations({f1, f2})
=============================================================================
