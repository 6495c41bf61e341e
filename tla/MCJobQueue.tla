----------------------------- MODULE MCJobQueue -----------------------------
(***************************************************************************)
(* A small instance of JobQueue.                                           *)
(***************************************************************************)
EXTENDS JobQueue

CONSTANTS j1, j2, j3
=============================================================================
