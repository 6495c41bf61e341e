------------------------ MODULE MCPublicationArbiter ------------------------
(***************************************************************************)
(* Two cancelers and the one publisher of a run: a waiter of each kind     *)
(* behind a holder of each kind.                                           *)
(***************************************************************************)
EXTENDS PublicationArbiter
=============================================================================
