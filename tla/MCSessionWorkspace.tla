------------------------- MODULE MCSessionWorkspace -------------------------
(* A workspace with one component, two destinations and two runs. *)
EXTENDS SessionWorkspace
=============================================================================
