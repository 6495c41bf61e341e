--------------------------- MODULE MCArchiveStore ---------------------------
(***************************************************************************)
(* Small instances of ArchiveStore: a legacy record and its identity.      *)
(***************************************************************************)
EXTENDS ArchiveStore, TLC

CONSTANTS p1, p2, p3

Renamed == [r \in {"legacy", "id"} |-> "id"]

Permuted == Permutations(Process)
=============================================================================
