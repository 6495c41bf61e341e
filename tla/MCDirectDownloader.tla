------------------------- MODULE MCDirectDownloader -------------------------
(***************************************************************************)
(* Small instances of DirectDownloader: two representations of one length. *)
(***************************************************************************)
EXTENDS DirectDownloader

Tags == [r \in {"A", "B"} |-> r]

ThreeBytes == [r \in {"A", "B"} |-> 3]
=============================================================================
