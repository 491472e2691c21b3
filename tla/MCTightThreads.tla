--------------------------- MODULE MCTightThreads ---------------------------
(* Small instances of TightThreads, with two clients. *)
EXTENDS TightThreads

CONSTANTS c1, c2
=============================================================================
