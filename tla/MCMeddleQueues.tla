--------------------------- MODULE MCMeddleQueues ---------------------------
(* An instance of MeddleQueues for TLC. *)
EXTENDS MeddleQueues

CONSTANTS n1, n2, r1, md
=============================================================================
