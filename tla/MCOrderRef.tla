------------------------------ MODULE MCOrderRef ------------------------------
(* Instances of OrderRef for TLC. *)
EXTENDS OrderRef, TLC

CONSTANTS p1, p2

Kinds == {[custom |-> 7, direction |-> 1, offset |-> 3]}

\* Processes are interchangeable.
Symmetry == Permutations(Process)
===============================================================================
