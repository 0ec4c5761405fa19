------------------------------- MODULE MCCtpMd -------------------------------
(* Instances of CtpMd for TLC.  The runs have no symmetry: they check        *)
(* liveness, or are small.                                                   *)
EXTENDS CtpMd

CONSTANTS s1, s2
===============================================================================
