------------------------------- MODULE MCCtpTd -------------------------------
(* An instance of CtpTd for TLC: no model values, so no symmetry.            *)
EXTENDS CtpTd
===============================================================================
