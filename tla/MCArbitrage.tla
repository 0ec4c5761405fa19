---------------------------- MODULE MCArbitrage -----------------------------
(* An instance of Arbitrage for TLC: a strategy of two copies; the others of  *)
(* its host are in the variable "others".                                     *)
EXTENDS Arbitrage
CONSTANT s1
MCStrategy == {s1}
MCMaxCopies == [s \in MCStrategy |-> 2]
MCMaxRef == [s \in MCStrategy |-> 4]
=============================================================================
