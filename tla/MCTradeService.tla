--------------------------- MODULE MCTradeService ---------------------------
(* Instances of TradeService for TLC. *)
EXTENDS TradeService, TLC

CONSTANTS h1, h2, m1, m2, t1

\* Threads of one kind are interchangeable.
Symmetry == Permutations(Handler) \cup Permutations(MdSource)
=============================================================================
