--------------------------- MODULE MCOrderTickets ---------------------------
(* Instances of OrderTickets for TLC. *)
EXTENDS OrderTickets

CONSTANTS c1, c2, o1

\* A number of a request may be negative.
MinusOne == -1
=============================================================================
