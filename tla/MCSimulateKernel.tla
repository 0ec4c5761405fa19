-------------------------- MODULE MCSimulateKernel --------------------------
(* An instance of SimulateKernel for TLC: two files that overlap, the second *)
(* one begins later; their instruments have the other order of names.        *)
EXTENDS SimulateKernel

Ask(p, v) == [price |-> p, volume |-> v]
TickAt(t, last, asks) == [time |-> t, last |-> last, asks |-> asks]

TwoFiles ==
  << <<TickAt(0, 2, <<Ask(3, 1)>>), TickAt(1, 1, <<Ask(3, 1), Ask(3, 1)>>),
       TickAt(3, 2, <<Ask(1, 1), Ask(2, 1)>>)>>,
     <<TickAt(1, 2, <<Ask(2, 1), Ask(3, 1)>>), TickAt(2, 2, <<Ask(2, 2)>>)>> >>

OtherWay == <<2, 1>>
=============================================================================
