----------------------------- MODULE OrderLife ------------------------------
(***************************************************************************)
(* What the backtest promises a strategy about its orders: the reports of  *)
(* an order, one after the other, and when its cancellation takes hold.    *)
(* It knows no ticks, prices and delays; SimulateKernel implements it.     *)
(***************************************************************************)
EXTENDS Integers

CONSTANTS
  Order,      \* the orders a strategy may place
  Volume      \* the volumes of them, positive numbers

VARIABLES
  told,       \* what the strategy has heard of each order
  asked,      \* the orders it has cancelled, as far as that is still known
  late        \* those it cancelled while a trade or the end of it was reported

life == <<told, asked, late>>

Heard == {"unplaced", "nothing", "queueing", "trade", "part", "all", "canceled"}

Told == [heard : Heard, volume : Volume \cup {0}, traded : Nat, ends : 0 .. 2]

LifeTypeOK ==
  /\ told \in [Order -> Told]
  /\ asked \subseteq Order /\ late \subseteq Order

Unplaced == [heard |-> "unplaced", volume |-> 0, traded |-> 0, ends |-> 0]

LifeInit ==
  /\ told = [o \in Order |-> Unplaced]
  /\ asked = {} /\ late = {}

Place(o, v) ==
  /\ told[o] = Unplaced
  /\ told' = [told EXCEPT ![o].heard = "nothing", ![o].volume = v]
  /\ UNCHANGED <<asked, late>>

\* The order waits in the queue of the market.
Queue(o) ==
  /\ told[o].heard = "nothing"
  /\ told' = [told EXCEPT ![o].heard = "queueing"]
  /\ UNCHANGED <<asked, late>>

\* A cancelled order trades no more, unless it was cancelled before its first
\* trade: then a trade may undo the cancellation.
Trade(o, v) ==
  /\ told[o].heard \in {"queueing", "part"}
  /\ o \in asked => told[o].traded = 0
  /\ told[o].traded + v <= told[o].volume
  /\ told' = [told EXCEPT ![o].heard = "trade", ![o].traded = @ + v]
  /\ asked' = asked \ {o}
  /\ UNCHANGED late

\* Each trade is followed by the new status of the order.
Status(o) ==
  /\ told[o].heard = "trade" /\ o \notin late
  /\ told' = IF told[o].traded = told[o].volume
               THEN [told EXCEPT ![o].heard = "all", ![o].ends = 1]
               ELSE [told EXCEPT ![o].heard = "part"]
  /\ UNCHANGED <<asked, late>>

Ask(o) ==
  /\ told[o].heard \in {"queueing", "part"}
  /\ asked' = asked \cup {o}
  /\ UNCHANGED <<told, late>>

\* Asked in the callback of a trade, or in the one that reports the end.
AskLate(o) ==
  /\ told[o].heard \in {"trade", "all"} /\ o \notin late
  /\ asked' = asked \cup {o} /\ late' = late \cup {o}
  /\ UNCHANGED told

\* A cancelled order ends once, one that was cancelled late may end twice.
End(o) ==
  /\ o \in asked
  /\ \/ told[o].heard \in {"queueing", "part"}
     \/ o \in late /\ told[o].heard \in {"trade", "all", "canceled"}
  /\ told[o].ends < 2
  /\ told' = [told EXCEPT ![o].heard = "canceled", ![o].ends = @ + 1]
  /\ UNCHANGED <<asked, late>>

LifeNext ==
  \E o \in Order :
    \/ \E v \in Volume : Place(o, v)
    \/ \E v \in 1 .. told[o].volume : Trade(o, v)
    \/ Queue(o) \/ Status(o) \/ Ask(o) \/ AskLate(o) \/ End(o)

LifeSpec == LifeInit /\ [][LifeNext]_life
-----------------------------------------------------------------------------
\* No order trades more than its volume, and it is reported as traded
\* entirely only when it is.
TradedWithinVolume ==
  \A o \in Order : /\ told[o].traded <= told[o].volume
                   /\ told[o].heard = "all" => told[o].traded = told[o].volume

\* A strategy hears of the end of an order at most once, unless it cancelled
\* the order in the callback of a trade or of its end.
OneEnd == \A o \in Order : o \notin late => told[o].ends <= 1

\* An order that was reported as canceled had been cancelled by the strategy.
CanceledWasAsked == \A o \in Order : told[o].heard = "canceled" => o \in asked
=============================================================================
