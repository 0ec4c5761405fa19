---------------------------- MODULE OrderTickets ----------------------------
(***************************************************************************)
(* The daily tickets of one strategy (trade/trade_service.cpp): every      *)
(* opening order (LB1_Increase) takes one in MakeOrder, the first one of a *)
(* UTC day refills them, and the operator sets them with                   *)
(* reqsetordertickets.  The counters are atomics, but MakeOrder and        *)
(* ReqSetOrderTickets both share m_mtxAllStrategys, so their loads and     *)
(* stores interleave: each one is a step.                                  *)
(***************************************************************************)
EXTENDS Integers

CONSTANTS
  Caller,      \* threads that can be in MakeOrder for this strategy
  Operator,    \* net handler threads
  W,           \* the counters are unsigned integers modulo W (2^64)
  MinTicket,   \* bound: the smallest number an operator asks for ...
  MaxTicket,   \* ... and the largest
  MaxUsed,     \* bound: opening orders started between two refills
  MaxDay       \* bound: days of a behaviour

ASSUME TicketAssumption ==
  /\ MinTicket \in Int /\ MaxTicket \in Nat /\ W \in Nat \ {0}
  /\ -W < MinTicket /\ MinTicket <= 0 /\ MaxTicket - MinTicket < W
  /\ MaxUsed \in Nat /\ MaxDay \in Nat
  /\ Caller \cap Operator = {}

VARIABLES
  max,         \* m_uMaxIncreaseOrderCountPerDay
  remain,      \* m_uRemainIncreaseOrderCountPerDay
  actionDate,  \* m_dateActionDate
  today,       \* the UTC date
  pc,          \* where a thread is in MakeOrder or ReqSetOrderTickets
  arg,         \* the value a thread has loaded, or the request it serves
  filled,      \* the value that was last stored into remain
  used,        \* opening orders that took a ticket since then
  overlap      \* two of the threads have been inside at the same time

vars == <<max, remain, actionDate, today, pc, arg, filled, used, overlap>>

Thread == Caller \cup Operator
Ticket == MinTicket .. MaxTicket   \* what atoi makes of the numbers of a request
Count  == 0 .. W - 1
Quiet  == \A x \in Thread : pc[x] = "idle"

Init ==
  /\ max \in 0 .. MaxTicket /\ remain = max
  /\ actionDate = 0 /\ today = 0
  /\ pc = [x \in Thread |-> "idle"] /\ arg = [x \in Thread |-> <<0, 0>>]
  /\ filled = max /\ used = 0 /\ overlap = FALSE

Goto(x, from, to) == pc[x] = from /\ pc' = [pc EXCEPT ![x] = to]
Enters(x, to)     == Goto(x, "idle", to) /\ overlap' = (overlap \/ ~Quiet)
Stores(v)         == remain' = v % W /\ filled' = v % W /\ used' = 0

-----------------------------------------------------------------------------
(* MakeOrder with LB1_Increase *)

\* The date is compared with the date of the last opening order.
CompareDate(c) ==
  /\ used < MaxUsed
  /\ Enters(c, IF actionDate = today THEN "check" ELSE "load")
  /\ UNCHANGED <<max, remain, actionDate, today, arg, filled, used>>

\* remain.store(max.load()): the load ...
LoadMax(c) ==
  /\ Goto(c, "load", "store")
  /\ arg' = [arg EXCEPT ![c] = <<max, max>>]
  /\ UNCHANGED <<max, remain, actionDate, today, filled, used, overlap>>

\* ... and the store, and the clock is read once more.
StoreRemain(c) ==
  /\ Goto(c, "store", "check")
  /\ Stores(arg[c][2])
  /\ actionDate' = today
  /\ UNCHANGED <<max, today, arg, overlap>>

\* (mutant) the counter is not compared with zero.
AlwaysTicket(c) ==
  /\ Goto(c, "check", "take")
  /\ UNCHANGED <<max, remain, actionDate, today, arg, filled, used, overlap>>

\* No ticket is left: LB1_NullOrderRef.  Otherwise one is taken next.
CheckTicket(c) ==
  /\ Goto(c, "check", IF remain = 0 THEN "idle" ELSE "take")
  /\ UNCHANGED <<max, remain, actionDate, today, arg, filled, used, overlap>>

\* The atomic decrement wraps.  The order then goes to the trade source, and
\* the ticket is gone even when that is offline.
TakeTicket(c) ==
  /\ Goto(c, "take", "idle")
  /\ remain' = (remain - 1) % W
  /\ used' = used + 1
  /\ UNCHANGED <<max, actionDate, today, arg, filled, overlap>>

-----------------------------------------------------------------------------
(* ReqSetOrderTickets *)

\* (mutant) remainticket is not compared with maxticket.
RequestAnything(o) ==
  /\ Enters(o, "setmax")
  /\ \E m, r \in Ticket : arg' = [arg EXCEPT ![o] = <<m, r>>]
  /\ UNCHANGED <<max, remain, actionDate, today, filled, used>>

\* A request with more remaining tickets than the maximum is refused; the
\* numbers are signed here and unsigned where they are stored.
Request(o) ==
  /\ Enters(o, "setmax")
  /\ \E m, r \in Ticket : r <= m /\ arg' = [arg EXCEPT ![o] = <<m, r>>]
  /\ UNCHANGED <<max, remain, actionDate, today, filled, used>>

SetMax(o) ==
  /\ Goto(o, "setmax", "setremain")
  /\ max' = arg[o][1] % W
  /\ UNCHANGED <<remain, actionDate, today, arg, filled, used, overlap>>

SetRemain(o) ==
  /\ Goto(o, "setremain", "idle")
  /\ Stores(arg[o][2])
  /\ UNCHANGED <<max, actionDate, today, arg, overlap>>

\* The date changes.
NextDay ==
  /\ today < MaxDay
  /\ today' = today + 1
  /\ UNCHANGED <<max, remain, actionDate, pc, arg, filled, used, overlap>>

Next ==
  \/ \E c \in Caller : \/ CompareDate(c) \/ LoadMax(c) \/ StoreRemain(c)
                       \/ CheckTicket(c) \/ TakeTicket(c)
  \/ \E o \in Operator : Request(o) \/ SetMax(o) \/ SetRemain(o)
  \/ NextDay

Spec == Init /\ [][Next]_vars

-----------------------------------------------------------------------------
(* Properties *)

\* Every variable has its type.
TypeOK ==
  /\ max \in Count /\ remain \in Count
  /\ actionDate \in 0 .. MaxDay /\ today \in 0 .. MaxDay
  /\ pc \in [Thread -> {"idle", "load", "store", "check", "take", "setmax", "setremain"}]
  /\ arg \in [Thread -> (Ticket \cup Count) \X (Ticket \cup Count)]
  /\ filled \in Count /\ used \in Nat /\ overlap \in BOOLEAN

\* What a thread that is alone in the two handlers may rely on.
SerialInv ==
  ~overlap =>
    /\ \A x, y \in Thread : pc[x] # "idle" /\ pc[y] # "idle" => x = y
    /\ used + remain = filled
    /\ \A c \in Caller : /\ pc[c] = "take" => remain > 0
                         /\ pc[c] = "store" => arg[c][2] = max
                         /\ pc[c] \notin {"setmax", "setremain"}
    /\ \A o \in Operator : /\ pc[o] \in {"setmax", "setremain"} =>
                                arg[o] \in Ticket \X Ticket /\ arg[o][2] <= arg[o][1]
                           /\ pc[o] = "setremain" => max = arg[o][1] % W
                           /\ pc[o] \in {"idle", "setmax", "setremain"}
    /\ (\A o \in Operator : pc[o] # "setremain") => remain <= max \/ filled > MaxTicket

\* As long as the handlers never overlap, no opening order goes out without
\* a ticket: those since the last refill are what was filled less what is
\* left.
NoOverdraft == ~overlap => used + remain = filled

\* The remaining tickets exceed the maximum only after two handlers have
\* overlapped, or the operator asked for a negative number of them.
ExceedsOnlyByOverlap == Quiet /\ remain > max => overlap \/ filled > MaxTicket

=============================================================================
