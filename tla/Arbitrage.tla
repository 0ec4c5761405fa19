----------------------------- MODULE Arbitrage ------------------------------
(***************************************************************************)
(* The arbitrage strategy: it buys one leg of a spread and sells the other *)
(* one.  The order of the Minuend goes out first; its first trade sends    *)
(* the order of the Subtrahend.  An order that waits too long is canceled  *)
(* and, where it was traded in part, placed again for the rest.  Several   *)
(* strategies of a host share a number of copies: an opening locks some of *)
(* them, the closing or a cancelled opening gives them back.               *)
(*                                                                         *)
(* The handlers of one strategy exclude each other by its mutex, so each   *)
(* is one step, but for OnTick, which is two: the resets of the base class *)
(* and what the derived class does on a signal or a command of the         *)
(* operator.  A tick with both does what two ticks do.                     *)
(* Orders live at an exchange that accepts, refuses, fills and cancels     *)
(* them, and whose reports wait in a queue for each strategy.              *)
(*                                                                         *)
(* Both directions of a spread are alike, so that a position is a number.  *)
(* Prices, fees, bars and logs are left out: a signal may come at any      *)
(* tick.                                                                   *)
(***************************************************************************)
EXTENDS SharedValues, Sequences, FiniteSetsExt, Functions

CONSTANTS
  Strategy,       \* the strategies that share the value
  Lively,         \* those of them whose ticks and reports keep coming
  MaxCopies,      \* for each strategy its m_intCopies, and the bound of it
  MaxRef,         \* for each strategy a bound on the number of its orders
  Limits,         \* the numbers an operator gives the shared value
  MaxModify,      \* bound on the number of times
  MaxMeddle,      \* bound on the commands an operator sends to the strategies
  UIntSize        \* the number of values of an unsigned int

ASSUME ArbitrageAssumption ==
  /\ IsFiniteSet(Strategy) /\ Lively \subseteq Strategy
  /\ UIntSize \in Nat /\ MaxCopies \in [Strategy -> 1 .. UIntSize - 1]
  /\ MaxRef \in [Strategy -> Nat]
  /\ Limits \subseteq Nat
  /\ MaxModify \in Nat /\ MaxMeddle \in Nat

VARIABLES
  pc,         \* per strategy: "none", "idle", or the second half of an OnTick
  pedding,    \* m_booIsPedding
  locked,     \* m_uLockedCopies
  copies,     \* m_intCopies
  leg,        \* m_Order and m_Position of both legs
  orders,     \* the orders of a strategy at the exchange, the reference is the index
  reports,    \* the reports on their way to a strategy
  others,     \* the copies that other strategies of the host have locked
  total,      \* the copies an operator has put into the shared value
  odd,        \* what went wrong for a strategy, for the properties
  modified,   \* how often the shared value was set
  meddled     \* how many commands were sent

vars == <<sharedValue, pc, pedding, locked, copies, leg, orders, reports,
          others, total, odd, modified, meddled>>

Legs == {"Minuend", "Subtrahend"}
Other(l) == IF l = "Minuend" THEN "Subtrahend" ELSE "Minuend"

\* The two halves of a leg: "in" opens it (inRef, T_OI_...), "out" closes it.
Half == {"in", "out"}
Ini == [in |-> "T_OI_INI", out |-> "T_OO_INI"]
Waiting == [in |-> "T_OI_W", out |-> "T_OO_W"]
Finished == [in |-> "T_OI_F", out |-> "T_OO_F"]
TradeState == {"T_INI"} \cup {Ini[h] : h \in Half}
              \cup {Waiting[h] : h \in Half} \cup {Finished[h] : h \in Half}

NullRef == 0          \* LB1_NullOrderRef, and the reference before an order
Refs(s) == 1 .. MaxRef[s]

Odd == {"refused",    \* an order got no reference, or no report
        "late",       \* a trade was reported after the end of its order
        "clear",      \* the command "clear" met legs that had work under way
        "resized"}    \* the number of copies was changed during an opening

Leg ==
  [state : TradeState, ref : [Half -> Nat], sys : [Half -> Nat],
   vol : Nat \ {0}, deal : Nat, pos : 0 .. UIntSize - 1]

Order ==
  [leg : Legs, half : Half, vol : Nat, traded : Nat,
   status : {"sent", "live", "ended"}, cancel : BOOLEAN]

Report ==
  [kind : {"trade"}, ref : Nat, volume : Nat]
  \cup [kind : {"queueing"}, ref : Nat]
  \cup [kind : {"canceled"}, ref : Nat, traded : Nat, remain : Nat]

TypeOK ==
  /\ sharedValue \in Int \cup {NoValue}
  /\ pc \in [Strategy -> {"none", "idle", "tick"}]
  /\ pedding \in [Strategy -> BOOLEAN]
  /\ locked \in [Strategy -> Nat] /\ copies \in [Strategy -> Nat]
  /\ \A s \in Strategy : copies[s] \in 1 .. MaxCopies[s]
  /\ leg \in [Strategy -> [Legs -> Leg]]
  /\ orders \in [Strategy -> Seq(Order)]
  /\ reports \in [Strategy -> Seq(Report)]
  /\ others \in Nat /\ total \in Int /\ odd \in [Strategy -> SUBSET Odd]
  /\ modified \in 0 .. MaxModify /\ meddled \in 0 .. MaxMeddle
-----------------------------------------------------------------------------
\* TradeOrder::Init and CPosition::Init; a sysID is the reference of the order
\* it belongs to, or NullRef for the empty one.
InitialLeg ==
  [state |-> "T_INI", ref |-> [h \in Half |-> NullRef], sys |-> [h \in Half |-> NullRef],
   vol |-> 1, deal |-> 0, pos |-> 0]

Init ==
  /\ sharedValue = NoValue
  /\ pc = [s \in Strategy |-> "none"]
  /\ pedding = [s \in Strategy |-> FALSE]
  /\ locked = [s \in Strategy |-> 0]
  /\ copies = MaxCopies
  /\ leg = [s \in Strategy |-> [l \in Legs |-> InitialLeg]]
  /\ orders = [s \in Strategy |-> << >>]
  /\ reports = [s \in Strategy |-> << >>]
  /\ others = 0
  /\ total = 0
  /\ odd = [s \in Strategy |-> {}]
  /\ modified = 0 /\ meddled = 0

\* An operator sets the shared value.
Modify(v) ==
  /\ modified < MaxModify
  /\ modified' = modified + 1
  /\ SetSharedValue(v)
  /\ total' = total + v - (IF sharedValue = NoValue THEN 0 ELSE sharedValue)
  /\ UNCHANGED <<pc, pedding, locked, copies, leg, orders, reports, others, odd, meddled>>

\* Another strategy locks a copy, or gives one back.
OthersLock ==
  /\ DecreaseSucceeds(sharedValue >= 1)
  /\ DecreaseSharedValue(1)
  /\ others' = others + 1
  /\ UNCHANGED <<pc, pedding, locked, copies, leg, orders, reports, total, odd,
                 modified, meddled>>

OthersRelease ==
  /\ others > 0
  /\ IncreaseSharedValue(1, TRUE)
  /\ others' = others - 1
  /\ UNCHANGED <<pc, pedding, locked, copies, leg, orders, reports, total, odd,
                 modified, meddled>>

\* OnInit refuses to start without the shared value.
OnInit(s) ==
  /\ pc[s] = "none"
  /\ GetSharedValue
  /\ pc' = [pc EXCEPT ![s] = "idle"]
  /\ UNCHANGED <<sharedValue, pedding, locked, copies, leg, orders, reports,
                 others, total, odd, modified, meddled>>
-----------------------------------------------------------------------------
(* What the host does with an order                                        *)

\* MakeOrder of the host gives a new reference, or none when the strategy has
\* no ticket left or the trade source is offline.
RefFor(s) == {NullRef} \cup {r \in Refs(s) : r = Len(orders[s]) + 1}

Sent(s, ref, l, h, vol, oddity) ==
  /\ orders' = IF ref = NullRef THEN orders
               ELSE [orders EXCEPT ![s] = Append(@,
                      [leg |-> l, half |-> h, vol |-> vol, traded |-> 0,
                       status |-> "sent", cancel |-> FALSE])]
  /\ odd' = [odd EXCEPT ![s] = @ \cup oddity
                               \cup (IF ref = NullRef THEN {"refused"} ELSE {})]

Flat(s) == \A l \in Legs : leg[s][l].pos = 0
Held(s) == \A l \in Legs : leg[s][l].pos # 0
AtWork(s) == leg[s]["Minuend"].state # "T_INI"

\* (mutant) the traded volumes are not reset.
StartedKeepsDeal(s, h, ref) ==
  [l \in Legs |->
    LET fresh == [leg[s][l] EXCEPT !.vol = copies[s]]
    IN IF ref = NullRef THEN fresh
       ELSE IF l = "Minuend"
         THEN [fresh EXCEPT !.state = Waiting[h], !.ref[h] = ref, !.sys[h] = NullRef]
         ELSE [fresh EXCEPT !.state = Ini[h]]]

\* The two legs after the order of the Minuend was placed with that reference.
\* Without a reference only the volumes are new.
Started(s, h, ref) ==
  [l \in Legs |->
    LET fresh == [leg[s][l] EXCEPT !.vol = copies[s], !.deal = 0]
    IN IF ref = NullRef THEN fresh
       ELSE IF l = "Minuend"
         THEN [fresh EXCEPT !.state = Waiting[h], !.ref[h] = ref, !.sys[h] = NullRef]
         ELSE [fresh EXCEPT !.state = Ini[h]]]

\* MakeOrder of the strategy with an increasing signal: the copies have to be
\* free.  An order without a reference gives them back, and leaves the strategy
\* pending.
Open(s) ==
  IF DecreaseSucceeds(sharedValue >= copies[s])
    THEN /\ locked' = [locked EXCEPT ![s] = copies[s]]
         /\ pedding' = [pedding EXCEPT ![s] = TRUE]
         /\ \E ref \in RefFor(s) :
              /\ leg' = [leg EXCEPT ![s] = Started(s, "in", ref)]
              /\ Sent(s, ref, "Minuend", "in", copies[s], {})
              /\ IF ref = NullRef THEN UNCHANGED sharedValue
                                  ELSE DecreaseSharedValue(copies[s])
    ELSE UNCHANGED <<sharedValue, pedding, locked, leg, orders, odd>>

\* MakeOrder of the strategy with a decreasing signal.
Close(s, oddity) ==
  /\ pedding' = [pedding EXCEPT ![s] = TRUE]
  /\ \E ref \in RefFor(s) :
       /\ leg' = [leg EXCEPT ![s] = Started(s, "out", ref)]
       /\ Sent(s, ref, "Minuend", "out", copies[s], oddity)
  /\ UNCHANGED <<sharedValue, locked>>
-----------------------------------------------------------------------------
(* OnTick                                                                  *)

BothLegs(s, state) == \A l \in Legs : leg[s][l].state = state

\* (mutant) only the order of the Minuend is cancelled.
CanceledMinuend(s, waited) ==
  {leg[s]["Minuend"].sys[h] : h \in
     {x \in Half : "Minuend" \in waited /\ leg[s]["Minuend"].state = Waiting[x]
                   /\ leg[s]["Minuend"].sys[x] # NullRef}}

\* The references that OnTick cancels: those of legs that have waited longer
\* than OrderWaitTime and whose sysID is known.  The host cancels the order the
\* sysID names.
Canceled(s, waited) ==
  UNION {{leg[s][l].sys[h] : h \in {x \in Half : leg[s][l].state = Waiting[x]
                                                /\ leg[s][l].sys[x] # NullRef}} : l \in waited}

AskedToEnd(s, waited) ==
  [r \in DOMAIN orders[s] |->
    [orders[s][r] EXCEPT !.cancel = @ \/ r \in Canceled(s, waited)]]

\* The resets of the base class: a finished opening, a cancelled order, a
\* finished closing.
Reset(s) ==
  IF BothLegs(s, Finished["in"])
    THEN /\ leg' = [leg EXCEPT ![s] = [l \in Legs |-> [@[l] EXCEPT !.state = "T_INI"]]]
         /\ pedding' = [pedding EXCEPT ![s] = FALSE]
         /\ UNCHANGED sharedValue
  ELSE IF \E h \in Half : BothLegs(s, Ini[h])
    THEN /\ leg' = [leg EXCEPT ![s] = [l \in Legs |->
                     [@[l] EXCEPT !.state = "T_INI", !.sys = [h \in Half |-> NullRef]]]]
         /\ pedding' = [pedding EXCEPT ![s] = FALSE]
         /\ UNCHANGED sharedValue
  ELSE IF BothLegs(s, Finished["out"])
    THEN /\ leg' = [leg EXCEPT ![s] = [l \in Legs |->
                     [@[l] EXCEPT !.state = "T_INI", !.pos = 0]]]
         /\ pedding' = [pedding EXCEPT ![s] = FALSE]
         /\ IncreaseSharedValue(locked[s], TRUE)
    ELSE UNCHANGED <<leg, pedding, sharedValue>>

OnTickBase(s, waited) ==
  /\ pc[s] = "idle"
  /\ pc' = [pc EXCEPT ![s] = "tick"]
  /\ orders' = [orders EXCEPT ![s] = AskedToEnd(s, waited)]
  /\ Reset(s)
  /\ UNCHANGED <<locked, copies, reports, others, total, odd, modified, meddled>>

\* The derived class opens when it holds nothing and closes when it holds both
\* legs, unless an operation is pending or there is no signal.
OnTickSignal(s) ==
  /\ pc[s] = "tick"
  /\ pc' = [pc EXCEPT ![s] = "idle"]
  /\ \/ ~pedding[s] /\ Flat(s) /\ Open(s)
     \/ ~pedding[s] /\ Held(s) /\ Close(s, {})
     \/ UNCHANGED <<sharedValue, pedding, locked, leg, orders, odd>>
  /\ UNCHANGED <<copies, reports, others, total, modified, meddled>>

\* A command of an operator.  "betrise" and "betdrop" look at the pending flag,
\* "clear" and the change of the copies do not.
Command(s) ==
  /\ pc[s] = "tick" /\ meddled < MaxMeddle
  /\ meddled' = meddled + 1
  /\ pc' = [pc EXCEPT ![s] = "idle"]
  /\ UNCHANGED <<reports, others, total, modified>>

Bet(s) ==
  /\ Command(s)
  /\ ~pedding[s] /\ Flat(s)
  /\ Open(s)
  /\ UNCHANGED copies

Clear(s) ==
  /\ Command(s)
  /\ Held(s)
  /\ Close(s, IF AtWork(s) THEN {"clear"} ELSE {})
  /\ UNCHANGED copies

\* "inc_copies" and "dec_copies".
ChangeCopies(s, n) ==
  /\ Command(s)
  /\ n \in {copies[s] - 1, copies[s] + 1}
  /\ Flat(s)
  /\ copies' = [copies EXCEPT ![s] = n]
  /\ odd' = IF pedding[s] THEN [odd EXCEPT ![s] = @ \cup {"resized"}] ELSE odd
  /\ UNCHANGED <<sharedValue, pedding, locked, leg, orders>>

-----------------------------------------------------------------------------
(* The reports                                                             *)

\* A report is handled between two ticks, in the order of the queue.
Handles(s, kind) ==
  /\ pc[s] = "idle"
  /\ reports[s] # << >> /\ Head(reports[s]).kind = kind
  /\ reports' = [reports EXCEPT ![s] = Tail(@)]

IsOf(s, l, h, ref) == leg[s][l].ref[h] = ref

\* (mutant) the position is signed.
TradedSigned(s, l, h, volume) ==
  [leg[s][l] EXCEPT
     !.deal = @ + volume,
     !.pos = IF h = "in" THEN @ + volume ELSE @ - volume,
     !.state = IF leg[s][l].deal + volume >= leg[s][l].vol THEN Finished[h] ELSE @]

\* A leg after a trade of one of its two orders.
Traded(s, l, h, volume) ==
  [leg[s][l] EXCEPT
     !.deal = @ + volume,
     !.pos = (IF h = "in" THEN @ + volume ELSE @ - volume) % UIntSize,
     !.state = IF leg[s][l].deal + volume >= leg[s][l].vol THEN Finished[h] ELSE @]

\* The first trade of the Minuend sends the order of the Subtrahend; nobody
\* looks whether it got a reference.
TradeOfMinuend(s, h, volume) ==
  LET m == Traded(s, "Minuend", h, volume)
      sub == leg[s]["Subtrahend"]
  IN IF sub.state = Ini[h]
       THEN \E ref \in RefFor(s) :
              /\ leg' = [leg EXCEPT ![s] =
                          [Minuend |-> m,
                           Subtrahend |-> [sub EXCEPT !.ref[h] = ref, !.sys[h] = NullRef,
                                                      !.state = Waiting[h]]]]
              /\ Sent(s, ref, "Subtrahend", h, sub.vol, {})
       ELSE /\ leg' = [leg EXCEPT ![s]["Minuend"] = m]
            /\ UNCHANGED <<orders, odd>>

TradeOfSubtrahend(s, h, volume) ==
  /\ leg' = [leg EXCEPT ![s]["Subtrahend"] = Traded(s, "Subtrahend", h, volume)]
  /\ UNCHANGED <<orders, odd>>

Unknown(s, ref) == \A l \in Legs, h \in Half : ~IsOf(s, l, h, ref)

OnTrade(s) ==
  /\ Handles(s, "trade")
  /\ LET ref == Head(reports[s]).ref
         volume == Head(reports[s]).volume
     IN \/ \E h \in Half : IsOf(s, "Minuend", h, ref) /\ TradeOfMinuend(s, h, volume)
        \/ \E h \in Half : IsOf(s, "Subtrahend", h, ref) /\ TradeOfSubtrahend(s, h, volume)
        \/ Unknown(s, ref) /\ UNCHANGED <<leg, orders, odd>>
  /\ UNCHANGED <<sharedValue, pc, pedding, locked, copies, others, total, modified, meddled>>

\* The legs when the sysID of that order is known.
Named(s, ref) ==
  [l \in Legs |-> [leg[s][l] EXCEPT !.sys =
     [h \in Half |-> IF IsOf(s, l, h, ref) THEN ref ELSE leg[s][l].sys[h]]]]

\* A report of an order that is queueing: from now on it can be cancelled.
OnOrderQueueing(s) ==
  /\ Handles(s, "queueing")
  /\ leg' = [leg EXCEPT ![s] = Named(s, Head(reports[s]).ref)]
  /\ UNCHANGED <<sharedValue, pc, pedding, locked, copies, orders, others, total, odd,
                 modified, meddled>>

\* (mutant) the sysID of the cancelled order is kept.
PlaceAgainKeepsSys(s, l, h, remain) ==
  \E ref \in RefFor(s) :
    /\ leg' = [leg EXCEPT ![s][l].ref[h] = ref]
    /\ Sent(s, ref, l, h, remain, {})

\* The rest of a cancelled order is placed again; nobody looks whether the new
\* order got a reference.
PlaceAgain(s, l, h, remain) ==
  \E ref \in RefFor(s) :
    /\ leg' = [leg EXCEPT ![s][l] = [@ EXCEPT !.ref[h] = ref, !.sys[h] = NullRef]]
    /\ Sent(s, ref, l, h, remain, {})

\* (mutant) the copies are not given back.
AbandonKeepsCopies(s, h) ==
  /\ leg' = [leg EXCEPT ![s] = [l \in Legs |-> [@[l] EXCEPT !.state = Ini[h]]]]
  /\ UNCHANGED sharedValue

\* The order of the Minuend ended before anything was traded.
Abandon(s, h) ==
  /\ leg' = [leg EXCEPT ![s] = [l \in Legs |-> [@[l] EXCEPT !.state = Ini[h]]]]
  /\ IF h = "in" THEN IncreaseSharedValue(locked[s], TRUE) ELSE UNCHANGED sharedValue

\* (mutant) only the cancelled order is looked at.
NothingOfOrderTraded(s, report) == report.traded = 0

NothingTraded(s, report) == report.traded = 0 /\ leg[s]["Minuend"].deal = 0

OnOrderCanceled(s) ==
  /\ Handles(s, "canceled")
  /\ LET report == Head(reports[s])
     IN \/ \E h \in Half :
             /\ IsOf(s, "Minuend", h, report.ref) /\ NothingTraded(s, report)
             /\ Abandon(s, h)
             /\ UNCHANGED <<orders, odd>>
        \/ \E l \in Legs, h \in Half :
             /\ IsOf(s, l, h, report.ref)
             /\ l = "Minuend" => ~NothingTraded(s, report)
             /\ PlaceAgain(s, l, h, report.remain)
             /\ UNCHANGED sharedValue
        \/ Unknown(s, report.ref) /\ UNCHANGED <<leg, orders, odd, sharedValue>>
  /\ UNCHANGED <<pc, pedding, locked, copies, others, total, modified, meddled>>
-----------------------------------------------------------------------------
(* The exchange                                                            *)

exchange == <<sharedValue, pc, pedding, locked, copies, leg, others, total, modified, meddled>>

OrdersOf(book, l, h) == {r \in DOMAIN book : book[r].leg = l /\ book[r].half = h}

Living(book, r) == r \in DOMAIN book /\ book[r].status # "ended"

TradedOf(book, l, h) ==
  SumFunctionOnSet([r \in DOMAIN book |-> book[r].traded], OrdersOf(book, l, h))

\* What a strategy holds at the exchange.
Holds(s, l) == TradedOf(orders[s], l, "in") - TradedOf(orders[s], l, "out")

\* What the living orders of a book may still add to one half of a leg.
Left(book) == [r \in DOMAIN book |-> book[r].vol - book[r].traded]

MayTrade(book, l, h) ==
  SumFunctionOnSet(Left(book), {r \in OrdersOf(book, l, h) : Living(book, r)})

Told(s, report) == reports' = [reports EXCEPT ![s] = Append(@, report)]

\* A closing order may not close more than is held and not yet to be closed.
Accept(s, r) ==
  /\ orders[s][r].status = "sent"
  /\ orders[s][r].half = "out" =>
       MayTrade(orders[s], orders[s][r].leg, "out") <= Holds(s, orders[s][r].leg)
  /\ orders' = [orders EXCEPT ![s][r].status = "live"]
  /\ Told(s, [kind |-> "queueing", ref |-> r])
  /\ UNCHANGED odd /\ UNCHANGED exchange

\* The plugin only writes a refusal to the log.
Refuse(s, r) ==
  /\ orders[s][r].status = "sent"
  /\ orders' = [orders EXCEPT ![s][r].status = "ended"]
  /\ odd' = [odd EXCEPT ![s] = @ \cup {"refused"}]
  /\ UNCHANGED reports /\ UNCHANGED exchange

Fill(s, r, volume) ==
  /\ orders[s][r].status = "live"
  /\ orders[s][r].traded + volume <= orders[s][r].vol
  /\ orders' = [orders EXCEPT ![s][r].traded = @ + volume,
                  ![s][r].status = IF orders[s][r].traded + volume = orders[s][r].vol
                                     THEN "ended" ELSE @]
  /\ Told(s, [kind |-> "trade", ref |-> r, volume |-> volume])
  /\ UNCHANGED odd /\ UNCHANGED exchange

Cancel(s, r) ==
  /\ orders[s][r].status = "live" /\ orders[s][r].cancel
  /\ orders' = [orders EXCEPT ![s][r].status = "ended"]
  /\ Told(s, [kind |-> "canceled", ref |-> r, traded |-> orders[s][r].traded,
              remain |-> orders[s][r].vol - orders[s][r].traded])
  /\ UNCHANGED odd /\ UNCHANGED exchange

\* The report of a cancellation overtakes that of the last trade of the order.
Overtake(s) ==
  /\ Len(reports[s]) = 2
  /\ reports[s][1].kind = "trade" /\ reports[s][2].kind = "canceled"
  /\ reports[s][1].ref = reports[s][2].ref
  /\ reports' = [reports EXCEPT ![s] = <<@[2], @[1]>>]
  /\ odd' = [odd EXCEPT ![s] = @ \cup {"late"}]
  /\ UNCHANGED orders /\ UNCHANGED exchange
-----------------------------------------------------------------------------
Ticks(s) ==
  \/ \E waited \in SUBSET Legs : OnTickBase(s, waited)
  \/ OnTickSignal(s)

Meddles(s) == Bet(s) \/ Clear(s) \/ \E n \in 1 .. MaxCopies[s] : ChangeCopies(s, n)

Handler(s) == OnTrade(s) \/ OnOrderQueueing(s) \/ OnOrderCanceled(s)

Exchange(s) ==
  \/ \E r \in DOMAIN orders[s] :
       \/ Accept(s, r) \/ Refuse(s, r) \/ Cancel(s, r)
       \/ \E volume \in 1 .. MaxCopies[s] : Fill(s, r, volume)
  \/ Overtake(s)

Next ==
  \/ \E v \in Limits : Modify(v)
  \/ OthersLock \/ OthersRelease
  \/ \E s \in Strategy : OnInit(s) \/ Ticks(s) \/ Meddles(s) \/ Handler(s) \/ Exchange(s)

Spec == Init /\ [][Next]_vars

\* Ticks keep coming, so that every order waits for too long some time; a
\* report gets the mutex of the strategy between two ticks; the exchange answers an order and a cancellation.
FairSpec ==
  /\ Spec
  /\ \A s \in Lively :
       /\ SF_vars(OnTickBase(s, Legs)) /\ WF_vars(OnTickSignal(s))
       /\ SF_vars(Handler(s))
       /\ WF_vars(\E r \in DOMAIN orders[s] : Refuse(s, r) \/ Accept(s, r))
       /\ WF_vars(\E r \in DOMAIN orders[s] : Cancel(s, r))
-----------------------------------------------------------------------------
(* Properties.  Each names the oddities under which it still holds.        *)

\* The copies of a strategy that are in the market, or may get there by the
\* orders it has placed.
Exposed(s) == Max({Holds(s, l) + MayTrade(orders[s], l, "in") : l \in Legs})

\* The shared value bounds the copies in the market: what it still offers and
\* what the strategies hold or have ordered is never more than what the
\* operators put into it, even if orders are refused.
LimitKept ==
  (\A s \in Strategy : odd[s] \subseteq {"refused"}) =>
     (sharedValue # NoValue =>
        sharedValue + others + SumFunction([s \in Strategy |-> Exposed(s)]) <= total)

Idle(s) == pc[s] # "none" /\ ~pedding[s]

\* A strategy that may start an operation holds as much of one leg as of the
\* other one, knows it, and has no order under way, even if orders were refused.
HedgedWhenIdle ==
  \A s \in Strategy : Idle(s) /\ odd[s] \subseteq {"refused"} =>
    /\ \A l \in Legs : Holds(s, l) = leg[s][l].pos
    /\ Holds(s, "Minuend") = Holds(s, "Subtrahend")
    /\ \A r \in DOMAIN orders[s] : orders[s][r].status = "ended"

\* When no strategy is pending or holds anything, all copies are back, unless
\* an operator cleared a strategy that had work under way.
CopiesComeBack ==
  (/\ sharedValue # NoValue
   /\ \A s \in Strategy : odd[s] \subseteq Odd \ {"clear"} /\ ~pedding[s] /\ Flat(s)) =>
     sharedValue + others = total

\* The sysID a leg would cancel with belongs to the order it waits for.
CancelNamesOrder ==
  \A s \in Strategy, l \in Legs, h \in Half :
    leg[s][l].state = Waiting[h] =>
      leg[s][l].sys[h] \in {NullRef, leg[s][l].ref[h]}

\* An operation that a strategy has started ends, though its orders wait, are
\* cancelled and placed again, unless one of them was refused, a trade was
\* reported late, or an operator cleared the strategy in the middle of its work.
PendingEnds ==
  \A s \in Lively :
    pedding[s] ~> ~pedding[s] \/ ~(odd[s] \subseteq {"resized"})
-----------------------------------------------------------------------------
(* Why they hold: what is true of every strategy, of one that was not      *)
(* cleared at work, and of one that was at most refused.                   *)

\* What a report says was traded, or is to be placed again, and was not handled.
Bears(report) ==
  IF report.kind = "trade" THEN report.volume
  ELSE IF report.kind = "canceled" THEN report.remain ELSE 0

\* What a report of one of these kinds bears for an order.
Borne(report, r, kinds) == IF report.ref = r /\ report.kind \in kinds THEN Bears(report) ELSE 0

Underway(queue, r, kinds) == SumFunction([i \in DOMAIN queue |-> Borne(queue[i], r, kinds)])

\* What is to come of an order: what it may trade and what reports of it bear.
Coming(book, queue, r) ==
  (IF Living(book, r) THEN Left(book)[r] ELSE 0) + Underway(queue, r, {"trade", "canceled"})

\* A report agrees with its order, which never brings more than its volume.
Agrees(book, report) ==
  /\ report.ref \in DOMAIN book
  /\ report.kind # "queueing" => Bears(report) > 0
  /\ report.kind = "canceled" =>
       ~Living(book, report.ref) /\ report.traded + report.remain = book[report.ref].vol

ReportsInv(book, queue) ==
  /\ \A r \in DOMAIN book :
       /\ book[r].traded <= book[r].vol /\ Coming(book, queue, r) <= book[r].vol
       /\ Living(book, r) => book[r].traded < book[r].vol
  /\ \A i \in DOMAIN queue : Agrees(book, queue[i])

\* Of one strategy: its legs g, its orders at the exchange, the reports under way.
Both(g, state) == \A l \in Legs : g[l].state = state

Works(g, l, h) == g[l].state \in {Waiting[h], Finished[h]}

\* A leg waits for orders of its own, and would cancel no other one.
RefsInv(g, book) ==
  \A l \in Legs, h \in Half :
    /\ g[l].ref[h] # NullRef => g[l].ref[h] \in OrdersOf(book, l, h)
    /\ g[l].sys[h] \in {NullRef, g[l].ref[h]}

\* The stages of an operation: both legs rest, or both are reset, or the order
\* of the Minuend is out and with its first trade that of the Subtrahend.
Stage(g) ==
  \/ Both(g, "T_INI")
  \/ \E h \in Half :
       \/ Both(g, Ini[h])
       \/ /\ Works(g, "Minuend", h)
          /\ IF g["Minuend"].deal = 0 THEN g["Subtrahend"].state = Ini[h]
                                      ELSE Works(g, "Subtrahend", h)

\* A leg never gets more than it ordered, and nothing when it does not work.
HalfInv(g, book, queue, l, h) ==
  LET coming == Coming(book, queue, g[l].ref[h])
  IN /\ g[l].state = Ini[h] => g[l].deal = 0
     /\ g[l].state = Finished[h] => g[l].deal >= g[l].vol
     /\ IF Works(g, l, h) THEN g[l].deal + coming <= g[l].vol ELSE coming = 0

StageInv(g, book, queue, pending) ==
  /\ ~pending => Both(g, "T_INI")
  /\ Stage(g)
  /\ \A l \in Legs : g[l].vol \in 1 .. UIntSize - 1
  /\ \A l \in Legs, h \in Half : HalfInv(g, book, queue, l, h)

\* The copies that a strategy has taken from the shared value.
Claim(g, lock) ==
  IF \/ \E h \in Half : Works(g, "Minuend", h)
     \/ g["Minuend"].state = Ini["out"]
     \/ g["Minuend"].state = "T_INI" /\ g["Minuend"].pos # 0
    THEN lock ELSE 0

\* It has a position while it has taken them, but for the opening and the closing.
MinuendInv(g) ==
  LET m == g["Minuend"]
  IN /\ m.state = Ini["in"] \/ Works(g, "Minuend", "in") => m.pos = m.deal
     /\ m.state = Ini["out"] \/ (Works(g, "Minuend", "out") /\ m.deal = 0) => m.pos # 0

\* The end of an order is the last report of it.
EndIsLast(queue) ==
  \A i, j \in DOMAIN queue : i < j /\ queue[i].kind = "canceled" => queue[j].ref # queue[i].ref

\* The part of the trades of one half of a leg that was reported, if the reports
\* under way are those of order r.
Known(book, queue, l, h, r) == TradedOf(book, l, h) - Underway(queue, r, {"trade"})

\* Of the orders of that half only r may bring something.
Only(book, queue, l, h, r) ==
  /\ r \in OrdersOf(book, l, h) \cup {NullRef}
  /\ \A x \in OrdersOf(book, l, h) : x # r => Coming(book, queue, x) = 0

\* An operation takes all of the copies.
CopiesInv(g, lock, copy) ==
  IF Both(g, "T_INI")
    THEN \/ \A l \in Legs : g[l].pos = 0
         \/ lock = copy /\ \A l \in Legs : g[l].pos = copy
    ELSE /\ lock = copy
         /\ \A l \in Legs :
              /\ g[l].vol = copy
              /\ \/ g[l].pos = g[l].deal /\ (g[l].state = Ini["in"] \/ Works(g, l, "in"))
                 \/ g[l].pos + g[l].deal = copy
                    /\ (g[l].state = Ini["out"] \/ Works(g, l, "out"))

\* A leg knows what it holds, but for the trades whose reports are under way,
\* and no order that it has given up brings anything.
CleanInv(g, book, queue, lock, copy) ==
  /\ EndIsLast(queue)
  /\ \A l \in Legs :
       g[l].pos = Known(book, queue, l, "in", g[l].ref["in"])
                  - Known(book, queue, l, "out", g[l].ref["out"])
  /\ \A l \in Legs, h \in Half : Only(book, queue, l, h, g[l].ref[h])
  /\ CopiesInv(g, lock, copy)

\* A strategy that was not started has done nothing.
Untouched(s) ==
  /\ leg[s] = [l \in Legs |-> InitialLeg] /\ ~pedding[s]
  /\ orders[s] = << >> /\ reports[s] = << >>

StrategyInv(s) ==
  /\ pc[s] = "none" => Untouched(s)
  /\ ReportsInv(orders[s], reports[s]) /\ RefsInv(leg[s], orders[s])
  /\ "clear" \notin odd[s] =>
       StageInv(leg[s], orders[s], reports[s], pedding[s]) /\ MinuendInv(leg[s])
  /\ odd[s] \subseteq {"refused"} =>
       CleanInv(leg[s], orders[s], reports[s], locked[s], copies[s])

\* What the strategies have taken, and the others, is missing in the value.
ClaimInv ==
  IF sharedValue = NoValue
    THEN total = 0 /\ others = 0 /\ \A s \in Strategy : pc[s] = "none"
    ELSE (\A s \in Strategy : "clear" \notin odd[s]) =>
           sharedValue + others + SumFunction([s \in Strategy |-> Claim(leg[s], locked[s])]) = total

IInv == TypeOK /\ ClaimInv /\ \A s \in Strategy : StrategyInv(s)
=============================================================================
