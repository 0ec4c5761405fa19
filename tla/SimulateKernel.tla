--------------------------- MODULE SimulateKernel ---------------------------
(***************************************************************************)
(* The backtest: StartBackTest merges the tick files by time and gives     *)
(* each tick to the strategy; then it walks through the list of orders     *)
(* that are not settled, matches them with the tick and calls the strategy *)
(* back.  In any callback the strategy may place and cancel orders, which  *)
(* changes the list that is walked through; a walk is repeated as long as  *)
(* the strategy did so.                                                    *)
(*                                                                         *)
(* Only buying orders: those that sell are their mirror image.  A limit    *)
(* order, at its price or better, is matched with the offers of a tick.    *)
(* Messages, probes, charts and criterions are left out.                   *)
(***************************************************************************)
EXTENDS Integers, Sequences, Functions

CONSTANTS
  TickFiles,      \* the ticks of each file, by its data id, in the order of time
  Name,           \* the place of its instrument in the order of names
  MaxOrders,      \* bound on the orders of a strategy
  Volume,         \* the volumes of them
  Price,          \* the limits of them
  Delays          \* the delays a configuration may name, for submissions and
                  \* for cancellations

Order == 1 .. MaxOrders
DataId == DOMAIN TickFiles
PriceType == {"FixPrice", "BestPrice"}

\* A tick has a time, a last price, and offers from the best one on.
ASSUME KernelAssumption ==
  /\ MaxOrders \in Nat /\ Volume \subseteq Nat \ {0} /\ Price \subseteq Nat
  /\ Delays \subseteq Nat
  /\ TickFiles \in Seq(Seq([time : Nat, last : Nat,
                            asks : Seq([price : Nat, volume : Nat])]))
  /\ \A d \in DataId :
       /\ TickFiles[d] # << >>
       /\ \A i \in DOMAIN TickFiles[d] :
            i > 1 => TickFiles[d][i - 1].time <= TickFiles[d][i].time
  /\ \A d, e \in DataId : Name[d] = Name[e] => d = e

VARIABLES
  config,     \* the delays and the way prices are made
  pos,        \* per file the tick that was read last
  remain,     \* m_intRemainTickCount
  que,        \* the files in the priority queue
  top,        \* m_pCurrentTop
  delivered,  \* per file the number of ticks the strategy got
  lastTick,   \* m_vecLastTick, 0 for an empty one
  pc,         \* where StartBackTest is, for a callback the name of it
  cur,        \* the order the walk has come to
  orders,     \* m_mapOrders
  list,       \* m_listOrdersTobeHandle; new orders are put at its end, so that
              \* it is in the order of their numbers
  newOrder, newCancel,  \* m_boolNewOrder, m_boolNewCancel
  told, late, \* what the strategy has heard of its orders, and those it has
              \* cancelled in a callback of a trade or of the end: history
  repeated,   \* whether the walk for this tick was repeated
  taken       \* what each order has taken of the offers of this tick

files == <<pos, remain, que, top, delivered, lastTick>>
walk == <<pc, cur, repeated>>
book == <<orders, list>>
flags == <<newOrder, newCancel>>
heard == <<told, late>>
vars == <<config, files, walk, book, flags, heard, taken>>

\* The cancelled orders; what OrderLife calls asked.
Canceled == {o \in DOMAIN orders : orders[o].status = "Canceled"}

Life == INSTANCE OrderLife WITH Order <- Order, Volume <- Volume,
                                told <- told, asked <- Canceled, late <- late

Callback == {"OnInit", "OnTick", "queued", "OnTrade", "reported", "ended"}

Status == {"Unknown", "NoTradeQueueing", "PartTradedQueueing", "AllTraded", "Canceled"}

OrderType ==
  [dataid : DataId, limit : Price, volume : Volume, traded : Nat, status : Status,
   time : Nat, try : Nat, active : BOOLEAN]

FilesTypeOK ==
  /\ config \in [submit : Delays, cancel : Delays, price : PriceType]
  /\ pos \in [DataId -> Nat] /\ remain \in [DataId -> Nat]
  /\ delivered \in [DataId -> Nat] /\ lastTick \in [DataId -> Nat]
  /\ \A d \in DataId : /\ pos[d] \in DOMAIN TickFiles[d]
                       /\ {remain[d], delivered[d], lastTick[d]} \subseteq 0 .. Len(TickFiles[d])
  /\ que \subseteq DataId /\ top \in DataId

BookTypeOK ==
  /\ orders \in Seq(OrderType) /\ Len(orders) <= MaxOrders
  /\ \A o \in DOMAIN orders : orders[o].traded <= orders[o].volume
  /\ list \subseteq DOMAIN orders

WalkTypeOK ==
  /\ pc \in Callback \cup {"next", "walk", "fetch", "done"}
  /\ cur \in 0 .. Len(orders)
  /\ newOrder \in BOOLEAN /\ newCancel \in BOOLEAN /\ repeated \in BOOLEAN
  /\ taken \in [Order -> Nat]

TypeOK == FilesTypeOK /\ BookTypeOK /\ WalkTypeOK /\ Life!LifeTypeOK

Tick(d) == TickFiles[d][pos[d]]

\* CDataSerial::Init reads the first tick of a file before StartBackTest sets
\* the data id of the file: it has the data id of the first file.
DataIdOfTick == IF pos[top] = 1 THEN 1 ELSE top

Now == Tick(top).time

\* (mutant) files are merged by name only.
FirstByName(d) == \A e \in que : Name[d] <= Name[e]

\* MergeTickCompaire: the earliest tick, and of those the first by name.
First(d) ==
  \A e \in que :
    \/ Tick(d).time < Tick(e).time
    \/ Tick(d).time = Tick(e).time /\ Name[d] <= Name[e]

Init ==
  /\ config \in [submit : Delays, cancel : Delays, price : PriceType]
  /\ pos = [d \in DataId |-> 1]
  /\ remain = [d \in DataId |-> Len(TickFiles[d]) - 1]
  /\ que = DataId
  /\ top \in {d \in DataId : First(d)}
  /\ delivered = [d \in DataId |-> 0]
  /\ lastTick = [d \in DataId |-> 0]
  /\ pc = "OnInit" /\ cur = 0
  /\ orders = << >> /\ list = {}
  /\ newOrder = FALSE /\ newCancel = FALSE /\ repeated = FALSE
  /\ taken = [o \in Order |-> 0]
  /\ told = [o \in Order |-> Life!Unplaced] /\ late = {}
-----------------------------------------------------------------------------
(* The strategy, in a callback                                             *)

MakeOrder(v, limit, d) ==
  /\ pc \in Callback
  /\ Len(orders) < MaxOrders
  /\ newOrder' = TRUE
  /\ LET o == Len(orders) + 1
     IN /\ orders' = Append(orders,
             [dataid |-> d, limit |-> limit, volume |-> v, traded |-> 0,
              status |-> "Unknown", time |-> Now, try |-> 0, active |-> FALSE])
        /\ list' = list \cup {o}
        /\ told' = [told EXCEPT ![o].heard = "nothing", ![o].volume = v]
  /\ UNCHANGED <<config, files, walk, newCancel, late, taken>>

\* A strategy knows the number it cancels with from the first report on; an
\* unknown one, a settled order and a second cancellation only set the flag.
CancelOrder(o) ==
  /\ pc \in Callback
  /\ newCancel' = TRUE
  /\ IF /\ told[o].heard \notin {"unplaced", "nothing"}
        /\ o \in list
        /\ orders[o].status # "Canceled"
       THEN /\ orders' = [orders EXCEPT ![o].status = "Canceled", ![o].try = Now]
            /\ late' = IF told[o].heard \in {"trade", "all"} THEN late \cup {o} ELSE late
            /\ UNCHANGED told
       ELSE UNCHANGED <<orders, heard>>
  /\ UNCHANGED <<config, files, walk, list, newOrder, taken>>
-----------------------------------------------------------------------------
(* The files                                                               *)

NextTick ==
  /\ pc = "next" /\ que # {}
  /\ \E d \in que : /\ First(d) /\ top' = d
                    /\ que' = que \ {d}
                    /\ delivered' = [delivered EXCEPT ![d] = @ + 1]
  /\ pc' = "OnTick"
  /\ taken' = [o \in Order |-> 0] /\ repeated' = FALSE
  /\ UNCHANGED <<config, pos, remain, lastTick, cur, book, flags, heard>>

\* After OnInit, and at the end, where the strategy only saves its results.
EnterLoop ==
  /\ pc = "OnInit"
  /\ pc' = "next"
  /\ UNCHANGED <<config, files, cur, repeated, book, flags, heard, taken>>

OnEndup ==
  /\ pc = "next" /\ que = {}
  /\ pc' = "done"
  /\ UNCHANGED <<config, files, cur, repeated, book, flags, heard, taken>>

\* The next tick of the file is read; the last one is kept for the result.
Fetch ==
  /\ pc = "fetch"
  /\ IF remain[top] > 0
       THEN /\ pos' = [pos EXCEPT ![top] = @ + 1]
            /\ que' = que \cup {top}
            /\ lastTick' = IF remain[top] = 1 THEN [lastTick EXCEPT ![top] = pos'[top]] ELSE lastTick
            /\ remain' = [remain EXCEPT ![top] = @ - 1]
       ELSE UNCHANGED <<pos, que, lastTick, remain>>
  /\ pc' = "next"
  /\ UNCHANGED <<config, top, delivered, cur, repeated, book, flags, heard, taken>>
-----------------------------------------------------------------------------
(* The walk through the list                                               *)

\* (mutant) the delay of a submission is not waited for.
ActivateAll(o) == o \in list

Activated(o) == o \in list /\ Now >= orders[o].time + config.submit

\* After OnTick the orders that have waited for long enough become active.
BeginWalk ==
  /\ pc = "OnTick"
  /\ orders' = [o \in DOMAIN orders |->
                  [orders[o] EXCEPT !.active = @ \/ Activated(o)]]
  /\ cur' = 0
  /\ IF list = {} THEN pc' = "fetch" /\ UNCHANGED flags
                  ELSE pc' = "walk" /\ newOrder' = FALSE /\ newCancel' = FALSE
  /\ UNCHANGED <<config, files, repeated, list, heard, taken>>

\* The walk has come to the order o.
At(o) == pc = "walk" /\ o \in list /\ cur < o /\ \A p \in list : cur < p => o <= p

EndWalk ==
  /\ pc = "walk" /\ \A o \in list : o <= cur
  /\ IF newOrder \/ newCancel
       THEN /\ cur' = 0 /\ newOrder' = FALSE /\ newCancel' = FALSE
            /\ repeated' = TRUE /\ UNCHANGED pc
       ELSE pc' = "fetch" /\ UNCHANGED <<cur, repeated, flags>>
  /\ UNCHANGED <<config, files, book, heard, taken>>

\* A new order is reported as queueing; after the callback it is matched.
Enqueue(o) ==
  /\ At(o) /\ orders[o].status = "Unknown"
  /\ cur' = o /\ pc' = "queued"
  /\ orders' = [orders EXCEPT ![o].status = "NoTradeQueueing"]
  /\ told' = [told EXCEPT ![o].heard = "queueing"]
  /\ UNCHANGED <<config, files, repeated, list, flags, late, taken>>

\* What the offers of the tick give an order, in the two ways to make a price.
Offer(limit) ==
  LET asks == Tick(top).asks
      within == {i \in DOMAIN asks : \A j \in 1 .. i : limit >= asks[j].price}
  IN IF config.price = "BestPrice"
       THEN SumFunctionOnSet([i \in DOMAIN asks |-> asks[i].volume], within)
       ELSE IF 1 \in within \/ limit > Tick(top).last THEN asks[1].volume ELSE 0

\* What the order o trades with this tick: what is left of it, or what is offered.
Deals(o) ==
  LET left == orders[o].volume - orders[o].traded
      offer == Offer(orders[o].limit)
  IN IF ~(orders[o].active /\ orders[o].dataid = DataIdOfTick) THEN 0
     ELSE IF left <= offer THEN left ELSE offer

\* (mutant) a cancelled order is matched until its end is reported.
MatchedThoughCanceled(o) ==
  \/ At(o) /\ orders[o].status \in {"NoTradeQueueing", "PartTradedQueueing"}
  \/ At(o) /\ orders[o].status = "Canceled" /\ Deals(o) > 0
  \/ pc = "queued" /\ cur = o

\* The order o is matched with the tick: it queues, or it was just reported as
\* queueing, whatever the strategy did in that callback.
Matched(o) ==
  \/ At(o) /\ orders[o].status \in {"NoTradeQueueing", "PartTradedQueueing"}
  \/ pc = "queued" /\ cur = o

Match(o) ==
  /\ Matched(o)
  /\ cur' = o
  /\ \/ /\ Deals(o) = 0
        /\ pc' = "walk" /\ UNCHANGED <<orders, told, taken>>
     \/ \E v \in 1 .. orders[o].volume - orders[o].traded :
          LET traded == orders[o].traded + v
          IN /\ v = Deals(o)
             /\ orders' = [orders EXCEPT ![o].traded = traded,
                  ![o].status = IF traded = orders[o].volume THEN "AllTraded"
                                ELSE "PartTradedQueueing"]
             /\ taken' = [taken EXCEPT ![o] = @ + v]
             /\ told' = [told EXCEPT ![o].heard = "trade", ![o].traded = traded]
             /\ pc' = "OnTrade"
  /\ UNCHANGED <<config, files, repeated, list, flags, late>>

\* After OnTrade the status of the order is reported, as it then is.
ReportStatus(o) ==
  /\ pc = "OnTrade" /\ cur = o
  /\ pc' = "reported"
  /\ told' = IF orders[o].status = "PartTradedQueueing"
               THEN [told EXCEPT ![o].heard = "part"]
               ELSE [told EXCEPT ![o].heard = IF orders[o].status = "AllTraded"
                                                THEN "all" ELSE "canceled",
                                 ![o].ends = @ + 1]
  /\ UNCHANGED <<config, files, cur, repeated, book, flags, late, taken>>

\* (mutant) the walk stays at an order that was traded in part.
AfterReportStay(o) ==
  /\ pc = "reported" /\ cur = o
  /\ pc' = "walk"
  /\ list' = IF orders[o].status = "AllTraded" THEN list \ {o} ELSE list
  /\ cur' = IF orders[o].status = "AllTraded" THEN cur ELSE cur - 1
  /\ UNCHANGED <<config, files, repeated, orders, flags, heard, taken>>

\* An order that is traded entirely leaves the list, if it still has that
\* status after the callback.
AfterReport(o) ==
  /\ pc = "reported" /\ cur = o
  /\ pc' = "walk"
  /\ list' = IF orders[o].status = "AllTraded" THEN list \ {o} ELSE list
  /\ UNCHANGED <<config, files, cur, repeated, orders, flags, heard, taken>>

\* The end of a cancelled order is reported after the delay.
ReportCanceled(o) ==
  /\ At(o) /\ orders[o].status = "Canceled"
  /\ cur' = o
  /\ IF Now >= orders[o].try + config.cancel
       THEN pc' = "ended" /\ told' = [told EXCEPT ![o].heard = "canceled", ![o].ends = @ + 1]
       ELSE UNCHANGED <<pc, told>>
  /\ UNCHANGED <<config, files, repeated, book, flags, late, taken>>

\* (mutant) the order stays in the list.
AfterEndKeeps(o) ==
  /\ pc = "ended" /\ cur = o
  /\ pc' = "walk" /\ UNCHANGED list
  /\ UNCHANGED <<config, files, cur, repeated, orders, flags, heard, taken>>

AfterEnd(o) ==
  /\ pc = "ended" /\ cur = o
  /\ pc' = "walk"
  /\ list' = list \ {o}
  /\ UNCHANGED <<config, files, cur, repeated, orders, flags, heard, taken>>
-----------------------------------------------------------------------------
StartBackTest ==
  \/ NextTick \/ EnterLoop \/ OnEndup \/ Fetch \/ BeginWalk \/ EndWalk
  \/ \E o \in DOMAIN orders :
       \/ Enqueue(o) \/ Match(o) \/ ReportStatus(o) \/ AfterReport(o)
       \/ ReportCanceled(o) \/ AfterEnd(o)

Strategy ==
  \/ \E v \in Volume, limit \in Price, d \in DataId : MakeOrder(v, limit, d)
  \/ \E o \in Order : CancelOrder(o)

Next == StartBackTest \/ Strategy

Spec == Init /\ [][Next]_vars

-----------------------------------------------------------------------------
(* Properties *)

\* What the strategy has heard of an order, by its status and its place in the
\* walk: an order leaves the list only with its end, and only a cancellation in
\* a callback of a trade or of the end lets an order end twice.
Here(p, o) == pc = p /\ cur = o

HeardOf(o) ==
  LET t == told[o]
      status == orders[o].status
      open == t.ends = 0 /\ o \in list
  IN /\ status # "Canceled" => o \notin late
     /\ status = "Unknown" => t.heard = "nothing" /\ t.traded = 0 /\ open
     /\ status = "NoTradeQueueing" => t.heard = "queueing" /\ t.traded = 0 /\ open
     /\ status = "PartTradedQueueing" =>
          /\ t.heard = (IF Here("OnTrade", o) THEN "trade" ELSE "part")
          /\ t.traded < t.volume /\ open
     /\ status = "AllTraded" =>
          /\ t.traded = t.volume
          /\ IF Here("OnTrade", o) THEN t.heard = "trade" /\ open
             ELSE t.heard = "all" /\ t.ends = 1 /\ (o \in list => Here("reported", o))
     /\ status = "Canceled" =>
          \/ /\ t.heard = "canceled" /\ (o \notin list \/ Here("ended", o))
             /\ t.ends = (IF o \in late THEN 2 ELSE 1)
          \/ /\ o \in late /\ o \in list
             /\ \/ t.heard = "trade" /\ t.ends = 0 /\ Here("OnTrade", o)
                \/ /\ t.heard \in {"all", "canceled"} /\ t.ends = 1
                   /\ t.heard = "all" => t.traded = t.volume
                   /\ ~Here("OnTrade", o) /\ ~Here("ended", o)
          \/ /\ o \notin late /\ open
             /\ t.heard = "part" \/ (t.heard = "queueing" /\ t.traded = 0)

BookInv ==
  /\ \A o \in Order \ DOMAIN orders : told[o] = Life!Unplaced /\ o \notin late
  /\ \A o \in DOMAIN orders :
       /\ told[o].volume = orders[o].volume /\ told[o].traded = orders[o].traded
       /\ HeardOf(o)
  /\ pc \in {"queued", "OnTrade", "reported", "ended"} => cur \in list
  /\ pc = "queued" => told[cur].heard = "queueing"
  /\ pc = "OnTrade" => told[cur].heard = "trade"
  /\ pc = "ended" => orders[cur].status = "Canceled" /\ told[cur].heard = "canceled"

\* No tick is older than one that the strategy has seen.
TicksInOrder ==
  [][\A d, e \in DataId : delivered[d] > 0 /\ delivered'[e] > delivered[e] =>
       TickFiles[d][delivered[d]].time <= TickFiles[e][delivered'[e]].time]_vars

\* At the end every tick of every file was delivered once, and the last one of
\* each file was kept for the result, but for a file with a single tick.
EveryTick ==
  pc = "done" =>
    \A d \in DataId : /\ delivered[d] = Len(TickFiles[d])
                      /\ lastTick[d] = (IF Len(TickFiles[d]) > 1 THEN Len(TickFiles[d]) ELSE 0)

Trades(o) == o \in DOMAIN orders /\ orders'[o].traded > orders[o].traded

\* An order trades when the delay of its submission is over, and with a tick
\* of its own instrument, but for the first tick of another file.
TradesInTime ==
  [][\A o \in Order : Trades(o) =>
       /\ Now >= orders[o].time + config.submit
       /\ top = orders[o].dataid \/ (orders[o].dataid = 1 /\ delivered[top] = 1)]_vars

\* A cancelled order trades no more, and its cancellation is not forgotten;
\* but where orders are submitted without a delay, one that is cancelled in
\* its first callback may trade all the same.
CancelTakesHold ==
  [][\A o \in Canceled : Trades(o) \/ o \notin Canceled' =>
       config.submit = 0 /\ pc = "queued" /\ cur = o]_vars

\* An order takes no more than the offers of a tick, unless the strategy has
\* placed or cancelled something in a callback: then it is matched with the
\* same offers again.
OffersTakenOnce ==
  ~repeated /\ pc \notin {"next", "done"} =>
    \A o \in DOMAIN orders : taken[o] > 0 => taken[o] <= Offer(orders[o].limit)

\* The reports of an order are those OrderLife promises.
LifeSpec == Life!LifeSpec
=============================================================================
