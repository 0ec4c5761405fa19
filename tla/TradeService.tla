---------------------------- MODULE TradeService ----------------------------
(***************************************************************************)
(* The concurrent core of CTradeService (trade/trade_service.cpp): net     *)
(* handler threads deploy, cancel and update strategies and add and delete *)
(* sources, while the tick thread of every market data source and the      *)
(* callback thread of every trade source call into the strategies.         *)
(*                                                                         *)
(* Which locks a thread holds follows from where it is, so the locks are   *)
(* operators on the control states and not variables:                      *)
(*   MD, TD  the shared_mutex of the market data and trade source vectors  *)
(*   ST      m_mtxAllStrategys                                             *)
(*   map     m_mapObserverStructProtector of a market data source          *)
(*   mutex   m_mtxPropectStrategy of a slot of the strategy array          *)
(* std::lock backs off instead of waiting with a lock in its hand, so it   *)
(* is one step.  boost::shared_mutex admits a reader whenever no thread    *)
(* owns it exclusively: with the tested compilers std::lock only ever      *)
(* tries the exclusive lock of ST, it does not queue for it.               *)
(***************************************************************************)
EXTENDS Integers, FiniteSets

CONSTANTS
  Handler,         \* the threads of io_service_pool (nethandlerthreadcount)
  MdSource,        \* market data sources, each with its tick thread
  TdSource,        \* trade sources, each with its callback thread
  DataId,          \* the dataids of a strategy
  MaxStrategyID,   \* _MaxStrategyID: the last slot of the strategy array
  MaxObject,       \* bound: strategy objects created in a behaviour
  MaxOrder         \* bound: orders open at one time

ASSUME CoreAssumption ==
  /\ MaxStrategyID \in Nat
  /\ MaxObject \in Nat \ {0}
  /\ MaxOrder \in Nat
  /\ MdSource # {} /\ TdSource # {}
  /\ Handler \cap MdSource = {} /\ Handler \cap TdSource = {} /\ MdSource \cap TdSource = {}
  /\ DataId # {} /\ IsFiniteSet(DataId) /\ IsFiniteSet(Handler)

Slot    == 0 .. MaxStrategyID
Object  == 1 .. MaxObject      \* a strategy object, by order of creation
nullptr == 0
Config  == [md : [DataId -> MdSource], td : [DataId -> TdSource]]
Order   == [slot : Slot, obj : Object, td : TdSource]
Watcher == [slot : Slot, obj : Object, data : DataId]

VARIABLES
  obj,        \* [Slot -> 0..MaxObject]: CStrategyNode::m_pStrategy
  conf,       \* [Slot -> Config]: the two dataid maps of the node
  released,   \* objects on which OnRelease was called
  created,    \* number of objects created so far
  mdList,     \* the sources in m_vecAllMarketDataSource
  tdList,     \* the sources in m_vecAllTradeSource
  refs,       \* m_intRefCount of each source
  watchers,   \* [MdSource -> SUBSET Watcher]: m_mapInsid2Strategys
  orders,     \* orders the trade sources still report on
  hpc,        \* where a handler thread is
  hslot,      \* the slot it works on
  hconf,      \* the configuration it deploys, or of the strategy it cancels
  hleft,      \* the dataids it has still to attach, detach or give back
  hdata,      \* the dataid whose reference it gives back
  hread,      \* m_intRefCount of that source, as it has loaded it
  hnext,      \* what a redeployment falls back on when it fails
  mpc, mtodo, mcur,  \* tick thread: where, watchers to serve, watcher in OnTick
  tpc, tcur, tobj,   \* callback thread: where, order reported, object called
  lost,       \* history: sources at which a decrement has overwritten another
  fault       \* a strategy was used after OnRelease: behaviour is undefined

giveVars    == <<hdata, hread>>
handlerVars == <<hpc, hslot, hconf, hleft, hnext, giveVars>>
tickVars    == <<mpc, mtodo, mcur>>
reportVars  == <<tpc, tcur, tobj>>
arrayVars   == <<obj, conf, released, created>>
countVars   == <<refs, lost>>
sourceVars  == <<mdList, tdList, countVars, watchers>>
vars == <<arrayVars, sourceVars, orders, handlerVars, tickVars, reportVars, fault>>

-----------------------------------------------------------------------------
(* Locks *)

Deploying == {"find", "attach"}
Canceling == {"detach", "mdload", "mdstore", "tdload", "tdstore", "save", "clear"}

\* (mutant) CancelStrategy owns ST exclusively, as the comment of its caller asks.
STExclusiveWithCancel == {h \in Handler : hpc[h] \in Deploying \cup Canceling \cup {"hotupdate"}}

\* Threads that own ST exclusively, or share it.
STExclusive == {h \in Handler : hpc[h] \in Deploying \cup {"hotupdate"}}
STShared    == {h \in Handler : hpc[h] \in Canceling}
               \cup {t \in TdSource : tpc[t] # "idle"}

\* Threads that share the vector of market data sources.  A handler owns it
\* exclusively only within one step.
MDShared == {h \in Handler : hpc[h] \in Deploying \cup Canceling \cup {"hotupdate"}}

\* Threads that own the vector of trade sources exclusively, or share it.
TDExclusive == {h \in Handler : hpc[h] \in {"tdlocked", "hotupdate"}}
TDShared    == {h \in Handler : hpc[h] \in Deploying \cup Canceling}

\* (mutant) attach and detach do not lock the map.
MapUnprotected(m) == m \in MdSource

\* The tick thread shares the map of its source while it delivers a tick.
MapFree(m) == mpc[m] = "idle"

\* Threads inside OnTick, OnTrade or OnOrder of the strategy in slot s.
MutexOwners(s) == {m \in MdSource : mpc[m] \in {"ontick", "order"} /\ mcur[m].slot = s}
                  \cup {t \in TdSource : tpc[t] = "callback" /\ tcur[t].slot = s}

\* A pointer that OnRelease has freed, or that clear() has reset.
Stale(o) == o = nullptr \/ o \in released
-----------------------------------------------------------------------------
SomeConf    == CHOOSE c \in Config : TRUE
SomeOrder   == CHOOSE o \in Order : TRUE
SomeWatcher == CHOOSE w \in Watcher : TRUE
SomeDataId  == CHOOSE d \in DataId : TRUE

Init ==
  /\ obj = [s \in Slot |-> nullptr] /\ conf = [s \in Slot |-> SomeConf]
  /\ released = {} /\ created = 0
  /\ mdList = {} /\ tdList = {}
  /\ refs = [x \in MdSource \cup TdSource |-> 0]
  /\ watchers = [m \in MdSource |-> {}]
  /\ orders = {}
  /\ hpc = [h \in Handler |-> "idle"] /\ hslot = [h \in Handler |-> 0]
  /\ hconf = [h \in Handler |-> SomeConf] /\ hleft = [h \in Handler |-> {}]
  /\ hnext = [h \in Handler |-> "none"]
  /\ hdata = [h \in Handler |-> SomeDataId] /\ hread = [h \in Handler |-> 0]
  /\ mpc = [m \in MdSource |-> "idle"] /\ mtodo = [m \in MdSource |-> {}]
  /\ mcur = [m \in MdSource |-> SomeWatcher]
  /\ tpc = [t \in TdSource |-> "idle"] /\ tcur = [t \in TdSource |-> SomeOrder]
  /\ tobj = [t \in TdSource |-> nullptr]
  /\ lost = {} /\ fault = FALSE

-----------------------------------------------------------------------------
(* DeployStrategy *)

LocksForDeploy(h) ==
  /\ TDExclusive = {} /\ STExclusive = {} /\ STShared = {}
  /\ hpc' = [hpc EXCEPT ![h] = "find"]

\* reqdeploynewstrategy: the locks are taken before the sources are looked up.
DeployBegin(h) ==
  /\ hpc[h] = "idle"
  /\ LocksForDeploy(h)
  /\ \E c \in Config : hconf' = [hconf EXCEPT ![h] = c]
  /\ hnext' = [hnext EXCEPT ![h] = "none"]
  /\ UNCHANGED <<arrayVars, sourceVars, orders, hslot, hleft, giveVars, tickVars, reportVars, fault>>

\* The second half of requpdatestrategybin calls DeployStrategy again.
RedeployBegin(h) ==
  /\ hpc[h] = "redeploy"
  /\ LocksForDeploy(h)
  /\ UNCHANGED <<arrayVars, sourceVars, orders, hslot, hconf, hleft, hnext,
                 giveVars, tickVars, reportVars, fault>>

\* (mutant) the search does not look at m_pStrategy.
AllSlots == Slot

FreeSlots == {s \in Slot : obj[s] = nullptr}

\* How many dataids of a configuration trade through a source.
TdUses(c, x) == Cardinality({d \in DataId : c.td[d] = x})

\* The sources exist, a slot is free, the object is created and OnInit
\* succeeds: the node is filled and the trade sources gain a reference.
DeployCreate(h) ==
  /\ hpc[h] = "find"
  /\ created < MaxObject
  /\ \A d \in DataId : hconf[h].md[d] \in mdList /\ hconf[h].td[d] \in tdList
  /\ \E s \in FreeSlots :
       /\ \A r \in FreeSlots : s <= r
       /\ obj' = [obj EXCEPT ![s] = created + 1]
       /\ conf' = [conf EXCEPT ![s] = hconf[h]]
       /\ hslot' = [hslot EXCEPT ![h] = s]
  /\ created' = created + 1
  /\ refs' = [x \in DOMAIN refs |->
                refs[x] + TdUses(hconf[h], x)]
  /\ hleft' = [hleft EXCEPT ![h] = DataId]
  /\ hpc' = [hpc EXCEPT ![h] = "attach"]
  /\ hnext' = [hnext EXCEPT ![h] = "none"]
  /\ UNCHANGED <<released, mdList, tdList, lost, watchers, orders, hconf, giveVars,
                 tickVars, reportVars, fault>>

\* DeployStrategy throws: a source is missing, every slot is taken, or the
\* strategy does not load, rejects its parameters or fails OnInit and is
\* released at once.  An update then tries once more with the old binary.
DeployFail(h) ==
  /\ hpc[h] = "find"
  /\ hpc' = [hpc EXCEPT ![h] = IF hnext[h] = "old" THEN "redeploy" ELSE "idle"]
  /\ hnext' = [hnext EXCEPT ![h] = "none"]
  /\ UNCHANGED <<arrayVars, sourceVars, orders, hslot, hconf, hleft,
                 giveVars, tickVars, reportVars, fault>>

\* (mutant) IncreaseRefCount is not called.
DeployAttachUncounted(h, d) ==
  LET m == hconf[h].md[d] IN
  /\ hpc[h] = "attach" /\ d \in hleft[h]
  /\ MapFree(m)
  /\ watchers' = [watchers EXCEPT ![m] = @ \cup
       {[slot |-> hslot[h], obj |-> obj[hslot[h]], data |-> d]}]
  /\ hleft' = [hleft EXCEPT ![h] = @ \ {d}]
  /\ hpc' = [hpc EXCEPT ![h] = IF hleft[h] = {d} THEN "idle" ELSE "attach"]
  /\ UNCHANGED <<arrayVars, mdList, tdList, countVars, orders, hslot, hconf, hnext,
                 giveVars, tickVars, reportVars, fault>>

\* MDAttachStrategy of one dataid, in the order of an unordered map.
DeployAttach(h, d) ==
  LET m == hconf[h].md[d] IN
  /\ hpc[h] = "attach" /\ d \in hleft[h]
  /\ MapFree(m)
  /\ watchers' = [watchers EXCEPT ![m] = @ \cup
       {[slot |-> hslot[h], obj |-> obj[hslot[h]], data |-> d]}]
  /\ refs' = [refs EXCEPT ![m] = @ + 1]
  /\ hleft' = [hleft EXCEPT ![h] = @ \ {d}]
  /\ hpc' = [hpc EXCEPT ![h] = IF hleft[h] = {d} THEN "idle" ELSE "attach"]
  /\ UNCHANGED <<arrayVars, mdList, tdList, lost, orders, hslot, hconf, hnext,
                 giveVars, tickVars, reportVars, fault>>

-----------------------------------------------------------------------------
(* CancelStrategy: the three locks are taken shared, and the mutex of the *)
(* strategy is not taken.                                                  *)

\* reqcancelrunningstrategies, or the first half of requpdatestrategybin.
CancelBegin(h, s, next) ==
  /\ hpc[h] = "idle"
  /\ TDExclusive = {} /\ STExclusive = {}
  /\ obj[s] # nullptr
  /\ hpc' = [hpc EXCEPT ![h] = "detach"]
  /\ hslot' = [hslot EXCEPT ![h] = s]
  /\ hconf' = [hconf EXCEPT ![h] = conf[s]]
  /\ hleft' = [hleft EXCEPT ![h] = DataId]
  /\ hnext' = [hnext EXCEPT ![h] = next]
  /\ UNCHANGED <<arrayVars, sourceVars, orders, giveVars, tickVars, reportVars, fault>>

\* MDDetachStrategy of one dataid: it removes every entry of the strategy.
CancelDetach(h, d) ==
  LET m == hconf[h].md[d]
      o == obj[hslot[h]]
  IN
  /\ hpc[h] = "detach" /\ d \in hleft[h]
  /\ ~Stale(o)
  /\ MapFree(m)
  /\ watchers' = [watchers EXCEPT ![m] = {w \in @ : w.obj # o}]
  /\ hdata' = [hdata EXCEPT ![h] = d]
  /\ hpc' = [hpc EXCEPT ![h] = "mdload"]
  /\ UNCHANGED <<arrayVars, mdList, tdList, countVars, orders, hslot, hconf, hleft, hread,
                 hnext, tickVars, reportVars, fault>>

\* DescreaseRefCount decrements a plain int and no map is locked any more:
\* another handler may come between the load and the store.
Load(h, x, next) ==
  /\ ~Stale(obj[hslot[h]])
  /\ hread' = [hread EXCEPT ![h] = refs[x]]
  /\ hpc' = [hpc EXCEPT ![h] = next]
  /\ UNCHANGED <<arrayVars, sourceVars, orders, hslot, hconf, hleft, hnext,
                 tickVars, reportVars, fault>>

Store(h, x) ==
  /\ refs' = [refs EXCEPT ![x] = hread[h] - 1]
  /\ lost' = IF refs[x] = hread[h] THEN lost ELSE lost \cup {x}
  /\ hread' = [hread EXCEPT ![h] = 0]
  /\ hdata' = [hdata EXCEPT ![h] = SomeDataId]
  /\ UNCHANGED <<arrayVars, mdList, tdList, watchers, orders, hslot, hconf, hnext,
                 tickVars, reportVars, fault>>

\* The market data source loses its reference, and the next dataid is
\* detached; the trade sources come after the last one.
CancelMdLoad(h) ==
  /\ hpc[h] = "mdload"
  /\ Load(h, hconf[h].md[hdata[h]], "mdstore")
  /\ UNCHANGED hdata

CancelMdStore(h) ==
  /\ hpc[h] = "mdstore"
  /\ Store(h, hconf[h].md[hdata[h]])
  /\ IF hleft[h] = {hdata[h]}
     THEN hpc' = [hpc EXCEPT ![h] = "tdload"] /\ hleft' = [hleft EXCEPT ![h] = DataId]
     ELSE hpc' = [hpc EXCEPT ![h] = "detach"] /\ hleft' = [hleft EXCEPT ![h] = @ \ {hdata[h]}]

CancelTdLoad(h, d) ==
  /\ hpc[h] = "tdload" /\ d \in hleft[h]
  /\ Load(h, hconf[h].td[d], "tdstore")
  /\ hdata' = [hdata EXCEPT ![h] = d]

CancelTdStore(h) ==
  /\ hpc[h] = "tdstore"
  /\ Store(h, hconf[h].td[hdata[h]])
  /\ hpc' = [hpc EXCEPT ![h] = IF hleft[h] = {hdata[h]} THEN "save" ELSE "tdload"]
  /\ hleft' = [hleft EXCEPT ![h] = @ \ {hdata[h]}]

\* OnSave, OnEndup and OnRelease; freeing the strategy under a callback is
\* undefined.
CancelRelease(h) ==
  LET o == obj[hslot[h]] IN
  /\ hpc[h] = "save"
  /\ ~Stale(o)
  /\ released' = released \cup {o}
  /\ fault' = (\E t \in TdSource : tpc[t] = "callback" /\ tobj[t] = o)
  /\ hpc' = [hpc EXCEPT ![h] = "clear"]
  /\ UNCHANGED <<obj, conf, created, sourceVars, orders, hslot, hconf, hleft, hnext, giveVars,
                 tickVars, reportVars>>

\* CStrategyNode::clear(), and the locks are released.  An update goes on
\* with the new binary unless the archive could not be saved.
CancelClear(h) ==
  /\ hpc[h] = "clear"
  /\ obj' = [obj EXCEPT ![hslot[h]] = nullptr]
  /\ \/ hpc' = [hpc EXCEPT ![h] = "idle"] /\ hnext' = [hnext EXCEPT ![h] = "none"]
     \/ hnext[h] = "old" /\ hpc' = [hpc EXCEPT ![h] = "redeploy"] /\ UNCHANGED hnext
  /\ UNCHANGED <<conf, released, created, sourceVars, orders, hslot, hconf, hleft,
                 giveVars, tickVars, reportVars, fault>>

\* Another handler has released the same strategy: its node is used anyway.
CancelStale(h) ==
  /\ hpc[h] \in {"detach", "mdload", "tdload", "save"}
  /\ Stale(obj[hslot[h]])
  /\ fault' = TRUE
  /\ UNCHANGED <<arrayVars, sourceVars, orders, handlerVars, tickVars, reportVars>>

-----------------------------------------------------------------------------
(* ReqAddSource and ReqDelSource *)

AddMdSource(h, m) ==
  /\ hpc[h] = "idle" /\ MDShared = {}
  /\ m \notin mdList
  /\ mdList' = mdList \cup {m}
  /\ UNCHANGED <<arrayVars, tdList, countVars, watchers, orders, handlerVars,
                 tickVars, reportVars, fault>>

AddTdSource(h, t) ==
  /\ hpc[h] = "idle" /\ TDExclusive = {} /\ TDShared = {}
  /\ t \notin tdList
  /\ tdList' = tdList \cup {t}
  /\ UNCHANGED <<arrayVars, mdList, countVars, watchers, orders, handlerVars,
                 tickVars, reportVars, fault>>

\* (mutant) the reference counter is not looked at.
DelMdSourceInUse(h, m) ==
  /\ hpc[h] = "idle" /\ MDShared = {}
  /\ m \in mdList
  /\ mdList' = mdList \ {m}
  /\ UNCHANGED <<arrayVars, tdList, countVars, watchers, orders, handlerVars,
                 tickVars, reportVars, fault>>

DelMdSource(h, m) ==
  /\ hpc[h] = "idle" /\ MDShared = {}
  /\ m \in mdList /\ refs[m] <= 0
  /\ mdList' = mdList \ {m}
  /\ UNCHANGED <<arrayVars, tdList, countVars, watchers, orders, handlerVars,
                 tickVars, reportVars, fault>>

DelTdSource(h, t) ==
  /\ hpc[h] = "idle" /\ TDExclusive = {} /\ TDShared = {}
  /\ t \in tdList /\ refs[t] <= 0 /\ tpc[t] = "idle"
  /\ tdList' = tdList \ {t}
  /\ UNCHANGED <<arrayVars, mdList, countVars, watchers, orders, handlerVars,
                 tickVars, reportVars, fault>>

\* Adding a trade source that exists updates it: TD first ...
HotUpdateBegin(h) ==
  /\ hpc[h] = "idle" /\ TDExclusive = {} /\ TDShared = {}
  /\ tdList # {}
  /\ hpc' = [hpc EXCEPT ![h] = "tdlocked"]
  /\ UNCHANGED <<arrayVars, sourceVars, orders, hslot, hconf, hleft, hnext,
                 giveVars, tickVars, reportVars, fault>>

\* ... then MD and ST; the market data sources are paused (HotUpdating) ...
HotUpdateLock(h) ==
  /\ hpc[h] = "tdlocked" /\ STExclusive = {} /\ STShared = {}
  /\ hpc' = [hpc EXCEPT ![h] = "hotupdate"]
  /\ UNCHANGED <<arrayVars, sourceVars, orders, hslot, hconf, hleft, hnext,
                 giveVars, tickVars, reportVars, fault>>

\* ... TDHotUpdate is done, Continue and unlock.
HotUpdateEnd(h) ==
  /\ hpc[h] = "hotupdate"
  /\ hpc' = [hpc EXCEPT ![h] = "idle"]
  /\ UNCHANGED <<arrayVars, sourceVars, orders, hslot, hconf, hleft, hnext,
                 giveVars, tickVars, reportVars, fault>>

HotUpdating == \E h \in Handler : hpc[h] = "hotupdate"

-----------------------------------------------------------------------------
(* MakeOrder and the tick thread (OnRtnDepthMarketData) *)

\* The slot and the trade source travel in the order reference; the object
\* that placed the order is recorded for the properties.
Placed(s, o, d) ==
  /\ obj[s] # nullptr
  /\ Cardinality(orders) < MaxOrder
  /\ orders' = orders \cup {[slot |-> s, obj |-> o, td |-> conf[s].td[d]]}

\* The watchers of the instrument of the tick.
TickBegin(m) ==
  /\ mpc[m] = "idle" /\ m \in mdList /\ ~HotUpdating
  /\ \E W \in SUBSET watchers[m] : W # {} /\ mtodo' = [mtodo EXCEPT ![m] = W]
  /\ mpc' = [mpc EXCEPT ![m] = "deliver"]
  /\ UNCHANGED <<arrayVars, sourceVars, orders, handlerVars, mcur, reportVars, fault>>

\* try_lock of the strategy mutex: OnTick, or the tick is dropped.
TickServe(m, w) ==
  /\ mpc[m] = "deliver" /\ w \in mtodo[m]
  /\ mtodo' = [mtodo EXCEPT ![m] = @ \ {w}]
  /\ IF MutexOwners(w.slot) = {}
     THEN /\ mcur' = [mcur EXCEPT ![m] = w]
          /\ mpc' = [mpc EXCEPT ![m] = "ontick"]
     ELSE UNCHANGED <<mcur, mpc>>
  /\ UNCHANGED <<arrayVars, sourceVars, orders, handlerVars, reportVars, fault>>

\* OnTick calls MakeOrder, which asks for ST.
TickWantsOrder(m) ==
  /\ mpc[m] = "ontick"
  /\ mpc' = [mpc EXCEPT ![m] = "order"]
  /\ UNCHANGED <<arrayVars, sourceVars, orders, handlerVars, mtodo, mcur, reportVars, fault>>

\* OnTick returns and the strategy mutex is released.
TickReturn(m) ==
  /\ mpc[m] = "ontick"
  /\ mpc' = [mpc EXCEPT ![m] = "deliver"]
  /\ mcur' = [mcur EXCEPT ![m] = SomeWatcher]
  /\ UNCHANGED <<arrayVars, sourceVars, orders, handlerVars, mtodo, reportVars, fault>>

\* MakeOrder shares ST, places the order or returns LB1_NullOrderRef.
TickOrder(m) ==
  /\ mpc[m] = "order"
  /\ STExclusive = {}
  /\ mpc' = [mpc EXCEPT ![m] = "ontick"]
  /\ \/ \E d \in DataId : Placed(mcur[m].slot, mcur[m].obj, d)
     \/ UNCHANGED orders
  /\ UNCHANGED <<arrayVars, sourceVars, handlerVars, mtodo, mcur, reportVars, fault>>

TickEnd(m) ==
  /\ mpc[m] = "deliver" /\ mtodo[m] = {}
  /\ mpc' = [mpc EXCEPT ![m] = "idle"]
  /\ UNCHANGED <<arrayVars, sourceVars, orders, handlerVars, mtodo, mcur, reportVars, fault>>

-----------------------------------------------------------------------------
(* OnTrade and OnOrder, called by the thread of a trade source *)

\* ST is shared; the slot in the reference is looked up.
ReportBegin(t, o) ==
  /\ tpc[t] = "idle" /\ t \in tdList
  /\ o \in orders /\ o.td = t
  /\ STExclusive = {}
  /\ obj[o.slot] # nullptr
  /\ tcur' = [tcur EXCEPT ![t] = o]
  /\ tpc' = [tpc EXCEPT ![t] = "wait"]
  /\ UNCHANGED <<arrayVars, sourceVars, orders, handlerVars, tickVars, tobj, fault>>

\* The slot is empty: the report is dropped, and it may be the last one.
ReportDropped(t, o) ==
  /\ tpc[t] = "idle" /\ t \in tdList
  /\ o \in orders /\ o.td = t
  /\ STExclusive = {}
  /\ obj[o.slot] = nullptr
  /\ orders' = orders \ {o}
  /\ UNCHANGED <<arrayVars, sourceVars, handlerVars, tickVars, reportVars, fault>>

\* The strategy mutex is taken and m_pStrategy is read again for the call.
ReportCall(t) ==
  LET o == obj[tcur[t].slot] IN
  /\ tpc[t] = "wait"
  /\ MutexOwners(tcur[t].slot) = {}
  /\ tobj' = [tobj EXCEPT ![t] = o]
  /\ tpc' = [tpc EXCEPT ![t] = "callback"]
  /\ fault' = Stale(o)
  /\ UNCHANGED <<arrayVars, sourceVars, orders, handlerVars, tickVars, tcur>>

\* MakeOrder from the callback shares ST once more, which cannot block.
ReportOrder(t, d) ==
  /\ tpc[t] = "callback"
  /\ Placed(tcur[t].slot, tobj[t], d)
  /\ UNCHANGED <<arrayVars, sourceVars, handlerVars, tickVars, reportVars, fault>>

\* The callback returns; the order may be finished.
ReportEnd(t) ==
  /\ tpc[t] = "callback"
  /\ tpc' = [tpc EXCEPT ![t] = "idle"]
  /\ orders' \in {orders, orders \ {tcur[t]}}
  /\ UNCHANGED <<arrayVars, sourceVars, handlerVars, tickVars, tcur, tobj, fault>>

-----------------------------------------------------------------------------
HandlerStep(h) ==
  \/ DeployBegin(h) \/ RedeployBegin(h) \/ DeployCreate(h) \/ DeployFail(h)
  \/ \E d \in DataId : DeployAttach(h, d) \/ CancelDetach(h, d)
  \/ \E s \in Slot, next \in {"none", "old"} : CancelBegin(h, s, next)
  \/ CancelMdLoad(h) \/ CancelMdStore(h) \/ CancelTdStore(h)
  \/ \E d \in DataId : CancelTdLoad(h, d)
  \/ CancelRelease(h) \/ CancelClear(h) \/ CancelStale(h)
  \/ \E m \in MdSource : AddMdSource(h, m) \/ DelMdSource(h, m)
  \/ \E t \in TdSource : AddTdSource(h, t) \/ DelTdSource(h, t)
  \/ HotUpdateBegin(h) \/ HotUpdateLock(h) \/ HotUpdateEnd(h)

TickStep(m) ==
  \/ TickBegin(m)
  \/ \E w \in mtodo[m] : TickServe(m, w)
  \/ TickWantsOrder(m) \/ TickReturn(m) \/ TickOrder(m) \/ TickEnd(m)

ReportStep(t) ==
  \/ \E o \in orders : ReportBegin(t, o) \/ ReportDropped(t, o)
  \/ ReportCall(t) \/ ReportEnd(t)
  \/ \E d \in DataId : ReportOrder(t, d)

Next ==
  /\ ~fault
  /\ \/ \E h \in Handler : HandlerStep(h)
     \/ \E m \in MdSource : TickStep(m)
     \/ \E t \in TdSource : ReportStep(t)

Spec == Init /\ [][Next]_vars

(***************************************************************************)
(* Fairness.  A thread that can run does run.  OnTick returns, however     *)
(* many orders it places.  A handler blocks on the map of a source with    *)
(* unique_lock, and boost::shared_mutex keeps new readers out while a      *)
(* writer is blocked: it gets the map in the end (strong fairness).  A     *)
(* reader blocked on ST is woken when a writer leaves.  Nothing is assumed *)
(* of what std::lock only tries (HotUpdateLock, DeployBegin), of the       *)
(* callback threads, or of the requests.                                   *)
(***************************************************************************)
Fairness ==
  /\ \A h \in Handler :
       /\ WF_vars(DeployCreate(h) \/ DeployFail(h))
       /\ WF_vars(CancelMdLoad(h) \/ CancelMdStore(h))
       /\ WF_vars((\E d \in DataId : CancelTdLoad(h, d)) \/ CancelTdStore(h))
       /\ WF_vars(CancelRelease(h) \/ CancelClear(h) \/ CancelStale(h))
       /\ SF_vars(\E d \in DataId : DeployAttach(h, d) \/ CancelDetach(h, d))
       /\ WF_vars(HotUpdateEnd(h))
  /\ \A m \in MdSource :
       /\ WF_vars(\E w \in mtodo[m] : TickServe(m, w))
       /\ WF_vars(TickEnd(m))
       /\ SF_vars(TickReturn(m))
       /\ SF_vars(TickOrder(m))

FairSpec == Spec /\ Fairness

-----------------------------------------------------------------------------
(* Properties *)

\* Every variable has its type.
TypeOK ==
  /\ obj \in [Slot -> Object \cup {nullptr}] /\ conf \in [Slot -> Config]
  /\ released \subseteq Object /\ created \in 0 .. MaxObject
  /\ mdList \subseteq MdSource /\ tdList \subseteq TdSource
  /\ refs \in [MdSource \cup TdSource -> Int]
  /\ watchers \in [MdSource -> SUBSET Watcher]
  /\ orders \subseteq Order
  /\ hpc \in [Handler -> {"idle", "redeploy", "tdlocked", "hotupdate"}
                          \cup Deploying \cup Canceling]
  /\ hslot \in [Handler -> Slot] /\ hconf \in [Handler -> Config]
  /\ hleft \in [Handler -> SUBSET DataId] /\ hnext \in [Handler -> {"none", "old"}]
  /\ hdata \in [Handler -> DataId] /\ hread \in [Handler -> Int]
  /\ lost \subseteq MdSource \cup TdSource
  /\ mpc \in [MdSource -> {"idle", "deliver", "ontick", "order"}]
  /\ mtodo \in [MdSource -> SUBSET Watcher] /\ mcur \in [MdSource -> Watcher]
  /\ tpc \in [TdSource -> {"idle", "wait", "callback"}]
  /\ tcur \in [TdSource -> Order] /\ tobj \in [TdSource -> Object \cup {nullptr}]
  /\ fault \in BOOLEAN

(***************************************************************************)
(* What the code keeps true between any two steps of its threads: the      *)
(* inductive invariant from which the safety properties follow.            *)
(***************************************************************************)

\* A thread that owns ST exclusively is alone in it.
ExclusiveInv == \A h \in STExclusive : STShared = {} /\ STExclusive = {h}

\* Objects are numbered by creation and sit in one slot each.
ArrayInv ==
  /\ \A s \in Slot : obj[s] <= created
  /\ \A o \in released : o <= created
  /\ \A r, s \in Slot : obj[r] = obj[s] /\ obj[s] # nullptr => r = s

\* An entry of a source's map is of the strategy in its slot, which lives
\* and is configured for that source.
WatcherInv ==
  \A m \in MdSource : \A w \in watchers[m] :
    obj[w.slot] = w.obj /\ w.obj \notin released /\ conf[w.slot].md[w.data] = m

\* What a tick thread has in hand is still in the map it shares.
TickInv ==
  \A m \in MdSource :
    /\ mtodo[m] \subseteq watchers[m]
    /\ mpc[m] = "idle" => mtodo[m] = {}
    /\ mpc[m] \in {"ontick", "order"} => mcur[m] \in watchers[m]

\* The node that is being attached holds the new strategy.
AttachInv ==
  \A h \in Handler : hpc[h] = "attach" =>
    ~Stale(obj[hslot[h]]) /\ conf[hslot[h]] = hconf[h]

\* What CancelStrategy has detached stays detached until it is released.
Detached(h, d) ==
  \/ hpc[h] \in {"detach", "mdload", "mdstore"} /\ d \notin hleft[h]
  \/ hpc[h] \in {"mdload", "mdstore"} /\ d = hdata[h]
  \/ hpc[h] \in {"tdload", "tdstore", "save", "clear"}

CancelInv ==
  \A h \in Handler : hpc[h] \in Canceling =>
    /\ obj[hslot[h]] # nullptr => hconf[h] = conf[hslot[h]]
    /\ \A d \in DataId : Detached(h, d) =>
         \A w \in watchers[hconf[h].md[d]] : w.slot # hslot[h]
    /\ hpc[h] \in {"mdload", "mdstore", "tdstore"} => hdata[h] \in hleft[h]
    /\ hpc[h] = "clear" => Stale(obj[hslot[h]])

\* An order belongs to the strategy in its slot or to a released one.
OrderInv ==
  /\ \A o \in orders : o.obj = obj[o.slot] \/ o.obj \in released
  /\ \A t \in TdSource :
       /\ tpc[t] # "idle" => tcur[t].obj = obj[tcur[t].slot] \/ tcur[t].obj \in released
       /\ tpc[t] = "callback" /\ ~fault =>
            /\ tobj[t] # nullptr
            /\ tobj[t] = obj[tcur[t].slot] \/ tobj[t] \in released
            /\ tobj[t] = tcur[t].obj \/ tcur[t].obj \in released

\* Until a fault, a report is in the strategy of its slot, which lives; its
\* order is still known; and a slot is emptied only after a release.
CallInv ==
  /\ \A t \in TdSource :
       /\ tpc[t] # "idle" => tcur[t] \in orders /\ tcur[t].td = t
       /\ tpc[t] = "callback" /\ ~fault => tobj[t] = obj[tcur[t].slot] /\ ~Stale(tobj[t])
  /\ \A h \in Handler : hpc[h] \in Canceling /\ obj[hslot[h]] = nullptr => released # {}

\* A slot is emptied by the one handler that has released its strategy.
ClearInv ==
  \A h \in Handler : hpc[h] = "clear" =>
    /\ obj[hslot[h]] # nullptr
    /\ \A g \in Handler \ {h} : hpc[g] = "clear" => hslot[g] # hslot[h]

\* All of it.
IInv == /\ TypeOK /\ ExclusiveInv /\ ArrayInv /\ WatcherInv /\ TickInv
        /\ AttachInv /\ CancelInv /\ OrderInv /\ CallInv /\ ClearInv

\* OnTick is never called on a strategy that was released: CancelStrategy
\* detaches it under the map lock that the tick thread shares while it
\* delivers, and only then calls OnRelease.
NoTickOnReleased ==
  \A m \in MdSource :
    /\ \A w \in watchers[m] \cup mtodo[m] : w.obj \notin released
    /\ mpc[m] \in {"ontick", "order"} => mcur[m].obj \notin released

\* The MakeOrder of an OnTick finds in the array the strategy that calls it:
\* no slot is emptied or refilled under a tick.
TickOrdersInOwnSlot ==
  \A m \in MdSource : mpc[m] \in {"ontick", "order"} => obj[mcur[m].slot] = mcur[m].obj

\* A source that a running strategy uses is never deleted, so the raw
\* pointers of its node do not dangle ("some strategy is dependent on it").
SourceInUse ==
  \A s \in Slot, d \in DataId :
    obj[s] # nullptr => conf[s].md[d] \in mdList /\ conf[s].td[d] \in tdList

\* Who holds references to a source: the pairs of a slot and a dataid on it;
\* those that a handler has yet to attach, or whose reference it has given
\* back to a market data or to a trade source.
Attached(x)  == {p \in Slot \X DataId : obj[p[1]] # nullptr /\ conf[p[1]].md[p[2]] = x}
Pending(x)   == {p \in Handler \X DataId :
                   hpc[p[1]] = "attach" /\ p[2] \in hleft[p[1]] /\ hconf[p[1]].md[p[2]] = x}
GivenBack(x) == {p \in Handler \X DataId :
                   /\ \/ hpc[p[1]] \in {"detach", "mdload", "mdstore"} /\ p[2] \notin hleft[p[1]]
                      \/ hpc[p[1]] \in {"tdload", "tdstore", "save", "clear"}
                   /\ hconf[p[1]].md[p[2]] = x}
Used(x)      == {p \in Slot \X DataId : obj[p[1]] # nullptr /\ conf[p[1]].td[p[2]] = x}
Returned(x)  == {p \in Handler \X DataId :
                   /\ \/ hpc[p[1]] \in {"tdload", "tdstore"} /\ p[2] \notin hleft[p[1]]
                      \/ hpc[p[1]] \in {"save", "clear"}
                   /\ hconf[p[1]].td[p[2]] = x}

\* The references that are held to a source, also when two handlers cancel
\* the same strategy and both give them back.
MdHeld(m) == Cardinality(Attached(m)) - Cardinality(Pending(m)) - Cardinality(GivenBack(m))
TdHeld(t) == Cardinality(Used(t)) - Cardinality(Returned(t))

\* The reference counter of a source is never less than the references that
\* are held to it, although the handlers that cancel decrement it with no
\* lock against each other; it is more only after one decrement has
\* overwritten another, and then the source may be refused to be deleted
\* although nobody uses it.
RefCountCovers ==
  /\ \A m \in MdSource : refs[m] >= MdHeld(m) /\ (m \notin lost => refs[m] = MdHeld(m))
  /\ \A t \in TdSource : refs[t] >= TdHeld(t) /\ (t \notin lost => refs[t] = TdHeld(t))

\* A report reaches a strategy that did not place the order only if the one
\* that did was released and its slot was filled again.
ReportReachesOwner ==
  \A t \in TdSource :
    tpc[t] = "callback" /\ ~fault => tobj[t] = tcur[t].obj \/ tcur[t].obj \in released

\* Who waits for whom, and the one way to wait in a circle: DeployStrategy
\* owns ST and waits in MDAttachStrategy for the map that a tick thread
\* shares, while that thread waits in MakeOrder for ST.
Thread == Handler \cup MdSource \cup TdSource

WaitsFor(a, b) ==
  \/ /\ a \in Handler /\ hpc[a] \in {"attach", "detach"}
     /\ \E d \in hleft[a] : b = hconf[a].md[d] /\ ~MapFree(b)
  \/ /\ a \in Handler /\ hpc[a] = "tdlocked"
     /\ b \in STExclusive \cup STShared
  \/ /\ a \in MdSource /\ mpc[a] = "order"
     /\ b \in STExclusive
  \/ /\ a \in TdSource /\ tpc[a] = "wait"
     /\ b \in MutexOwners(tcur[a].slot)

Inversion(h, m) ==
  /\ hpc[h] = "attach" /\ mpc[m] = "order"
  /\ \E d \in hleft[h] : hconf[h].md[d] = m

\* Threads wait for each other in a circle only by that inversion of locks.
DeadlockOnlyByInversion ==
  \A C \in (SUBSET Thread) \ {{}} :
    (\A a \in C : \E b \in C : WaitsFor(a, b))
      => \E h \in C \cap Handler, m \in C \cap MdSource : Inversion(h, m)


\* CancelStrategy ends whatever the tick threads do: it waits for a map with
\* ST only shared, so the tick in its way can still place its order.
CancelEnds ==
  \A h \in Handler : hpc[h] \in Canceling ~> (hpc[h] \notin Canceling \/ fault)

\* What the strategies see of it: StrategyHost, as long as there is no fault.
StageOf(o) == IF o > created THEN "none" ELSE IF o \in released THEN "released" ELSE "running"
InCallback(o) ==
  {m \in MdSource : mpc[m] \in {"ontick", "order"} /\ mcur[m].obj = o}
  \cup {t \in TdSource : tpc[t] = "callback" /\ tobj[t] = o}

Stages    == [o \in Object |-> StageOf(o)]
Listeners == [m \in MdSource |-> {w.obj : w \in watchers[m]}]
Callbacks == [o \in Object |-> InCallback(o)]
Traders   == {o.obj : o \in orders}

Host == INSTANCE StrategyHost WITH
  Strategy <- Object, stage <- Stages, listens <- Listeners,
  inside <- Callbacks, traders <- Traders, broken <- fault

\* Every step of the host keeps what StrategyHost promises the strategies:
\* no OnTick before they are attached or after they are detached, one callback
\* at a time, none after OnRelease, and reports for those who placed orders.
HostSpec == Host!HostSpec

\* Two threads are never in callbacks of one strategy, and none is in one that
\* is not running, unless its end was met by a report.
OneCallAtATime == Host!OneCallAtATime

\* The strategy array is what its comment asks for, protected: no strategy
\* is used after its OnRelease.
NoUseAfterRelease == ~fault
=============================================================================
