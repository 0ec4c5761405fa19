------------------------- MODULE TradeServiceProofs -------------------------
(***************************************************************************)
(* Proofs about TradeService, for any number of handlers, sources, slots,  *)
(* dataids and orders.                                                     *)
(***************************************************************************)
EXTENDS TradeService, FiniteSetTheorems, TLAPS

(***************************************************************************)
(* The placeholders of the initial state have their types.                 *)
(***************************************************************************)
LEMMA SomeTyped == /\ SomeConf \in Config /\ SomeOrder \in Order
                   /\ SomeWatcher \in Watcher /\ SomeDataId \in DataId /\ 0 \in Slot
<1>1. 0 \in Slot BY CoreAssumption DEF Slot
<1>2. PICK m \in MdSource, t \in TdSource, d \in DataId : TRUE
  BY CoreAssumption
<1>3. [md |-> [x \in DataId |-> m], td |-> [x \in DataId |-> t]] \in Config
  BY <1>2 DEF Config
<1>4. 1 \in Object BY CoreAssumption DEF Object
<1>5. [slot |-> 0, obj |-> 1, td |-> t] \in Order
  BY <1>1, <1>2, <1>4 DEF Order
<1>6. [slot |-> 0, obj |-> 1, data |-> d] \in Watcher
  BY <1>1, <1>2, <1>4 DEF Watcher
<1>7. QED BY <1>1, <1>2, <1>3, <1>5, <1>6 DEF SomeConf, SomeOrder, SomeWatcher, SomeDataId

(***************************************************************************)
(* The number of dataids on one source is a natural number.                *)
(***************************************************************************)
LEMMA DataIdCount == \A c, x : TdUses(c, x) \in Nat
<1> SUFFICES ASSUME NEW c, NEW x PROVE TdUses(c, x) \in Nat OBVIOUS
<1>1. {d \in DataId : c.td[d] = x} \subseteq DataId OBVIOUS
<1>2. IsFiniteSet({d \in DataId : c.td[d] = x}) BY <1>1, FS_Subset, CoreAssumption
<1>3. QED BY <1>2, FS_CardinalityType DEF TdUses

(***************************************************************************)
(* The code has no step before its locks, lists and strategies are empty.  *)
(***************************************************************************)
LEMMA InitInv == Init => IInv
<1> SUFFICES ASSUME Init PROVE IInv OBVIOUS
<1> USE SomeTyped, CoreAssumption DEF Init, nullptr
<1>1. TypeOK
  <2>1. /\ obj \in [Slot -> Object \cup {nullptr}] /\ conf \in [Slot -> Config]
        /\ released \subseteq Object /\ created \in 0 .. MaxObject
    OBVIOUS
  <2>2. /\ mdList \subseteq MdSource /\ tdList \subseteq TdSource
        /\ refs \in [MdSource \cup TdSource -> Int]
        /\ watchers \in [MdSource -> SUBSET Watcher] /\ orders \subseteq Order
        /\ lost \subseteq MdSource \cup TdSource
    OBVIOUS
  <2>3. /\ hpc \in [Handler -> {"idle", "redeploy", "tdlocked", "hotupdate"}
                               \cup Deploying \cup Canceling]
        /\ hslot \in [Handler -> Slot] /\ hconf \in [Handler -> Config]
        /\ hleft \in [Handler -> SUBSET DataId] /\ hnext \in [Handler -> {"none", "old"}]
        /\ hdata \in [Handler -> DataId] /\ hread \in [Handler -> Int]
    OBVIOUS
  <2>4. /\ mpc \in [MdSource -> {"idle", "deliver", "ontick", "order"}]
        /\ mtodo \in [MdSource -> SUBSET Watcher] /\ mcur \in [MdSource -> Watcher]
    OBVIOUS
  <2>5. /\ tpc \in [TdSource -> {"idle", "wait", "callback"}]
        /\ tcur \in [TdSource -> Order] /\ tobj \in [TdSource -> Object \cup {nullptr}]
        /\ fault \in BOOLEAN
    OBVIOUS
  <2>6. QED BY <2>1, <2>2, <2>3, <2>4, <2>5 DEF TypeOK
<1>2. ExclusiveInv BY DEF ExclusiveInv, STExclusive, STShared, Deploying
<1>3. ArrayInv BY DEF ArrayInv
<1>4. WatcherInv BY DEF WatcherInv
<1>5. TickInv BY DEF TickInv
<1>6. AttachInv BY DEF AttachInv
<1>7. CancelInv BY DEF CancelInv, Canceling
<1>8. OrderInv BY DEF OrderInv
<1>9. CallInv BY DEF CallInv, Canceling
<1>10. ClearInv BY DEF ClearInv
<1>11. QED BY <1>1, <1>2, <1>3, <1>4, <1>5, <1>6, <1>7, <1>8, <1>9, <1>10 DEF IInv

(***************************************************************************)
(* Every step of every thread keeps the types.                             *)
(***************************************************************************)
LEMMA TypeStep ==
  ASSUME TypeOK, AttachInv, OrderInv, [Next]_vars PROVE TypeOK'
<1> USE CoreAssumption
<1> USE DEF TypeOK, vars, handlerVars, giveVars, tickVars, reportVars, arrayVars, sourceVars,
            countVars, Deploying, Canceling, nullptr
<1>1. CASE UNCHANGED vars BY <1>1
<1>2. ASSUME NEW h \in Handler, HandlerStep(h) PROVE TypeOK'
  <2>1. CASE DeployBegin(h) BY <2>1 DEF DeployBegin, LocksForDeploy
  <2>2. CASE RedeployBegin(h) BY <2>2 DEF RedeployBegin, LocksForDeploy
  <2>3. CASE DeployCreate(h)
    <3>1. created + 1 \in Object /\ created + 1 \in 0 .. MaxObject
      BY <2>3 DEF DeployCreate, Object
    <3>2. refs' \in [MdSource \cup TdSource -> Int]
      BY <2>3, DataIdCount DEF DeployCreate
    <3>3. PICK s \in FreeSlots : /\ obj' = [obj EXCEPT ![s] = created + 1]
                                 /\ conf' = [conf EXCEPT ![s] = hconf[h]]
                                 /\ hslot' = [hslot EXCEPT ![h] = s]
      BY <2>3 DEF DeployCreate
    <3>4. /\ obj' \in [Slot -> Object \cup {nullptr}] /\ conf' \in [Slot -> Config]
          /\ hslot' \in [Handler -> Slot]
      BY <3>1, <3>3 DEF FreeSlots
    <3>5. QED BY <2>3, <3>1, <3>2, <3>4 DEF DeployCreate
  <2>4. CASE DeployFail(h) BY <2>4 DEF DeployFail
  <2>5. ASSUME NEW d \in DataId, DeployAttach(h, d) PROVE TypeOK'
    <3>1. hconf[h].md[d] \in MdSource BY DEF Config
    <3>2. obj[hslot[h]] \in Object BY <2>5 DEF DeployAttach, AttachInv, Stale
    <3>3. [slot |-> hslot[h], obj |-> obj[hslot[h]], data |-> d] \in Watcher
      BY <3>2 DEF Watcher
    <3>4. QED BY <2>5, <3>1, <3>3 DEF DeployAttach
  <2>6. ASSUME NEW d \in DataId, CancelDetach(h, d) PROVE TypeOK'
    <3>1. hconf[h].md[d] \in MdSource BY DEF Config
    <3>2. QED BY <2>6, <3>1 DEF CancelDetach
  <2>7. ASSUME NEW s \in Slot, NEW next \in {"none", "old"}, CancelBegin(h, s, next)
        PROVE TypeOK'
    BY <2>7 DEF CancelBegin
  <2>8. CASE \/ CancelMdLoad(h) \/ CancelMdStore(h) \/ CancelTdStore(h)
             \/ \E d \in DataId : CancelTdLoad(h, d)
    <3>1. SomeDataId \in DataId BY SomeTyped
    <3>2. \A d \in DataId : hconf[h].md[d] \in MdSource /\ hconf[h].td[d] \in TdSource
      BY DEF Config
    <3>3. CASE CancelMdLoad(h) BY <3>2, <3>3 DEF CancelMdLoad, Load
    <3>4. CASE CancelMdStore(h) BY <3>1, <3>2, <3>4 DEF CancelMdStore, Store
    <3>5. CASE CancelTdStore(h) BY <3>1, <3>2, <3>5 DEF CancelTdStore, Store
    <3>6. ASSUME NEW d \in DataId, CancelTdLoad(h, d) PROVE TypeOK'
      BY <3>2, <3>6 DEF CancelTdLoad, Load
    <3>7. QED BY <2>8, <3>3, <3>4, <3>5, <3>6
  <2>9. CASE CancelRelease(h) BY <2>9 DEF CancelRelease, Stale
  <2>10. CASE CancelClear(h) BY <2>10 DEF CancelClear
  <2>11. CASE CancelStale(h) BY <2>11 DEF CancelStale
  <2>12. ASSUME NEW m \in MdSource, AddMdSource(h, m) \/ DelMdSource(h, m) PROVE TypeOK'
    BY <2>12 DEF AddMdSource, DelMdSource
  <2>13. ASSUME NEW t \in TdSource, AddTdSource(h, t) \/ DelTdSource(h, t) PROVE TypeOK'
    BY <2>13 DEF AddTdSource, DelTdSource
  <2>14. CASE HotUpdateBegin(h) BY <2>14 DEF HotUpdateBegin
  <2>15. CASE HotUpdateLock(h) BY <2>15 DEF HotUpdateLock
  <2>16. CASE HotUpdateEnd(h) BY <2>16 DEF HotUpdateEnd
  <2> HIDE DEF TypeOK, vars, handlerVars, giveVars, tickVars, reportVars, arrayVars, sourceVars,
               countVars
  <2>17. QED BY <1>2, <2>1, <2>2, <2>3, <2>4, <2>5, <2>6, <2>7, <2>8, <2>9, <2>10, <2>11,
                <2>12, <2>13, <2>14, <2>15, <2>16 DEF HandlerStep
<1>3. ASSUME NEW m \in MdSource, TickStep(m) PROVE TypeOK'
  <2>1. CASE TickBegin(m) BY <2>1 DEF TickBegin
  <2>2. ASSUME NEW w \in mtodo[m], TickServe(m, w) PROVE TypeOK' BY <2>2 DEF TickServe
  <2>3. CASE TickWantsOrder(m) BY <2>3 DEF TickWantsOrder
  <2>4. CASE TickReturn(m) BY <2>4, SomeTyped DEF TickReturn
  <2>5. CASE TickOrder(m)
    <3>1. mcur[m].slot \in Slot /\ mcur[m].obj \in Object BY DEF Watcher
    <3>2. ASSUME NEW d \in DataId, Placed(mcur[m].slot, mcur[m].obj, d)
          PROVE orders' \subseteq Order
      <4>1. conf[mcur[m].slot].td[d] \in TdSource BY <3>1 DEF Config
      <4>2. QED BY <3>1, <3>2, <4>1 DEF Placed, Order
    <3>3. QED BY <2>5, <3>2 DEF TickOrder
  <2>6. CASE TickEnd(m) BY <2>6 DEF TickEnd
  <2>7. QED BY <1>3, <2>1, <2>2, <2>3, <2>4, <2>5, <2>6 DEF TickStep
<1>4. ASSUME NEW t \in TdSource, ReportStep(t), ~fault PROVE TypeOK'
  <2>1. ASSUME NEW o \in orders, ReportBegin(t, o) PROVE TypeOK' BY <2>1 DEF ReportBegin
  <2>2. ASSUME NEW o \in orders, ReportDropped(t, o) PROVE TypeOK' BY <2>2 DEF ReportDropped
  <2>3. CASE ReportCall(t) BY <2>3 DEF ReportCall, Stale, Order
  <2>4. CASE ReportEnd(t) BY <2>4 DEF ReportEnd
  <2>5. ASSUME NEW d \in DataId, ReportOrder(t, d) PROVE TypeOK'
    <3>1. tcur[t].slot \in Slot BY DEF Order
    <3>2. conf[tcur[t].slot].td[d] \in TdSource BY <3>1 DEF Config
    <3>3. tobj[t] \in Object BY <1>4, <2>5 DEF ReportOrder, OrderInv
    <3>4. orders' \subseteq Order BY <2>5, <3>1, <3>2, <3>3 DEF ReportOrder, Placed, Order
    <3>5. QED BY <2>5, <3>4 DEF ReportOrder
  <2>6. QED BY <1>4, <2>1, <2>2, <2>3, <2>4, <2>5 DEF ReportStep
<1>5. QED BY <1>1, <1>2, <1>3, <1>4 DEF Next

(***************************************************************************)
(* Which steps change the strategy array, the map of a source, the threads *)
(* and the orders.                                                         *)
(***************************************************************************)
LEMMA Frame ==
  ASSUME [Next]_vars
  PROVE  \/ UNCHANGED vars
         \/ /\ ~fault /\ \E h \in Handler : HandlerStep(h)
            /\ UNCHANGED <<orders, tickVars, reportVars>>
         \/ /\ ~fault /\ \E m \in MdSource : TickStep(m)
            /\ UNCHANGED <<arrayVars, sourceVars, handlerVars, reportVars, fault>>
         \/ /\ ~fault /\ \E t \in TdSource : ReportStep(t)
            /\ UNCHANGED <<arrayVars, sourceVars, handlerVars, tickVars>>
<1>1. ASSUME NEW h \in Handler, HandlerStep(h) PROVE UNCHANGED <<orders, tickVars, reportVars>>
  BY <1>1 DEF HandlerStep, DeployBegin, RedeployBegin, DeployCreate, DeployFail, DeployAttach,
     CancelDetach, CancelBegin, CancelMdLoad, CancelMdStore, CancelTdLoad, CancelTdStore, Load,
     Store, CancelRelease, CancelClear, CancelStale,
     AddMdSource, DelMdSource, AddTdSource, DelTdSource, HotUpdateBegin, HotUpdateLock,
     HotUpdateEnd
<1>2. ASSUME NEW m \in MdSource, TickStep(m)
      PROVE  UNCHANGED <<arrayVars, sourceVars, handlerVars, reportVars, fault>>
  BY <1>2 DEF TickStep, TickBegin, TickServe, TickWantsOrder, TickReturn, TickOrder, TickEnd
<1>3. ASSUME NEW t \in TdSource, ReportStep(t)
      PROVE  UNCHANGED <<arrayVars, sourceVars, handlerVars, tickVars>>
  BY <1>3 DEF ReportStep, ReportBegin, ReportDropped, ReportCall, ReportEnd, ReportOrder
<1>4. QED BY <1>1, <1>2, <1>3 DEF Next

(***************************************************************************)
(* A thread that owns ST exclusively stays alone in it: the others wait.   *)
(***************************************************************************)
LEMMA ExclusiveStep == ASSUME IInv, [Next]_vars PROVE ExclusiveInv'
<1> USE DEF IInv, TypeOK, ExclusiveInv, STExclusive, STShared, Deploying, Canceling
<1>1. CASE UNCHANGED <<hpc, tpc>> BY <1>1
<1>2. ASSUME NEW h \in Handler, HandlerStep(h), UNCHANGED reportVars PROVE ExclusiveInv'
  <2> USE <1>2 DEF reportVars, handlerVars
  <2>1. CASE DeployBegin(h) BY <2>1 DEF DeployBegin, LocksForDeploy
  <2>2. CASE RedeployBegin(h) BY <2>2 DEF RedeployBegin, LocksForDeploy
  <2>3. CASE DeployCreate(h) \/ DeployFail(h) BY <2>3 DEF DeployCreate, DeployFail
  <2>4. ASSUME NEW d \in DataId, DeployAttach(h, d) \/ CancelDetach(h, d)
        PROVE  ExclusiveInv'
    BY <2>4 DEF DeployAttach, CancelDetach
  <2>5. ASSUME NEW s \in Slot, NEW next \in {"none", "old"}, CancelBegin(h, s, next)
        PROVE ExclusiveInv'
    BY <2>5 DEF CancelBegin
  <2>6. CASE CancelRelease(h) \/ CancelClear(h) \/ CancelStale(h)
    BY <2>6 DEF CancelRelease, CancelClear, CancelStale
  <2>7. ASSUME NEW m \in MdSource, AddMdSource(h, m) \/ DelMdSource(h, m)
        PROVE  ExclusiveInv'
    BY <2>7 DEF AddMdSource, DelMdSource
  <2>8. ASSUME NEW t \in TdSource, AddTdSource(h, t) \/ DelTdSource(h, t)
        PROVE  ExclusiveInv'
    BY <2>8 DEF AddTdSource, DelTdSource
  <2>9. CASE HotUpdateBegin(h) \/ HotUpdateLock(h) \/ HotUpdateEnd(h)
    BY <2>9 DEF HotUpdateBegin, HotUpdateLock, HotUpdateEnd
  <2>10. CASE \/ CancelMdLoad(h) \/ CancelMdStore(h) \/ CancelTdStore(h)
             \/ \E d \in DataId : CancelTdLoad(h, d)
    BY <2>10 DEF CancelMdLoad, CancelMdStore, CancelTdStore, CancelTdLoad, Load, Store
  <2> HIDE DEF IInv, TypeOK, ExclusiveInv, STExclusive, STShared, Deploying, Canceling
  <2>11. QED
    BY <1>2, <2>1, <2>2, <2>3, <2>4, <2>5, <2>6, <2>7, <2>8, <2>9, <2>10 DEF HandlerStep
<1>3. ASSUME NEW t \in TdSource, ReportStep(t), UNCHANGED handlerVars PROVE ExclusiveInv'
  BY <1>3 DEF ReportStep, ReportBegin, ReportDropped, ReportCall, ReportEnd, ReportOrder,
              reportVars, handlerVars
<1>4. QED BY Frame, <1>1, <1>2, <1>3 DEF vars, handlerVars, reportVars

(***************************************************************************)
(* The steps of a handler that leave the array and the maps as they are.   *)
(***************************************************************************)
LEMMA HandlerFrame ==
  ASSUME NEW h \in Handler, HandlerStep(h)
  PROVE  \/ DeployCreate(h) /\ UNCHANGED <<released, watchers>>
         \/ CancelRelease(h) /\ UNCHANGED <<obj, conf, created, watchers>>
         \/ CancelClear(h) /\ UNCHANGED <<conf, released, created, watchers>>
         \/ \E d \in DataId : DeployAttach(h, d) /\ UNCHANGED arrayVars
         \/ \E d \in DataId : CancelDetach(h, d) /\ UNCHANGED arrayVars
         \/ UNCHANGED <<arrayVars, watchers>>
  BY DEF HandlerStep, DeployBegin, RedeployBegin, DeployCreate, DeployFail, DeployAttach,
     CancelDetach, CancelBegin, CancelMdLoad, CancelMdStore, CancelTdLoad, CancelTdStore, Load,
     Store, CancelRelease, CancelClear, CancelStale,
     AddMdSource, DelMdSource, AddTdSource, DelTdSource, HotUpdateBegin, HotUpdateLock,
     HotUpdateEnd, sourceVars, arrayVars

(***************************************************************************)
(* A new object takes a number that no slot has and none had before.       *)
(***************************************************************************)
LEMMA ArrayStep == ASSUME IInv, [Next]_vars PROVE ArrayInv'
<1> USE CoreAssumption DEF IInv, TypeOK, ArrayInv, nullptr, Object
<1>1. CASE UNCHANGED arrayVars BY <1>1 DEF arrayVars
<1>2. ASSUME NEW h \in Handler, DeployCreate(h) PROVE ArrayInv'
  BY <1>2 DEF DeployCreate, FreeSlots
<1>3. ASSUME NEW h \in Handler, CancelRelease(h) PROVE ArrayInv'
  BY <1>3 DEF CancelRelease, Stale
<1>4. ASSUME NEW h \in Handler, CancelClear(h) PROVE ArrayInv'
  BY <1>4 DEF CancelClear
<1> HIDE DEF IInv, TypeOK, ArrayInv
<1>5. QED BY Frame, HandlerFrame, <1>1, <1>2, <1>3, <1>4 DEF vars

(***************************************************************************)
(* CancelStrategy releases an object when no map holds it any more, and    *)
(* DeployStrategy attaches only the object it has put into the array.      *)
(***************************************************************************)
LEMMA WatcherStep == ASSUME IInv, [Next]_vars PROVE WatcherInv'
<1> USE CoreAssumption DEF IInv, WatcherInv, nullptr
<1>0. \A m \in MdSource : \A w \in watchers[m] :
        w.slot \in Slot /\ w.obj \in Object /\ w.data \in DataId /\ w.obj # 0
  BY DEF TypeOK, Watcher, Object
<1>1. CASE UNCHANGED <<arrayVars, watchers>> BY <1>1 DEF arrayVars
<1>2. ASSUME NEW h \in Handler, DeployCreate(h), UNCHANGED <<released, watchers>>
      PROVE  WatcherInv'
  BY <1>0, <1>2 DEF DeployCreate, FreeSlots, TypeOK
<1>3. ASSUME NEW h \in Handler, CancelRelease(h), UNCHANGED <<obj, conf, created, watchers>>
      PROVE  WatcherInv'
  <2> DEFINE o == obj[hslot[h]]
  <2>1. /\ hpc[h] = "save" /\ o # nullptr /\ released' = released \cup {o}
        /\ hslot[h] \in Slot
    BY <1>3 DEF CancelRelease, Stale, TypeOK
  <2>2. hconf[h] = conf[hslot[h]] /\ \A d \in DataId : Detached(h, d)
    BY <2>1 DEF CancelInv, Canceling, Detached
  <2>3. ASSUME NEW m \in MdSource, NEW w \in watchers[m], w.obj = o PROVE FALSE
    <3>1. w.slot = hslot[h] BY <1>0, <2>1, <2>3 DEF ArrayInv
    <3>2. m = hconf[h].md[w.data] BY <2>2, <3>1
    <3>3. QED BY <1>0, <2>1, <2>2, <3>1, <3>2 DEF CancelInv, Canceling
  <2>4. QED BY <1>3, <2>1, <2>3
<1>4. ASSUME NEW h \in Handler, CancelClear(h), UNCHANGED <<conf, released, created, watchers>>
      PROVE  WatcherInv'
  <2>1. Stale(obj[hslot[h]]) /\ hslot[h] \in Slot
    BY <1>4 DEF CancelClear, CancelInv, Canceling, TypeOK
  <2>2. \A m \in MdSource : \A w \in watchers[m] : w.slot # hslot[h]
    BY <1>0, <2>1 DEF Stale
  <2>3. QED BY <1>0, <1>4, <2>2 DEF CancelClear, TypeOK
<1>5. ASSUME NEW h \in Handler, NEW d \in DataId, DeployAttach(h, d), UNCHANGED arrayVars
      PROVE  WatcherInv'
  <2>1. hpc[h] = "attach" BY <1>5 DEF DeployAttach
  <2>2. ~Stale(obj[hslot[h]]) /\ conf[hslot[h]] = hconf[h] BY <2>1 DEF AttachInv
  <2>3. QED BY <1>5, <2>2 DEF DeployAttach, Stale, TypeOK, arrayVars
<1>6. ASSUME NEW h \in Handler, NEW d \in DataId, CancelDetach(h, d), UNCHANGED arrayVars
      PROVE  WatcherInv'
  BY <1>6 DEF CancelDetach, TypeOK, arrayVars
<1> HIDE DEF IInv, WatcherInv
<1>7. QED BY Frame, HandlerFrame, <1>1, <1>2, <1>3, <1>4, <1>5, <1>6 DEF vars, sourceVars

(***************************************************************************)
(* A tick thread shares the map, so what it has in hand is not detached.   *)
(***************************************************************************)
LEMMA TickInvStep == ASSUME IInv, [Next]_vars PROVE TickInv'
<1> USE DEF IInv, TypeOK, TickInv
<1>1. CASE UNCHANGED <<watchers, tickVars>> BY <1>1 DEF tickVars
<1>2. ASSUME NEW h \in Handler, NEW d \in DataId, DeployAttach(h, d) \/ CancelDetach(h, d)
      PROVE  TickInv'
  <2>1. hconf[h].md[d] \in MdSource BY DEF Config
  <2>2. UNCHANGED tickVars /\ MapFree(hconf[h].md[d])
        /\ \A m \in MdSource : m # hconf[h].md[d] => watchers'[m] = watchers[m]
    BY <1>2 DEF DeployAttach, CancelDetach
  <2>3. QED BY <2>1, <2>2 DEF MapFree, tickVars
<1>3. ASSUME NEW m \in MdSource, TickStep(m), UNCHANGED watchers PROVE TickInv'
  <2>1. CASE TickBegin(m) BY <1>3, <2>1 DEF TickBegin
  <2>2. ASSUME NEW w \in mtodo[m], TickServe(m, w) PROVE TickInv'
    BY <1>3, <2>2 DEF TickServe
  <2>3. CASE TickWantsOrder(m) BY <1>3, <2>3 DEF TickWantsOrder
  <2>4. CASE TickReturn(m) BY <1>3, <2>4 DEF TickReturn
  <2>5. CASE TickOrder(m) BY <1>3, <2>5 DEF TickOrder
  <2>6. CASE TickEnd(m) BY <1>3, <2>6 DEF TickEnd
  <2>7. QED BY <1>3, <2>1, <2>2, <2>3, <2>4, <2>5, <2>6 DEF TickStep
<1> HIDE DEF IInv, TypeOK, TickInv
<1>4. QED BY Frame, HandlerFrame, <1>1, <1>2, <1>3 DEF vars, sourceVars, tickVars

(***************************************************************************)
(* A handler changes only what it has in hand itself.                      *)
(***************************************************************************)
LEMMA HandlerLocal ==
  ASSUME TypeOK, NEW h \in Handler, HandlerStep(h)
  PROVE  \A g \in Handler : g # h =>
           /\ hpc'[g] = hpc[g] /\ hslot'[g] = hslot[g]
           /\ hconf'[g] = hconf[g] /\ hleft'[g] = hleft[g]
           /\ hdata'[g] = hdata[g] /\ hread'[g] = hread[g]
<1> SUFFICES ASSUME NEW g \in Handler, g # h
             PROVE  /\ hpc'[g] = hpc[g] /\ hslot'[g] = hslot[g]
                    /\ hconf'[g] = hconf[g] /\ hleft'[g] = hleft[g]
                    /\ hdata'[g] = hdata[g] /\ hread'[g] = hread[g]
  OBVIOUS
<1> USE DEF TypeOK, giveVars
<1>1. CASE DeployBegin(h) \/ RedeployBegin(h) \/ DeployCreate(h) \/ DeployFail(h)
  BY <1>1 DEF DeployBegin, RedeployBegin, LocksForDeploy, DeployCreate, DeployFail
<1>2. CASE \E d \in DataId : DeployAttach(h, d) \/ CancelDetach(h, d)
  BY <1>2 DEF DeployAttach, CancelDetach
<1>3. CASE \E s \in Slot, next \in {"none", "old"} : CancelBegin(h, s, next)
  BY <1>3 DEF CancelBegin
<1>4. CASE CancelRelease(h) \/ CancelClear(h) \/ CancelStale(h)
  BY <1>4 DEF CancelRelease, CancelClear, CancelStale, handlerVars
<1>5. CASE \/ \E m \in MdSource : AddMdSource(h, m) \/ DelMdSource(h, m)
           \/ \E t \in TdSource : AddTdSource(h, t) \/ DelTdSource(h, t)
  BY <1>5 DEF AddMdSource, DelMdSource, AddTdSource, DelTdSource, handlerVars
<1>6. CASE HotUpdateBegin(h) \/ HotUpdateLock(h) \/ HotUpdateEnd(h)
  BY <1>6 DEF HotUpdateBegin, HotUpdateLock, HotUpdateEnd
<1>7. CASE \/ CancelMdLoad(h) \/ CancelMdStore(h) \/ CancelTdStore(h)
           \/ \E d \in DataId : CancelTdLoad(h, d)
  BY <1>7 DEF CancelMdLoad, CancelMdStore, CancelTdStore, CancelTdLoad, Load, Store
<1> HIDE DEF TypeOK, giveVars
<1>8. QED BY <1>1, <1>2, <1>3, <1>4, <1>5, <1>6, <1>7 DEF HandlerStep

(***************************************************************************)
(* A handler is in the attach loop because it has just created a strategy  *)
(* or was there before.                                                    *)
(***************************************************************************)
LEMMA AttachOrigin ==
  ASSUME TypeOK, NEW h \in Handler, HandlerStep(h), hpc'[h] = "attach"
  PROVE  \/ DeployCreate(h)
         \/ hpc[h] = "attach" /\ hslot'[h] = hslot[h] /\ hconf'[h] = hconf[h]
<1> USE DEF TypeOK
<1>1. ~DeployBegin(h) /\ ~RedeployBegin(h) /\ ~DeployFail(h)
  BY DEF DeployBegin, RedeployBegin, LocksForDeploy, DeployFail
<1>2. ASSUME NEW d \in DataId, DeployAttach(h, d) \/ CancelDetach(h, d)
      PROVE  hpc[h] = "attach" /\ hslot'[h] = hslot[h] /\ hconf'[h] = hconf[h]
  BY <1>2 DEF DeployAttach, CancelDetach
<1>3. \A s \in Slot, next \in {"none", "old"} : ~CancelBegin(h, s, next)
  BY DEF CancelBegin
<1>4. ~CancelRelease(h) /\ ~CancelClear(h) /\ ~CancelStale(h)
  BY DEF CancelRelease, CancelClear, CancelStale, handlerVars
<1>5. /\ \A m \in MdSource : ~AddMdSource(h, m) /\ ~DelMdSource(h, m)
      /\ \A t \in TdSource : ~AddTdSource(h, t) /\ ~DelTdSource(h, t)
  BY DEF AddMdSource, DelMdSource, AddTdSource, DelTdSource, handlerVars
<1>6. ~HotUpdateBegin(h) /\ ~HotUpdateLock(h) /\ ~HotUpdateEnd(h)
  BY DEF HotUpdateBegin, HotUpdateLock, HotUpdateEnd
<1>7. /\ ~CancelMdLoad(h) /\ ~CancelMdStore(h) /\ ~CancelTdStore(h)
      /\ \A d \in DataId : ~CancelTdLoad(h, d)
  BY DEF CancelMdLoad, CancelMdStore, CancelTdStore, CancelTdLoad, Load, Store
<1> HIDE DEF TypeOK
<1>8. QED BY <1>1, <1>2, <1>3, <1>4, <1>5, <1>6, <1>7 DEF HandlerStep

(***************************************************************************)
(* DeployStrategy owns ST exclusively, so the node it attaches stays as it *)
(* filled it: nothing cancels the strategy in the meantime.                *)
(***************************************************************************)
LEMMA AttachStep == ASSUME IInv, [Next]_vars PROVE AttachInv'
<1> USE CoreAssumption DEF IInv, TypeOK, AttachInv
<1>0. ASSUME NEW h \in Handler, hpc[h] = "attach"
      PROVE  STShared = {} /\ STExclusive = {h}
  BY <1>0 DEF ExclusiveInv, STExclusive, Deploying
<1>1. CASE UNCHANGED <<arrayVars, hpc, hslot, hconf>> BY <1>1 DEF arrayVars, Stale
<1>2. ASSUME NEW h \in Handler, HandlerStep(h) PROVE AttachInv'
  <2>1. CASE DeployCreate(h)
    <3>1. PICK s \in FreeSlots : /\ obj' = [obj EXCEPT ![s] = created + 1]
                                 /\ conf' = [conf EXCEPT ![s] = hconf[h]]
                                 /\ hslot' = [hslot EXCEPT ![h] = s]
      BY <2>1 DEF DeployCreate
    <3>2. created + 1 \notin released /\ created + 1 # nullptr
      BY DEF ArrayInv, Object, nullptr
    <3>3. \A g \in Handler : hpc[g] # "attach"
      BY <1>0, <2>1 DEF DeployCreate, STExclusive, Deploying
    <3>4. QED BY <2>1, <3>1, <3>2, <3>3 DEF DeployCreate, FreeSlots, Stale
  <2>2. CASE CancelRelease(h) \/ CancelClear(h)
    <3>1. h \in STShared BY <2>2 DEF CancelRelease, CancelClear, STShared, Canceling
    <3>2. \A g \in Handler : hpc[g] # "attach" BY <1>0, <3>1
    <3>3. QED BY <2>2, <3>2 DEF CancelRelease, CancelClear
  <2>3. CASE UNCHANGED <<obj, conf, released, created>>
    <3>1. hpc'[h] = "attach" =>
            \/ DeployCreate(h)
            \/ hpc[h] = "attach" /\ hslot'[h] = hslot[h] /\ hconf'[h] = hconf[h]
      BY <1>2, AttachOrigin
    <3>2. \A g \in Handler : g # h =>
            hpc'[g] = hpc[g] /\ hslot'[g] = hslot[g] /\ hconf'[g] = hconf[g]
      BY <1>2, HandlerLocal
    <3>3. QED BY <2>1, <2>3, <3>1, <3>2 DEF Stale
  <2> HIDE DEF IInv, TypeOK, AttachInv
  <2>4. DeployCreate(h) \/ CancelRelease(h) \/ CancelClear(h) \/ UNCHANGED arrayVars
    BY <1>2, HandlerFrame
  <2>5. QED BY <2>1, <2>2, <2>3, <2>4 DEF arrayVars
<1> HIDE DEF IInv, TypeOK, AttachInv
<1>3. QED BY Frame, <1>1, <1>2 DEF vars, handlerVars

(***************************************************************************)
(* A handler is in CancelStrategy because it has just begun or has gone on *)
(* from one step of it to the next, or was there before.                   *)
(***************************************************************************)
LEMMA CancelOrigin ==
  ASSUME TypeOK, NEW h \in Handler, HandlerStep(h), hpc'[h] \in Canceling
  PROVE  \/ \E s \in Slot, next \in {"none", "old"} : CancelBegin(h, s, next)
         \/ \E d \in DataId : CancelDetach(h, d)
         \/ CancelMdLoad(h) \/ CancelMdStore(h) \/ CancelTdStore(h)
         \/ \E d \in DataId : CancelTdLoad(h, d)
         \/ CancelRelease(h)
         \/ UNCHANGED handlerVars
<1> USE DEF TypeOK, Canceling
<1>1. ~DeployBegin(h) /\ ~RedeployBegin(h) /\ ~DeployFail(h) /\ ~DeployCreate(h)
  BY DEF DeployBegin, RedeployBegin, LocksForDeploy, DeployFail, DeployCreate
<1>2. \A d \in DataId : ~DeployAttach(h, d)
  BY DEF DeployAttach
<1>3. ~CancelClear(h) BY DEF CancelClear
<1>4. CancelStale(h) => UNCHANGED handlerVars BY DEF CancelStale
<1>5. /\ \A m \in MdSource : AddMdSource(h, m) \/ DelMdSource(h, m) => UNCHANGED handlerVars
      /\ \A t \in TdSource : AddTdSource(h, t) \/ DelTdSource(h, t) => UNCHANGED handlerVars
  BY DEF AddMdSource, DelMdSource, AddTdSource, DelTdSource
<1>6. ~HotUpdateBegin(h) /\ ~HotUpdateLock(h) /\ ~HotUpdateEnd(h)
  BY DEF HotUpdateBegin, HotUpdateLock, HotUpdateEnd
<1> HIDE DEF TypeOK, Canceling
<1>7. QED BY <1>1, <1>2, <1>3, <1>4, <1>5, <1>6 DEF HandlerStep

(***************************************************************************)
(* No new entry of a strategy appears between the detach loop of its       *)
(* CancelStrategy and its OnRelease: DeployStrategy is shut out by ST.     *)
(***************************************************************************)
LEMMA CancelStep == ASSUME IInv, [Next]_vars PROVE CancelInv'
<1> USE CoreAssumption DEF IInv, TypeOK, CancelInv
<1>0. ASSUME NEW h \in Handler, hpc[h] \in Deploying
      PROVE  \A g \in Handler : hpc[g] \notin Canceling
  BY <1>0 DEF ExclusiveInv, STExclusive, STShared
<1>1. CASE UNCHANGED <<arrayVars, watchers, handlerVars>>
  BY <1>1 DEF arrayVars, handlerVars, giveVars, Stale, Detached
<1>2. ASSUME NEW h \in Handler, HandlerStep(h) PROVE CancelInv'
  <2>1. \A g \in Handler : g # h =>
          /\ hpc'[g] = hpc[g] /\ hslot'[g] = hslot[g]
          /\ hconf'[g] = hconf[g] /\ hleft'[g] = hleft[g]
          /\ hdata'[g] = hdata[g] /\ \A d \in DataId : Detached(g, d)' <=> Detached(g, d)
    BY <1>2, HandlerLocal DEF Detached
  <2>2. CASE \/ DeployCreate(h)
             \/ \E d \in DataId : DeployAttach(h, d)
    <3>1. hpc[h] \in Deploying BY <2>2 DEF DeployCreate, DeployAttach, Deploying
    <3>2. hpc'[h] \notin Canceling BY <2>2 DEF DeployCreate, DeployAttach, Canceling
    <3>3. \A g \in Handler : hpc'[g] \notin Canceling BY <1>0, <2>1, <3>1, <3>2
    <3>4. QED BY <3>3
  <2>3. CASE CancelRelease(h) /\ UNCHANGED <<obj, conf, created, watchers>>
    <3>1. \A d \in DataId : Detached(h, d) BY <2>3 DEF CancelRelease, Detached
    <3>2. QED BY <2>1, <2>3, <3>1 DEF CancelRelease, Stale, Canceling
  <2>4. CASE CancelClear(h) /\ UNCHANGED <<conf, released, created, watchers>>
    BY <2>1, <2>4 DEF CancelClear, Stale, Canceling
  <2>5. ASSUME NEW d \in DataId, CancelDetach(h, d), UNCHANGED arrayVars PROVE CancelInv'
    <3>1. /\ hpc[h] = "detach" /\ ~Stale(obj[hslot[h]]) /\ d \in hleft[h]
          /\ hconf[h].md[d] \in MdSource
          /\ watchers' = [watchers EXCEPT ![hconf[h].md[d]] = {w \in @ : w.obj # obj[hslot[h]]}]
          /\ UNCHANGED <<hleft, hslot, hconf, obj, conf, released>>
          /\ hpc'[h] = "mdload" /\ hdata'[h] = d
      BY <2>5 DEF CancelDetach, Config, arrayVars
    <3>2. \A m \in MdSource : watchers'[m] \subseteq watchers[m] BY <3>1
    <3>3. \A w \in watchers'[hconf[h].md[d]] : w.slot # hslot[h]
      BY <3>1 DEF WatcherInv
    <3>4. ASSUME NEW g \in Handler, hpc'[g] \in Canceling,
                 NEW e \in DataId, Detached(g, e)', NEW w \in watchers'[hconf[g].md[e]]
          PROVE  w.slot # hslot[g]
      <4>1. hconf[g].md[e] \in MdSource BY DEF Config
      <4>2. CASE g = h /\ e = d BY <3>3, <3>4, <4>2
      <4>3. CASE ~(g = h /\ e = d)
        <5>1. hpc[g] \in Canceling /\ Detached(g, e)
          BY <2>1, <3>1, <3>4, <4>3 DEF Canceling, Detached
        <5>2. w \in watchers[hconf[g].md[e]] BY <3>2, <3>4, <4>1
        <5>3. QED BY <5>1, <5>2
      <4>4. QED BY <4>2, <4>3
    <3>5. \A g \in Handler : hpc'[g] \in Canceling =>
            /\ obj'[hslot'[g]] # nullptr => hconf'[g] = conf'[hslot'[g]]
            /\ hpc'[g] \in {"mdload", "mdstore", "tdstore"} => hdata'[g] \in hleft'[g]
            /\ hpc'[g] = "clear" => Stale(obj[hslot[g]])'
      BY <2>1, <3>1 DEF Canceling, Stale
    <3>6. QED BY <3>1, <3>4, <3>5
  <2>6. CASE UNCHANGED <<arrayVars, watchers>>
    <3>1. CASE hpc'[h] \notin Canceling BY <2>1, <2>6, <3>1 DEF arrayVars, Stale
    <3>2. ASSUME NEW s \in Slot, NEW next \in {"none", "old"}, CancelBegin(h, s, next)
          PROVE  CancelInv'
      BY <2>1, <2>6, <3>2 DEF CancelBegin, arrayVars, Stale, Canceling, Detached
    <3>3. ASSUME hpc[h] \in Canceling, hpc'[h] \in Canceling \ {"clear"},
                 UNCHANGED <<hslot, hconf>>,
                 hpc'[h] \in {"mdload", "mdstore", "tdstore"} => hdata'[h] \in hleft'[h],
                 \A d \in DataId : Detached(h, d)' => Detached(h, d)
          PROVE  CancelInv'
      <4>1. UNCHANGED <<obj, conf, released, watchers>> BY <2>6 DEF arrayVars
      <4>2. QED BY <2>1, <3>3, <4>1 DEF Stale
    <3>4. CASE CancelMdLoad(h)
      BY <3>3, <3>4 DEF CancelMdLoad, Load, Canceling, Detached
    <3>5. CASE CancelMdStore(h)
      BY <3>3, <3>5 DEF CancelMdStore, Store, Canceling, Detached
    <3>6. CASE \E d \in DataId : CancelTdLoad(h, d)
      BY <3>3, <3>6 DEF CancelTdLoad, Load, Canceling, Detached
    <3>7. CASE CancelTdStore(h)
      BY <3>3, <3>7 DEF CancelTdStore, Store, Canceling, Detached
    <3>8. CASE (\E d \in DataId : CancelDetach(h, d)) \/ CancelRelease(h)
      BY <2>3, <2>5, <2>6, <3>8 DEF arrayVars
    <3>9. CASE UNCHANGED handlerVars BY <1>1, <2>6, <3>9
    <3> HIDE DEF IInv, TypeOK, CancelInv
    <3>10. QED BY <1>2, <3>1, <3>2, <3>4, <3>5, <3>6, <3>7, <3>8, <3>9, CancelOrigin DEF IInv
  <2> HIDE DEF IInv, TypeOK, CancelInv
  <2>7. QED BY <1>2, HandlerFrame, <2>2, <2>3, <2>4, <2>5, <2>6
<1> HIDE DEF IInv, TypeOK, CancelInv
<1>3. QED BY Frame, <1>1, <1>2 DEF vars, sourceVars

(***************************************************************************)
(* The slot in an order reference names the strategy that placed it as     *)
(* long as that strategy is not released.                                  *)
(***************************************************************************)
LEMMA OrderStep == ASSUME IInv, [Next]_vars PROVE OrderInv'
<1> USE CoreAssumption DEF IInv, OrderInv, nullptr
<1>0. /\ \A o \in orders : o.slot \in Slot /\ o.obj \in Object /\ o.obj # 0
      /\ \A t \in TdSource : tcur[t].slot \in Slot /\ tcur[t].obj \in Object /\ tcur[t].obj # 0
  BY DEF TypeOK, Order, Object
<1>1. CASE UNCHANGED <<obj, released, orders, tpc, tcur, tobj, fault>> BY <1>1
<1>2. ASSUME NEW h \in Handler, HandlerStep(h), UNCHANGED <<orders, reportVars>>, ~fault
      PROVE  OrderInv'
  <2> USE <1>2 DEF reportVars
  <2>1. CASE DeployCreate(h)
    <3>1. STShared = {} BY <2>1 DEF DeployCreate, ExclusiveInv, STExclusive, Deploying
    <3>2. \A t \in TdSource : tpc[t] = "idle" BY <3>1 DEF STShared
    <3>3. \A s \in Slot : obj'[s] # obj[s] => obj[s] = nullptr
      BY <2>1 DEF DeployCreate, FreeSlots, TypeOK
    <3>4. UNCHANGED released BY <2>1 DEF DeployCreate
    <3>5. QED BY <1>0, <3>2, <3>3, <3>4
  <2>2. CASE CancelRelease(h) /\ UNCHANGED <<obj, conf, created, watchers>>
    BY <2>2 DEF CancelRelease
  <2>3. CASE CancelClear(h) /\ UNCHANGED <<conf, released, created, watchers>>
    <3>1. hslot[h] \in Slot /\ Stale(obj[hslot[h]])
      BY <2>3 DEF CancelClear, CancelInv, Canceling, TypeOK
    <3>2. \A s \in Slot : obj'[s] # obj[s] => obj[s] = nullptr \/ obj[s] \in released
      BY <2>3, <3>1 DEF CancelClear, Stale, TypeOK
    <3>3. UNCHANGED <<released, fault>> BY <2>3 DEF CancelClear
    <3>4. QED BY <1>0, <3>2, <3>3
  <2>4. CASE UNCHANGED <<obj, released>> BY <1>2, <2>4
  <2> HIDE DEF IInv, OrderInv
  <2>5. \/ DeployCreate(h)
        \/ CancelRelease(h) /\ UNCHANGED <<obj, conf, created, watchers>>
        \/ CancelClear(h) /\ UNCHANGED <<conf, released, created, watchers>>
        \/ UNCHANGED arrayVars
    BY <1>2, HandlerFrame
  <2>6. QED BY <2>1, <2>2, <2>3, <2>4, <2>5 DEF arrayVars
<1>3. ASSUME NEW m \in MdSource, TickStep(m),
             UNCHANGED <<arrayVars, sourceVars, handlerVars, reportVars, fault>>
      PROVE  OrderInv'
  <2>1. CASE TickOrder(m)
    <3>1. mcur[m] \in watchers[m] BY <2>1 DEF TickOrder, TickInv
    <3>2. mcur[m].obj = obj[mcur[m].slot] BY <3>1 DEF WatcherInv
    <3>3. \A o \in orders' : o \in orders \/ o.obj = obj[o.slot]
      BY <2>1, <3>2 DEF TickOrder, Placed
    <3>4. QED BY <1>3, <3>3 DEF arrayVars, reportVars
  <2>2. CASE UNCHANGED orders BY <1>1, <1>3, <2>2 DEF arrayVars, reportVars
  <2>3. QED BY <1>3, <2>1, <2>2 DEF TickStep, TickBegin, TickServe, TickWantsOrder, TickReturn,
       TickEnd
<1>4. ASSUME NEW t \in TdSource, ReportStep(t), UNCHANGED arrayVars, ~fault PROVE OrderInv'
  <2> USE <1>4 DEF arrayVars, TypeOK
  <2>1. ASSUME NEW o \in orders, ReportBegin(t, o) PROVE OrderInv' BY <2>1 DEF ReportBegin
  <2>2. ASSUME NEW o \in orders, ReportDropped(t, o) PROVE OrderInv'
    BY <2>2 DEF ReportDropped, reportVars
  <2>3. CASE ReportCall(t) BY <2>3 DEF ReportCall, Stale
  <2>4. CASE ReportEnd(t) BY <2>4 DEF ReportEnd
  <2>5. ASSUME NEW d \in DataId, ReportOrder(t, d) PROVE OrderInv'
    BY <2>5 DEF ReportOrder, Placed, reportVars
  <2> HIDE DEF IInv, OrderInv, TypeOK
  <2>6. QED BY <1>4, <2>1, <2>2, <2>3, <2>4, <2>5 DEF ReportStep
<1> HIDE DEF IInv, OrderInv
<1>5. QED BY Frame, <1>1, <1>2, <1>3, <1>4 DEF vars, arrayVars, reportVars

(***************************************************************************)
(* A report that is in a strategy stays with it: whoever releases the      *)
(* strategy meanwhile makes the fault.                                     *)
(***************************************************************************)
LEMMA CallStep == ASSUME IInv, [Next]_vars PROVE CallInv'
<1> USE CoreAssumption DEF IInv, CallInv, nullptr
<1>1. CASE UNCHANGED vars
  BY <1>1 DEF vars, arrayVars, handlerVars, reportVars, Stale
<1>2. ASSUME NEW h \in Handler, HandlerStep(h), UNCHANGED <<orders, reportVars>>, ~fault
      PROVE  CallInv'
  <2> USE <1>2 DEF reportVars
  <2>0. \A g \in Handler : g # h => hpc'[g] = hpc[g] /\ hslot'[g] = hslot[g]
    BY HandlerLocal
  <2>1. CASE DeployCreate(h) /\ UNCHANGED <<released, watchers>>
    <3>1. STShared = {} BY <2>1 DEF DeployCreate, ExclusiveInv, STExclusive, Deploying
    <3>2. \A t \in TdSource : tpc[t] = "idle" BY <3>1 DEF STShared
    <3>3. \A g \in Handler : hpc'[g] \notin Canceling
      BY <2>0, <2>1, <3>1 DEF DeployCreate, STShared, Canceling, TypeOK
    <3>4. QED BY <3>2, <3>3
  <2>2. CASE CancelRelease(h) /\ UNCHANGED <<obj, conf, created, watchers>>
    <3>1. released' = released \cup {obj[hslot[h]]} BY <2>2 DEF CancelRelease
    <3>2. ASSUME NEW t \in TdSource, tpc[t] = "callback", ~fault'
          PROVE  tobj[t] = obj[tcur[t].slot] /\ ~Stale(tobj[t])'
      <4>1. tobj[t] # obj[hslot[h]] BY <2>2, <3>2 DEF CancelRelease
      <4>2. QED BY <3>1, <3>2, <4>1 DEF Stale
    <3>3. QED BY <2>2, <3>1, <3>2
  <2>3. CASE CancelClear(h) /\ UNCHANGED <<conf, released, created, watchers>>
    <3>1. /\ hslot[h] \in Slot /\ Stale(obj[hslot[h]])
          /\ obj' = [obj EXCEPT ![hslot[h]] = nullptr]
          /\ UNCHANGED <<released, fault, hslot>>
      BY <2>3 DEF CancelClear, CancelInv, Canceling, TypeOK
    <3>2. released # {}
      BY <2>3, <3>1 DEF CancelClear, Canceling, Stale
    <3>3. ASSUME NEW t \in TdSource, tpc[t] = "callback"
          PROVE  tobj[t] = obj'[tcur[t].slot] /\ ~Stale(tobj[t])'
      <4>1. tobj[t] = obj[tcur[t].slot] /\ ~Stale(tobj[t]) BY <3>3
      <4>2. tcur[t].slot # hslot[h] BY <3>1, <4>1
      <4>3. tcur[t].slot \in Slot BY DEF TypeOK, Order
      <4>4. QED BY <3>1, <4>1, <4>2, <4>3 DEF Stale, TypeOK
    <3>4. QED BY <3>1, <3>2, <3>3
  <2>4. CASE UNCHANGED arrayVars
    <3>1. ASSUME NEW t \in TdSource, tpc[t] = "callback", ~fault'
          PROVE  tobj[t] = obj'[tcur[t].slot] /\ ~Stale(tobj[t])'
      BY <2>4, <3>1 DEF arrayVars, Stale
    <3>2. ASSUME hpc'[h] \in Canceling, obj'[hslot'[h]] = nullptr PROVE released' # {}
      <4>1. CASE \E s \in Slot, next \in {"none", "old"} : CancelBegin(h, s, next)
        BY <3>2, <4>1, <2>4 DEF CancelBegin, arrayVars, TypeOK
      <4>2. CASE hpc[h] \in Canceling /\ hslot'[h] = hslot[h]
        BY <3>2, <4>2, <2>4 DEF arrayVars
      <4>3. ASSUME NEW d \in DataId, CancelDetach(h, d)
            PROVE  hpc[h] \in Canceling /\ hslot'[h] = hslot[h]
        BY <4>3 DEF CancelDetach, Canceling
      <4>4. ASSUME \/ CancelMdLoad(h) \/ CancelMdStore(h) \/ CancelTdStore(h)
                   \/ \E d \in DataId : CancelTdLoad(h, d)
                   \/ CancelRelease(h)
            PROVE  hpc[h] \in Canceling /\ hslot'[h] = hslot[h]
        BY <4>4 DEF CancelMdLoad, CancelMdStore, CancelTdStore, CancelTdLoad, Load, Store,
                    CancelRelease, Canceling
      <4>5. ASSUME UNCHANGED handlerVars
            PROVE  hpc[h] \in Canceling /\ hslot'[h] = hslot[h]
        BY <3>2, <4>5 DEF handlerVars
      <4>6. QED BY <3>2, <4>1, <4>2, <4>3, <4>4, <4>5, CancelOrigin
    <3>3. QED BY <2>0, <2>4, <3>1, <3>2 DEF arrayVars
  <2> HIDE DEF IInv, CallInv
  <2>5. QED BY <1>2, HandlerFrame, <2>1, <2>2, <2>3, <2>4 DEF arrayVars
<1>3. ASSUME NEW m \in MdSource, TickStep(m),
             UNCHANGED <<arrayVars, sourceVars, handlerVars, reportVars, fault>>
      PROVE  CallInv'
  <2>1. orders \subseteq orders'
    BY <1>3 DEF TickStep, TickBegin, TickServe, TickWantsOrder, TickReturn, TickOrder, TickEnd,
                Placed
  <2>2. QED BY <1>3, <2>1 DEF arrayVars, handlerVars, reportVars, Stale
<1>4. ASSUME NEW t \in TdSource, ReportStep(t), ~fault,
             UNCHANGED <<arrayVars, sourceVars, handlerVars, tickVars>>
      PROVE  CallInv'
  <2> USE <1>4 DEF arrayVars, handlerVars, TypeOK, Stale
  <2>1. ASSUME NEW o \in orders, ReportBegin(t, o) PROVE CallInv' BY <2>1 DEF ReportBegin
  <2>2. ASSUME NEW o \in orders, ReportDropped(t, o) PROVE CallInv'
    BY <2>2 DEF ReportDropped, reportVars
  <2>3. CASE ReportCall(t) BY <2>3 DEF ReportCall
  <2>4. CASE ReportEnd(t) BY <2>4 DEF ReportEnd
  <2>5. ASSUME NEW d \in DataId, ReportOrder(t, d) PROVE CallInv'
    BY <2>5 DEF ReportOrder, Placed, reportVars
  <2> HIDE DEF IInv, CallInv, TypeOK, Stale
  <2>6. QED BY <1>4, <2>1, <2>2, <2>3, <2>4, <2>5 DEF ReportStep
<1> HIDE DEF IInv, CallInv
<1>5. QED BY Frame, <1>1, <1>2, <1>3, <1>4

(***************************************************************************)
(* A second handler cannot release a strategy that is released, and nobody *)
(* fills a slot while a handler is in CancelStrategy.                      *)
(***************************************************************************)
LEMMA ClearStep == ASSUME IInv, [Next]_vars PROVE ClearInv'
<1>0. ClearInv BY DEF IInv
<1> USE <1>0 DEF ClearInv
<1>1. CASE UNCHANGED <<obj, hpc, hslot>> BY <1>1
<1>2. ASSUME NEW h \in Handler, HandlerStep(h) PROVE ClearInv'
  <2>1. \A g \in Handler : g # h => hpc'[g] = hpc[g] /\ hslot'[g] = hslot[g]
    BY <1>2, HandlerLocal DEF IInv
  <2>2. CASE DeployCreate(h)
    <3>1. PICK s \in FreeSlots : obj' = [obj EXCEPT ![s] = created + 1]
      BY <2>2 DEF DeployCreate
    <3>2. obj \in [Slot -> Object \cup {nullptr}] /\ hslot \in [Handler -> Slot] /\ hpc'[h] = "attach"
      BY <2>2 DEF DeployCreate, IInv, TypeOK
    <3>3. QED BY <2>1, <3>1, <3>2 DEF FreeSlots
  <2>3. CASE CancelRelease(h) /\ UNCHANGED obj
    <3>1. /\ obj[hslot[h]] # nullptr /\ obj[hslot[h]] \notin released /\ hslot' = hslot
      BY <2>3 DEF CancelRelease, Stale
    <3>2. \A g \in Handler : hpc[g] = "clear" => obj[hslot[g]] \in released
      BY DEF IInv, CancelInv, Canceling, Stale
    <3>3. QED BY <2>1, <2>3, <3>1, <3>2
  <2>4. CASE CancelClear(h)
    <3>1. /\ hpc[h] = "clear" /\ hpc'[h] # "clear" /\ hslot' = hslot
          /\ obj' = [obj EXCEPT ![hslot[h]] = nullptr]
      BY <2>4 DEF CancelClear, IInv, TypeOK
    <3>2. obj \in [Slot -> Object \cup {nullptr}] /\ hslot \in [Handler -> Slot]
      BY DEF IInv, TypeOK
    <3>3. QED BY <2>1, <3>1, <3>2
  <2>5. CASE UNCHANGED <<obj, conf>>
    <3>1. CASE hpc'[h] # "clear" BY <2>1, <2>5, <3>1
    <3>2. CASE hpc'[h] = "clear"
      <4>1. CancelRelease(h) \/ UNCHANGED <<hpc, hslot>>
        <5>1. hpc'[h] \in Canceling BY <3>2 DEF Canceling
        <5>2. \A s \in Slot, next \in {"none", "old"} : ~CancelBegin(h, s, next)
          BY <3>2 DEF CancelBegin, IInv, TypeOK
        <5>3. \A d \in DataId : ~CancelDetach(h, d) /\ ~CancelTdLoad(h, d)
          BY <3>2 DEF CancelDetach, CancelTdLoad, Load, IInv, TypeOK
        <5>4. ~CancelMdLoad(h) /\ ~CancelMdStore(h) /\ ~CancelTdStore(h)
          BY <3>2 DEF CancelMdLoad, CancelMdStore, CancelTdStore, Load, Store, IInv, TypeOK
        <5>5. QED BY <1>2, <5>1, <5>2, <5>3, <5>4, CancelOrigin DEF IInv, handlerVars
      <4>2. QED BY <1>1, <2>3, <2>5, <4>1
    <3>3. QED BY <3>1, <3>2
  <2>6. QED BY <1>2, <2>2, <2>3, <2>4, <2>5, HandlerFrame DEF arrayVars
<1>3. QED BY Frame, <1>1, <1>2 DEF vars, arrayVars, handlerVars

-----------------------------------------------------------------------------
(***************************************************************************)
(* The inductive invariant holds in every reachable state of any           *)
(* deployment: any number of net threads, sources, slots and dataids.      *)
(***************************************************************************)
THEOREM Inductive == Spec => []IInv
<1>1. IInv /\ [Next]_vars => IInv'
  <2> SUFFICES ASSUME IInv, [Next]_vars PROVE IInv' OBVIOUS
  <2>1. TypeOK' BY TypeStep DEF IInv
  <2>2. QED BY <2>1, ExclusiveStep, ArrayStep, WatcherStep, TickInvStep, AttachStep, CancelStep,
               OrderStep, CallStep, ClearStep DEF IInv
<1>2. QED BY InitInv, <1>1, PTL DEF Spec

(***************************************************************************)
(* Every variable keeps its type.                                          *)
(***************************************************************************)
THEOREM TypeCorrect == Spec => []TypeOK
<1>1. IInv => TypeOK BY DEF IInv
<1>2. QED BY Inductive, <1>1, PTL

(***************************************************************************)
(* OnTick is never called on a released strategy.                          *)
(***************************************************************************)
THEOREM TicksAreSafe == Spec => []NoTickOnReleased
<1>1. IInv => NoTickOnReleased
  BY DEF IInv, WatcherInv, TickInv, NoTickOnReleased
<1>2. QED BY Inductive, <1>1, PTL

(***************************************************************************)
(* MakeOrder of an OnTick finds its own strategy in the array.             *)
(***************************************************************************)
THEOREM TicksOrderForThemselves == Spec => []TickOrdersInOwnSlot
<1>1. IInv => TickOrdersInOwnSlot
  BY DEF IInv, WatcherInv, TickInv, TickOrdersInOwnSlot
<1>2. QED BY Inductive, <1>1, PTL

(***************************************************************************)
(* A report reaches a stranger only after its owner was released.          *)
(***************************************************************************)
THEOREM ReportsReachOwner == Spec => []ReportReachesOwner
<1>1. IInv => ReportReachesOwner BY DEF IInv, OrderInv, ReportReachesOwner
<1>2. QED BY Inductive, <1>1, PTL

(***************************************************************************)
(* However many threads there are, any circle of waiting threads contains  *)
(* a DeployStrategy that waits for a map while the tick thread that shares *)
(* the map waits in MakeOrder: to avoid that inversion is to avoid every   *)
(* deadlock on these locks.                                                *)
(***************************************************************************)
THEOREM OneWayToDeadlock == Spec => []DeadlockOnlyByInversion
<1>1. ASSUME TypeOK,
             NEW C \in (SUBSET Thread) \ {{}}, \A a \in C : \E b \in C : WaitsFor(a, b)
      PROVE  \E h \in C \cap Handler, m \in C \cap MdSource : Inversion(h, m)
  <2> USE CoreAssumption
  <2>1. ASSUME NEW h \in C \cap Handler, hpc[h] \in {"attach", "detach"}
        PROVE  \E m \in C \cap MdSource : \E d \in hleft[h] : m = hconf[h].md[d]
    <3>1. PICK b \in C : WaitsFor(h, b) BY <1>1
    <3>2. PICK d \in hleft[h] : b = hconf[h].md[d] BY <2>1, <3>1 DEF WaitsFor
    <3>3. hconf[h] \in Config /\ d \in DataId BY <1>1 DEF TypeOK
    <3>4. b \in MdSource BY <3>2, <3>3 DEF Config
    <3>5. QED BY <3>2, <3>4
  <2>2. ASSUME NEW m \in C \cap MdSource
        PROVE  mpc[m] = "order" /\ \E h \in C \cap Handler : hpc[h] = "attach"
    <3>1. PICK b \in C : WaitsFor(m, b) BY <1>1
    <3>2. mpc[m] = "order" /\ b \in STExclusive BY <3>1 DEF WaitsFor
    <3>3. PICK c \in C : WaitsFor(b, c) BY <1>1
    <3>4. hpc[b] = "attach" BY <3>2, <3>3 DEF WaitsFor, STExclusive, Deploying
    <3>5. QED BY <3>2, <3>4 DEF STExclusive
  <2>3. ASSUME NEW t \in C \cap TdSource PROVE C \cap MdSource # {}
    <3>1. PICK b \in C : WaitsFor(t, b) BY <1>1
    <3>2. b \in MutexOwners(tcur[t].slot) BY <3>1 DEF WaitsFor
    <3>3. PICK c \in C : WaitsFor(b, c) BY <1>1
    <3>4. QED BY <3>2, <3>3 DEF WaitsFor, MutexOwners
  <2>4. ASSUME NEW h \in C \cap Handler PROVE C \cap MdSource # {}
    <3>1. PICK b \in C : WaitsFor(h, b) BY <1>1
    <3>2. CASE hpc[h] \in {"attach", "detach"} BY <2>1, <3>2
    <3>3. CASE hpc[h] \notin {"attach", "detach"}
      <4>1. b \in STExclusive \cup STShared BY <3>1, <3>3 DEF WaitsFor
      <4>2. CASE b \in TdSource BY <2>3, <4>2
      <4>3. CASE b \notin TdSource
        <5>1. b \in Handler /\ hpc[b] # "tdlocked"
          BY <4>1, <4>3 DEF STExclusive, STShared, Deploying, Canceling
        <5>2. PICK c \in C : WaitsFor(b, c) BY <1>1
        <5>3. hpc[b] \in {"attach", "detach"} BY <5>1, <5>2 DEF WaitsFor
        <5>4. QED BY <2>1, <5>1, <5>3
      <4>4. QED BY <4>2, <4>3
    <3>4. QED BY <3>2, <3>3
  <2>5. PICK m \in C \cap MdSource : TRUE
    <3>1. PICK a \in C : a \in Handler \cup MdSource \cup TdSource
      <4>1. C # {} /\ C \subseteq Thread BY <1>1
      <4>2. QED BY <4>1 DEF Thread
    <3>2. QED BY <3>1, <2>3, <2>4
  <2>6. PICK h \in C \cap Handler : hpc[h] = "attach" BY <2>2, <2>5
  <2>7. PICK n \in C \cap MdSource : \E d \in hleft[h] : n = hconf[h].md[d] BY <2>1, <2>6
  <2>8. Inversion(h, n) BY <2>2, <2>6, <2>7 DEF Inversion
  <2>9. QED BY <2>8
<1>2. TypeOK => DeadlockOnlyByInversion BY <1>1 DEF DeadlockOnlyByInversion
<1>3. QED BY TypeCorrect, <1>2, PTL

-----------------------------------------------------------------------------
(***************************************************************************)
(* The stages of a strategy change with the two variables they depend on,  *)
(* and so do the listeners, the callbacks and the traders.                 *)
(***************************************************************************)
LEMMA HostFrame ==
  /\ UNCHANGED <<created, released>> => Stages' = Stages
  /\ UNCHANGED watchers => Listeners' = Listeners
  /\ UNCHANGED <<mpc, mcur, tpc, tobj>> => Callbacks' = Callbacks
  /\ UNCHANGED orders => Traders' = Traders
BY DEF Stages, StageOf, Listeners, Callbacks, InCallback, Traders

(***************************************************************************)
(* A strategy in the array that is not released is running.                *)
(***************************************************************************)
LEMMA LiveIsRunning ==
  ASSUME TypeOK, ArrayInv, NEW s \in Slot, ~Stale(obj[s])
  PROVE  obj[s] \in Object /\ Stages[obj[s]] = "running"
<1>1. obj[s] \in Object /\ obj[s] <= created /\ obj[s] \notin released
  BY DEF TypeOK, ArrayInv, Stale
<1>2. created \in Int /\ obj[s] \in Int BY <1>1, CoreAssumption DEF TypeOK, Object
<1>3. ~(obj[s] > created) BY <1>1, <1>2
<1>4. QED BY <1>1, <1>3 DEF Stages, StageOf

(***************************************************************************)
(* If a strategy was released, the host may break.                         *)
(***************************************************************************)
LEMMA ReleasedBreaks ==
  ASSUME TypeOK, ArrayInv, released # {}, fault' = TRUE PROVE Host!Break
<1>1. PICK o \in released : TRUE OBVIOUS
<1>2. o \in Object /\ o <= created BY DEF TypeOK, ArrayInv
<1>3. created \in Int /\ o \in Int BY <1>2, CoreAssumption DEF TypeOK, Object
<1>4. Stages[o] = "released" BY <1>1, <1>2, <1>3 DEF Stages, StageOf
<1>5. QED BY <1>2, <1>4 DEF Host!Break

(***************************************************************************)
(* A tick or a report finds the mutex of a slot free only when nobody is   *)
(* in the strategy of the slot.                                            *)
(***************************************************************************)
LEMMA MutexGuards ==
  ASSUME IInv, ~fault, NEW s \in Slot, obj[s] # nullptr, MutexOwners(s) = {}
  PROVE  InCallback(obj[s]) = {}
<1> USE DEF IInv
<1>1. ASSUME NEW m \in MdSource, mpc[m] \in {"ontick", "order"}, mcur[m].obj = obj[s]
      PROVE  FALSE
  <2>1. mcur[m] \in watchers[m] BY <1>1 DEF TickInv
  <2>2. obj[mcur[m].slot] = obj[s] BY <1>1, <2>1 DEF WatcherInv
  <2>3. mcur[m].slot \in Slot BY DEF TypeOK, Watcher
  <2>4. mcur[m].slot = s BY <2>2, <2>3 DEF ArrayInv
  <2>5. m \in MutexOwners(s) BY <1>1, <2>4 DEF MutexOwners
  <2>6. QED BY <2>5
<1>2. ASSUME NEW t \in TdSource, tpc[t] = "callback", tobj[t] = obj[s]
      PROVE  FALSE
  <2>1. obj[tcur[t].slot] = obj[s] BY <1>2 DEF CallInv
  <2>2. tcur[t].slot \in Slot BY DEF TypeOK, Order
  <2>3. tcur[t].slot = s BY <2>1, <2>2 DEF ArrayInv
  <2>4. t \in MutexOwners(s) BY <1>2, <2>3 DEF MutexOwners
  <2>5. QED BY <2>4
<1>3. QED BY <1>1, <1>2 DEF InCallback

(***************************************************************************)
(* DeployStrategy creates the strategy and attaches it.                    *)
(***************************************************************************)
LEMMA DeployRefines ==
  ASSUME IInv, NEW h \in Handler, UNCHANGED <<orders, tickVars, reportVars, fault>>
  PROVE  /\ DeployCreate(h) => \E o \in Object : Host!Create(o)
         /\ \A d \in DataId : DeployAttach(h, d) /\ UNCHANGED arrayVars =>
              \E o \in Object, m \in MdSource : Host!Attach(o, m)
<1> USE CoreAssumption DEF IInv
<1>1. Callbacks' = Callbacks /\ Traders' = Traders BY HostFrame DEF tickVars, reportVars
<1>2. ASSUME DeployCreate(h) PROVE \E o \in Object : Host!Create(o)
  <2>1. /\ created + 1 \in Object /\ created \in Int /\ created' = created + 1
        /\ UNCHANGED <<released, watchers>>
    BY <1>2 DEF DeployCreate, Object, TypeOK
  <2>2. created + 1 \notin released BY <2>1 DEF ArrayInv
  <2>3. Stages[created + 1] = "none" BY <2>1 DEF Stages, StageOf
  <2>4. Stages' = [Stages EXCEPT ![created + 1] = "running"]
    <3>1. ASSUME NEW o \in Object
          PROVE  StageOf(o)' = IF o = created + 1 THEN "running" ELSE Stages[o]
      <4>1. o \in Int BY DEF Object
      <4>2. CASE o = created + 1 BY <2>1, <2>2, <4>1, <4>2 DEF StageOf
      <4>3. CASE o # created + 1 BY <2>1, <4>1, <4>3 DEF Stages, StageOf
      <4>4. QED BY <4>2, <4>3
    <3>2. QED BY <3>1 DEF Stages
  <2>5. Listeners' = Listeners BY <2>1, HostFrame
  <2>6. Host!Create(created + 1) BY <1>1, <2>3, <2>4, <2>5 DEF Host!Create
  <2>7. QED BY <2>1, <2>6
<1>3. ASSUME NEW d \in DataId, DeployAttach(h, d), UNCHANGED arrayVars
      PROVE  \E o \in Object, m \in MdSource : Host!Attach(o, m)
  <2> DEFINE o == obj[hslot[h]]  m == hconf[h].md[d]
             w == [slot |-> hslot[h], obj |-> o, data |-> d]
  <2>1. hslot[h] \in Slot /\ m \in MdSource /\ ~Stale(o)
    BY <1>3 DEF DeployAttach, AttachInv, TypeOK, Config
  <2>2. o \in Object /\ Stages[o] = "running" BY <2>1, LiveIsRunning
  <2>3. Stages' = Stages BY <1>3, HostFrame DEF arrayVars
  <2>4. watchers' = [watchers EXCEPT ![m] = @ \cup {w}] BY <1>3 DEF DeployAttach
  <2>5. Listeners' = [Listeners EXCEPT ![m] = @ \cup {o}]
    <3>1. w.obj = o OBVIOUS
    <3> HIDE DEF w, o, m
    <3>2. ASSUME NEW n \in MdSource
          PROVE  {v.obj : v \in watchers'[n]}
                   = IF n = m THEN Listeners[m] \cup {o} ELSE Listeners[n]
      <4>1. watchers'[n] = IF n = m THEN watchers[m] \cup {w} ELSE watchers[n]
        BY <2>4 DEF TypeOK
      <4>2. QED BY <2>1, <3>1, <4>1 DEF Listeners
    <3>3. QED BY <3>2 DEF Listeners
  <2>6. Host!Attach(o, m) BY <1>1, <2>2, <2>3, <2>5 DEF Host!Attach
  <2>7. QED BY <2>1, <2>2, <2>6
<1>4. QED BY <1>2, <1>3

(***************************************************************************)
(* CancelStrategy detaches the strategy, with no OnTick of the source      *)
(* under way, and then releases it or breaks the host.                     *)
(***************************************************************************)
LEMMA CancelRefines ==
  ASSUME IInv, ~fault, NEW h \in Handler, UNCHANGED <<orders, tickVars, reportVars>>
  PROVE  /\ \A d \in DataId : CancelDetach(h, d) /\ UNCHANGED arrayVars =>
              \E o \in Object, m \in MdSource : Host!Detach(o, m)
         /\ CancelRelease(h) /\ UNCHANGED <<obj, conf, created, watchers>> =>
              (\E o \in Object : Host!Release(o)) \/ Host!Break
<1> USE CoreAssumption DEF IInv
<1> DEFINE o == obj[hslot[h]]
<1>1. Callbacks' = Callbacks /\ Traders' = Traders BY HostFrame DEF tickVars, reportVars
<1>2. hslot[h] \in Slot BY DEF TypeOK
<1>3. ASSUME NEW d \in DataId, CancelDetach(h, d), UNCHANGED arrayVars
      PROVE  \E p \in Object, m \in MdSource : Host!Detach(p, m)
  <2> DEFINE m == hconf[h].md[d]
  <2>1. /\ m \in MdSource /\ ~Stale(o) /\ mpc[m] = "idle"
        /\ watchers' = [watchers EXCEPT ![m] = {w \in @ : w.obj # o}]
        /\ UNCHANGED fault
    BY <1>3 DEF CancelDetach, TypeOK, Config, MapFree
  <2>2. o \in Object /\ Stages[o] = "running" BY <1>2, <2>1, LiveIsRunning
  <2>3. Stages' = Stages BY <1>3, HostFrame DEF arrayVars
  <2>4. m \notin Callbacks[o] BY <2>1, <2>2 DEF Callbacks, InCallback
  <2>5. Listeners' = [Listeners EXCEPT ![m] = @ \ {o}]
    <3> HIDE DEF o, m
    <3>1. ASSUME NEW n \in MdSource
          PROVE  {v.obj : v \in watchers'[n]}
                   = IF n = m THEN Listeners[m] \ {o} ELSE Listeners[n]
      <4>1. watchers'[n] = IF n = m THEN {w \in watchers[m] : w.obj # o} ELSE watchers[n]
        BY <2>1 DEF TypeOK
      <4>2. QED BY <2>1, <4>1 DEF Listeners
    <3>2. QED BY <3>1 DEF Listeners
  <2>6. Host!Detach(o, m) BY <1>1, <2>1, <2>2, <2>3, <2>4, <2>5 DEF Host!Detach
  <2>7. QED BY <2>1, <2>2, <2>6
<1>4. ASSUME CancelRelease(h), UNCHANGED <<obj, conf, created, watchers>>
      PROVE  (\E p \in Object : Host!Release(p)) \/ Host!Break
  <2>1. /\ hpc[h] = "save" /\ ~Stale(o) /\ released' = released \cup {o}
        /\ fault' = (\E t \in TdSource : tpc[t] = "callback" /\ tobj[t] = o)
    BY <1>4 DEF CancelRelease
  <2>2. o \in Object /\ Stages[o] = "running" BY <1>2, <2>1, LiveIsRunning
  <2>3. \A m \in MdSource : \A w \in watchers[m] : w.obj # o
    <3>1. hconf[h] = conf[hslot[h]] /\ \A d \in DataId : Detached(h, d)
      BY <2>1 DEF CancelInv, Canceling, Stale, Detached
    <3>2. SUFFICES ASSUME NEW m \in MdSource, NEW w \in watchers[m], w.obj = o PROVE FALSE
      OBVIOUS
    <3>3. w.slot \in Slot /\ w.data \in DataId BY DEF TypeOK, Watcher
    <3>4. w.slot = hslot[h] BY <1>2, <2>1, <3>2, <3>3 DEF WatcherInv, ArrayInv, Stale
    <3>5. m = hconf[h].md[w.data] BY <3>1, <3>4 DEF WatcherInv
    <3>6. QED BY <2>1, <3>1, <3>3, <3>4, <3>5 DEF CancelInv, Canceling
  <2>4. Host!Detached(o) BY <2>3 DEF Host!Detached, Listeners
  <2>5. CASE fault' = TRUE
    <3>1. PICK t \in TdSource : tpc[t] = "callback" /\ tobj[t] = o BY <2>1, <2>5
    <3>2. Callbacks[o] # {} BY <2>2, <3>1 DEF Callbacks, InCallback
    <3>3. QED BY <2>2, <2>4, <2>5, <3>2 DEF Host!Break
  <2>6. CASE fault' # TRUE
    <3>1. fault' = FALSE /\ UNCHANGED fault BY <2>1, <2>6 DEF TypeOK
    <3>2. \A m \in MdSource : mpc[m] \in {"ontick", "order"} => mcur[m].obj # o
      BY <2>3 DEF TickInv
    <3>3. Callbacks[o] = {} BY <2>1, <2>2, <3>1, <3>2 DEF Callbacks, InCallback
    <3>4. Stages' = [Stages EXCEPT ![o] = "released"]
      <4>1. o <= created /\ o \in Int /\ created \in Int
        BY <1>2, <2>2 DEF ArrayInv, Object, TypeOK
      <4> HIDE DEF o
      <4>2. ASSUME NEW p \in Object
            PROVE  StageOf(p)' = IF p = o THEN "released" ELSE Stages[p]
        <5>1. CASE p = o BY <1>4, <2>1, <4>1, <5>1 DEF StageOf
        <5>2. CASE p # o BY <1>4, <2>1, <5>2 DEF Stages, StageOf
        <5>3. QED BY <5>1, <5>2
      <4>3. QED BY <4>2 DEF Stages
    <3>5. Listeners' = Listeners BY <1>4, HostFrame
    <3>6. Host!Release(o)
      BY <1>1, <2>2, <2>4, <3>1, <3>3, <3>4, <3>5 DEF Host!Release
    <3>7. QED BY <2>2, <3>6
  <2>7. QED BY <2>5, <2>6
<1>5. QED BY <1>3, <1>4

(***************************************************************************)
(* A handler creates, attaches, detaches or releases a strategy, breaks    *)
(* the host or does what no strategy sees.                                 *)
(***************************************************************************)
LEMMA HandlerRefines ==
  ASSUME IInv, ~fault, NEW h \in Handler, HandlerStep(h),
         UNCHANGED <<orders, tickVars, reportVars>>
  PROVE  Host!HostNext \/ UNCHANGED Host!host
<1>1. Callbacks' = Callbacks /\ Traders' = Traders BY HostFrame DEF tickVars, reportVars
<1>2. CASE DeployCreate(h)
  <2>1. UNCHANGED fault BY <1>2 DEF DeployCreate
  <2>2. \E o \in Object : Host!Create(o) BY <1>2, <2>1, DeployRefines
  <2>3. QED BY <2>2 DEF Host!HostNext
<1>3. CASE CancelRelease(h) /\ UNCHANGED <<obj, conf, created, watchers>>
  <2>1. (\E o \in Object : Host!Release(o)) \/ Host!Break BY <1>3, CancelRefines
  <2>2. QED BY <2>1 DEF Host!HostNext
<1>4. CASE CancelClear(h) /\ UNCHANGED <<conf, released, created, watchers>>
  <2>1. UNCHANGED fault BY <1>4 DEF CancelClear
  <2>2. Stages' = Stages /\ Listeners' = Listeners BY <1>4, HostFrame
  <2>3. QED BY <1>1, <2>1, <2>2 DEF Host!host
<1>5. ASSUME NEW d \in DataId, DeployAttach(h, d), UNCHANGED arrayVars
      PROVE  Host!HostNext
  <2>1. UNCHANGED fault BY <1>5 DEF DeployAttach
  <2>2. \E o \in Object, m \in MdSource : Host!Attach(o, m) BY <1>5, <2>1, DeployRefines
  <2>3. QED BY <2>2 DEF Host!HostNext
<1>6. ASSUME NEW d \in DataId, CancelDetach(h, d), UNCHANGED arrayVars
      PROVE  Host!HostNext
  <2>1. \E o \in Object, m \in MdSource : Host!Detach(o, m) BY <1>6, CancelRefines
  <2>2. QED BY <2>1 DEF Host!HostNext
<1>7. CASE UNCHANGED <<arrayVars, watchers>>
  <2>1. Stages' = Stages /\ Listeners' = Listeners BY <1>7, HostFrame DEF arrayVars
  <2>2. CASE UNCHANGED fault BY <1>1, <2>1, <2>2 DEF Host!host
  <2>3. CASE CancelStale(h)
    <3>1. hpc[h] \in Canceling /\ Stale(obj[hslot[h]]) /\ fault' = TRUE
      BY <2>3 DEF CancelStale, Canceling
    <3>2. released # {} BY <3>1 DEF IInv, CallInv, Stale
    <3>3. Host!Break BY <3>1, <3>2, ReleasedBreaks DEF IInv
    <3>4. QED BY <3>3 DEF Host!HostNext
  <2>4. CancelStale(h) \/ UNCHANGED fault \/ CancelRelease(h)
    BY DEF HandlerStep, DeployBegin, RedeployBegin, DeployCreate, DeployFail, DeployAttach,
       CancelDetach, CancelBegin, CancelMdLoad, CancelMdStore, CancelTdLoad, CancelTdStore, Load,
       Store, CancelClear, AddMdSource, DelMdSource,
       AddTdSource, DelTdSource, HotUpdateBegin, HotUpdateLock, HotUpdateEnd
  <2>5. QED BY <1>3, <1>7, <2>2, <2>3, <2>4 DEF arrayVars
<1>8. QED BY HandlerFrame, <1>2, <1>3, <1>4, <1>5, <1>6, <1>7

(***************************************************************************)
(* A strategy that has placed an order is a trader.                        *)
(***************************************************************************)
LEMMA PlacedTrades ==
  \A s, o, d : Placed(s, o, d) => Traders' = Traders \cup {o}
<1> SUFFICES ASSUME NEW s, NEW o, NEW d, Placed(s, o, d)
             PROVE  Traders' = Traders \cup {o}
  OBVIOUS
<1> DEFINE r == [slot |-> s, obj |-> o, td |-> conf[s].td[d]]
<1>1. orders' = orders \cup {r} /\ r.obj = o BY DEF Placed
<1> HIDE DEF r
<1>2. QED BY <1>1 DEF Traders

(***************************************************************************)
(* A tick thread calls OnTick of an attached strategy in which nobody is,  *)
(* places orders for it, and returns from it.                              *)
(***************************************************************************)
LEMMA TickRefines ==
  ASSUME IInv, ~fault, NEW m \in MdSource, TickStep(m),
         UNCHANGED <<arrayVars, sourceVars, handlerVars, reportVars, fault>>
  PROVE  Host!HostNext \/ UNCHANGED Host!host
<1> USE CoreAssumption DEF IInv
<1>1. Stages' = Stages /\ Listeners' = Listeners BY HostFrame DEF arrayVars, sourceVars
<1>2. CASE TickBegin(m) \/ TickEnd(m)
  <2>1. UNCHANGED <<mcur, orders>> /\ mpc[m] \in {"idle", "deliver"}
        /\ mpc'[m] \in {"idle", "deliver"} /\ \A n \in MdSource : n # m => mpc'[n] = mpc[n]
    BY <1>2 DEF TickBegin, TickEnd, TypeOK
  <2>2. Callbacks' = Callbacks BY <2>1 DEF Callbacks, InCallback, reportVars
  <2>3. QED BY <1>1, <2>1, <2>2, HostFrame DEF Host!host
<1>3. ASSUME NEW w \in mtodo[m], TickServe(m, w) PROVE Host!HostNext \/ UNCHANGED Host!host
  <2>1. CASE UNCHANGED <<mcur, mpc>>
    BY <1>1, <1>3, <2>1, HostFrame DEF TickServe, Host!host, reportVars
  <2>2. CASE ~UNCHANGED <<mcur, mpc>>
    <3>1. /\ MutexOwners(w.slot) = {} /\ mpc[m] = "deliver"
          /\ mcur' = [mcur EXCEPT ![m] = w] /\ mpc' = [mpc EXCEPT ![m] = "ontick"]
          /\ UNCHANGED orders
      BY <1>3, <2>2 DEF TickServe
    <3>2. /\ w \in watchers[m] /\ w.slot \in Slot /\ w.obj \in Object
          /\ obj[w.slot] = w.obj /\ w.obj \notin released
      BY DEF TickInv, TypeOK, Watcher, WatcherInv
    <3>3. ~Stale(obj[w.slot]) BY <3>2 DEF Stale, nullptr, Object
    <3>4. Stages[w.obj] = "running" BY <3>2, <3>3, LiveIsRunning
    <3>5. Callbacks[w.obj] = {} BY <3>1, <3>2, <3>3, MutexGuards DEF Callbacks, Stale
    <3>6. w.obj \in Listeners[m] BY <3>2 DEF Listeners
    <3>7. Callbacks' = [Callbacks EXCEPT ![w.obj] = {m}]
      <4>1. ASSUME NEW o \in Object
            PROVE  InCallback(o)' = IF o = w.obj THEN {m} ELSE InCallback(o)
        <5>1. \A n \in MdSource : n # m => mpc'[n] = mpc[n] /\ mcur'[n] = mcur[n]
          BY <3>1 DEF TypeOK
        <5>2. mpc'[m] = "ontick" /\ mcur'[m] = w BY <3>1 DEF TypeOK
        <5>3. UNCHANGED <<tpc, tobj>> BY DEF reportVars
        <5>4. CASE o = w.obj
          <6>1. InCallback(o) = {} BY <3>5, <5>4, <4>1 DEF Callbacks
          <6>2. QED BY <5>1, <5>2, <5>3, <5>4, <6>1 DEF InCallback
        <5>5. CASE o # w.obj
          BY <3>1, <5>1, <5>2, <5>3, <5>5 DEF InCallback
        <5>6. QED BY <5>4, <5>5
      <4>2. QED BY <4>1 DEF Callbacks
    <3>8. Host!OnTick(m, w.obj)
      BY <1>1, <3>1, <3>4, <3>5, <3>6, <3>7, HostFrame DEF Host!OnTick, Host!Enter
    <3>9. QED BY <3>2, <3>8 DEF Host!HostNext
  <2>3. QED BY <2>1, <2>2
<1>4. CASE TickWantsOrder(m)
  <2>1. /\ UNCHANGED <<mcur, orders>> /\ mpc[m] = "ontick" /\ mpc'[m] = "order"
        /\ \A n \in MdSource : n # m => mpc'[n] = mpc[n]
    BY <1>4 DEF TickWantsOrder, TypeOK
  <2>2. Callbacks' = Callbacks BY <2>1 DEF Callbacks, InCallback, reportVars
  <2>3. QED BY <1>1, <2>1, <2>2, HostFrame DEF Host!host
<1>5. CASE TickReturn(m)
  <2>1. /\ UNCHANGED orders /\ mpc[m] = "ontick" /\ mpc'[m] = "deliver"
        /\ \A n \in MdSource : n # m => mpc'[n] = mpc[n] /\ mcur'[n] = mcur[n]
    BY <1>5 DEF TickReturn, TypeOK
  <2>2. mcur[m].obj \in Object BY DEF TypeOK, Watcher
  <2>3. m \in Callbacks[mcur[m].obj] BY <2>1, <2>2 DEF Callbacks, InCallback
  <2>4. Callbacks' = [Callbacks EXCEPT ![mcur[m].obj] = @ \ {m}]
    <3>1. ASSUME NEW o \in Object
          PROVE  InCallback(o)' = IF o = mcur[m].obj THEN InCallback(o) \ {m} ELSE InCallback(o)
      <4>1. m \notin TdSource OBVIOUS
      <4>2. UNCHANGED <<tpc, tobj>> BY DEF reportVars
      <4>3. QED BY <2>1, <4>1, <4>2 DEF InCallback
    <3>2. QED BY <2>2, <3>1 DEF Callbacks
  <2>5. Traders' = Traders BY <2>1, HostFrame
  <2>6. Host!Return(m, mcur[m].obj) BY <1>1, <2>3, <2>4, <2>5 DEF Host!Return
  <2>7. QED BY <2>2, <2>6 DEF Host!HostNext
<1>6. CASE TickOrder(m)
  <2>1. /\ UNCHANGED mcur /\ mpc[m] = "order" /\ mpc'[m] = "ontick"
        /\ \A n \in MdSource : n # m => mpc'[n] = mpc[n]
    BY <1>6 DEF TickOrder, TypeOK
  <2>2. mcur[m].obj \in Object BY DEF TypeOK, Watcher
  <2>3. m \in Callbacks[mcur[m].obj] BY <2>1, <2>2 DEF Callbacks, InCallback
  <2>4. Callbacks' = Callbacks BY <2>1 DEF Callbacks, InCallback, reportVars
  <2>5. CASE UNCHANGED orders BY <1>1, <2>4, <2>5, HostFrame DEF Host!host
  <2>6. ASSUME NEW d \in DataId, Placed(mcur[m].slot, mcur[m].obj, d)
        PROVE  Host!HostNext
    <3>1. Traders' = Traders \cup {mcur[m].obj} BY <2>6, PlacedTrades
    <3>2. Host!MakeOrder(m, mcur[m].obj) BY <1>1, <2>3, <2>4, <3>1 DEF Host!MakeOrder
    <3>3. QED BY <2>2, <3>2 DEF Host!HostNext
  <2>7. QED BY <1>6, <2>5, <2>6 DEF TickOrder
<1> HIDE DEF IInv
<1>7. QED BY <1>2, <1>3, <1>4, <1>5, <1>6 DEF TickStep

(***************************************************************************)
(* A callback thread reports to a strategy in which nobody is, or breaks   *)
(* the host; it places orders for the strategy and returns from it.        *)
(***************************************************************************)
LEMMA ReportRefines ==
  ASSUME IInv, ~fault, NEW t \in TdSource, ReportStep(t),
         UNCHANGED <<arrayVars, sourceVars, handlerVars, tickVars>>
  PROVE  Host!HostNext \/ UNCHANGED Host!host
<1> USE CoreAssumption DEF IInv
<1>1. Stages' = Stages /\ Listeners' = Listeners BY HostFrame DEF arrayVars, sourceVars
<1>2. ASSUME NEW o \in orders, ReportBegin(t, o) PROVE UNCHANGED Host!host
  <2>1. /\ UNCHANGED <<orders, tobj, fault>> /\ tpc[t] = "idle" /\ tpc'[t] = "wait"
        /\ \A u \in TdSource : u # t => tpc'[u] = tpc[u]
    BY <1>2 DEF ReportBegin, TypeOK
  <2>2. Callbacks' = Callbacks BY <2>1 DEF Callbacks, InCallback, tickVars
  <2>3. QED BY <1>1, <2>1, <2>2, HostFrame DEF Host!host
<1>3. ASSUME NEW o \in orders, ReportDropped(t, o) PROVE Host!HostNext
  <2>1. orders' \subseteq orders /\ UNCHANGED <<reportVars, fault>> BY <1>3 DEF ReportDropped
  <2>2. Traders' \subseteq Traders BY <2>1 DEF Traders
  <2>3. Callbacks' = Callbacks BY <2>1, HostFrame DEF reportVars, tickVars
  <2>4. Host!Drop BY <1>1, <2>1, <2>2, <2>3 DEF Host!Drop
  <2>5. QED BY <2>4 DEF Host!HostNext
<1>4. CASE ReportCall(t)
  <2> DEFINE s == tcur[t].slot
  <2>1. /\ tpc[t] = "wait" /\ MutexOwners(s) = {} /\ fault' = Stale(obj[s])
        /\ tobj' = [tobj EXCEPT ![t] = obj[s]] /\ tpc' = [tpc EXCEPT ![t] = "callback"]
        /\ UNCHANGED orders
    BY <1>4 DEF ReportCall
  <2>2. s \in Slot /\ tcur[t].obj # nullptr /\ tcur[t] \in orders
    BY <2>1 DEF TypeOK, Order, Object, CallInv, nullptr
  <2>3. tcur[t].obj = obj[s] \/ tcur[t].obj \in released BY <2>1 DEF OrderInv
  <2>4. CASE Stale(obj[s])
    <3>1. released # {} BY <2>2, <2>3, <2>4 DEF Stale
    <3>2. fault' = TRUE BY <2>1, <2>4
    <3>3. QED BY <3>1, <3>2, ReleasedBreaks DEF Host!HostNext
  <2>5. CASE ~Stale(obj[s])
    <3>1. obj[s] \in Object /\ Stages[obj[s]] = "running" BY <2>2, <2>5, LiveIsRunning
    <3>2. Callbacks[obj[s]] = {} BY <2>1, <2>2, <2>5, <3>1, MutexGuards DEF Callbacks, Stale
    <3>3. \E p \in Traders : p = obj[s] \/ Stages[p] = "released"
      <4>1. tcur[t].obj \in Traders BY <2>2 DEF Traders
      <4>2. ASSUME tcur[t].obj \in released PROVE Stages[tcur[t].obj] = "released"
        <5>1. tcur[t].obj \in Object /\ tcur[t].obj <= created
          BY <4>2 DEF TypeOK, ArrayInv
        <5>2. created \in Int /\ tcur[t].obj \in Int BY <5>1 DEF TypeOK, Object
        <5>3. ~(tcur[t].obj > created) BY <5>1, <5>2
        <5>4. QED BY <4>2, <5>1, <5>3 DEF Stages, StageOf
      <4>3. QED BY <2>3, <4>1, <4>2
    <3>4. Callbacks' = [Callbacks EXCEPT ![obj[s]] = {t}]
      <4>1. ASSUME NEW o \in Object
            PROVE  InCallback(o)' = IF o = obj[s] THEN {t} ELSE InCallback(o)
        <5>1. \A u \in TdSource : u # t => tpc'[u] = tpc[u] /\ tobj'[u] = tobj[u]
          BY <2>1 DEF TypeOK
        <5>2. tpc'[t] = "callback" /\ tobj'[t] = obj[s] BY <2>1 DEF TypeOK
        <5>3. UNCHANGED <<mpc, mcur>> BY DEF tickVars
        <5> HIDE DEF s
        <5>4. CASE o = obj[s]
          <6>1. InCallback(o) = {} BY <3>2, <5>4, <4>1 DEF Callbacks
          <6>2. QED BY <5>1, <5>2, <5>3, <5>4, <6>1 DEF InCallback
        <5>5. CASE o # obj[s]
          BY <2>1, <5>1, <5>2, <5>3, <5>5 DEF InCallback
        <5>6. QED BY <5>4, <5>5
      <4>2. QED BY <4>1 DEF Callbacks
    <3>5. UNCHANGED fault BY <2>1, <2>5 DEF TypeOK, Stale
    <3>6. Host!OnReport(t, obj[s])
      BY <1>1, <2>1, <3>1, <3>2, <3>3, <3>4, <3>5, HostFrame DEF Host!OnReport, Host!Enter
    <3>7. QED BY <3>1, <3>6 DEF Host!HostNext
  <2>6. QED BY <2>4, <2>5
<1>5. ASSUME tpc[t] = "callback"
      PROVE  tobj[t] \in Object /\ t \in Callbacks[tobj[t]]
  <2>1. ~Stale(tobj[t]) BY <1>5 DEF CallInv
  <2>2. tobj[t] \in Object BY <2>1 DEF Stale, TypeOK
  <2>3. QED BY <1>5, <2>2 DEF Callbacks, InCallback
<1>6. CASE ReportEnd(t)
  <2>1. /\ tpc[t] = "callback" /\ tpc'[t] = "idle" /\ UNCHANGED <<tobj, fault>>
        /\ orders' \subseteq orders /\ \A u \in TdSource : u # t => tpc'[u] = tpc[u]
    BY <1>6 DEF ReportEnd, TypeOK
  <2>2. Callbacks' = [Callbacks EXCEPT ![tobj[t]] = @ \ {t}]
    <3>1. ASSUME NEW o \in Object
          PROVE  InCallback(o)' = IF o = tobj[t] THEN InCallback(o) \ {t} ELSE InCallback(o)
      <4>1. t \notin MdSource OBVIOUS
      <4>2. UNCHANGED <<mpc, mcur>> BY DEF tickVars
      <4>3. QED BY <2>1, <4>1, <4>2 DEF InCallback
    <3>2. QED BY <1>5, <2>1, <3>1 DEF Callbacks
  <2>3. Traders' \subseteq Traders BY <2>1 DEF Traders
  <2>4. Host!Return(t, tobj[t]) BY <1>1, <1>5, <2>1, <2>2, <2>3 DEF Host!Return
  <2>5. QED BY <1>5, <2>1, <2>4 DEF Host!HostNext
<1>7. ASSUME NEW d \in DataId, ReportOrder(t, d) PROVE Host!HostNext
  <2>1. tpc[t] = "callback" /\ UNCHANGED <<reportVars, fault>> BY <1>7 DEF ReportOrder
  <2>2. Callbacks' = Callbacks BY <2>1, HostFrame DEF reportVars, tickVars
  <2>3. Traders' = Traders \cup {tobj[t]} BY <1>7, PlacedTrades DEF ReportOrder
  <2>4. Host!MakeOrder(t, tobj[t]) BY <1>1, <1>5, <2>1, <2>2, <2>3 DEF Host!MakeOrder
  <2>5. QED BY <1>5, <2>1, <2>4 DEF Host!HostNext
<1> HIDE DEF IInv
<1>8. QED BY <1>2, <1>3, <1>4, <1>6, <1>7 DEF ReportStep

(***************************************************************************)
(* The host keeps its promises to the strategies: every step of it is a    *)
(* step of StrategyHost or one that no strategy sees.                      *)
(***************************************************************************)
THEOREM ImplementsStrategyHost == Spec => HostSpec
<1>1. Init => Host!HostInit
  <2> SUFFICES ASSUME Init PROVE Host!HostInit OBVIOUS
  <2>1. \A o \in Object : o > 0 BY CoreAssumption DEF Object
  <2>2. Stages = [o \in Object |-> "none"] BY <2>1 DEF Init, Stages, StageOf
  <2>3. Listeners = [m \in MdSource |-> {}] BY DEF Init, Listeners
  <2>4. Callbacks = [o \in Object |-> {}] BY DEF Init, Callbacks, InCallback
  <2>5. Traders = {} /\ fault = FALSE BY DEF Init, Traders
  <2>6. QED BY <2>2, <2>3, <2>4, <2>5 DEF Host!HostInit
<1>2. IInv /\ [Next]_vars => [Host!HostNext]_(Host!host)
  <2> SUFFICES ASSUME IInv, [Next]_vars PROVE Host!HostNext \/ UNCHANGED Host!host OBVIOUS
  <2>1. CASE UNCHANGED vars
    BY <2>1, HostFrame DEF vars, arrayVars, sourceVars, tickVars, reportVars, Host!host
  <2>2. QED BY <2>1, Frame, HandlerRefines, TickRefines, ReportRefines
<1>3. QED BY <1>1, <1>2, Inductive, PTL DEF Spec, HostSpec, Host!HostSpec

(***************************************************************************)
(* The steps of StrategyHost let a thread into a strategy only when it     *)
(* runs and nobody is in it, and out of its stage only when nobody is.     *)
(***************************************************************************)
LEMMA PromiseKept ==
  OneCallAtATime /\ [Host!HostNext]_(Host!host) => OneCallAtATime'
<1> SUFFICES ASSUME OneCallAtATime, [Host!HostNext]_(Host!host), ~fault'
             PROVE  OneCallAtATime'
  BY DEF OneCallAtATime, Host!OneCallAtATime
<1> USE DEF OneCallAtATime, Host!OneCallAtATime
<1>1. /\ DOMAIN Stages = Object /\ DOMAIN Callbacks = Object
      /\ Stages = [o \in Object |-> Stages[o]] /\ Callbacks = [o \in Object |-> Callbacks[o]]
  BY DEF Stages, Callbacks
<1>2. CASE UNCHANGED Host!host BY <1>2 DEF Host!host
<1>3. ASSUME NEW o \in Object, Host!Create(o) \/ Host!Release(o) PROVE OneCallAtATime'
  BY <1>1, <1>3 DEF Host!Create, Host!Release
<1>4. ASSUME NEW o \in Object, NEW m \in MdSource, Host!Attach(o, m) \/ Host!Detach(o, m)
      PROVE  OneCallAtATime'
  BY <1>4 DEF Host!Attach, Host!Detach
<1>5. ASSUME NEW o \in Object, NEW t, Host!Enter(t, o) PROVE OneCallAtATime'
  BY <1>1, <1>5 DEF Host!Enter
<1>6. ASSUME NEW o \in Object, NEW t, Host!MakeOrder(t, o) \/ Host!Return(t, o)
      PROVE  OneCallAtATime'
  BY <1>1, <1>6 DEF Host!MakeOrder, Host!Return
<1>7. ~Host!Break BY DEF Host!Break
<1>8. CASE Host!Drop BY <1>8 DEF Host!Drop
<1> HIDE DEF OneCallAtATime, Host!OneCallAtATime
<1>9. QED
  BY <1>2, <1>3, <1>4, <1>5, <1>6, <1>7, <1>8 DEF Host!HostNext, Host!OnTick, Host!OnReport

(***************************************************************************)
(* Two threads are never in one strategy at the same time, and none is in  *)
(* one that is not running, until the host is broken.                      *)
(***************************************************************************)
THEOREM OneAtATime == Spec => []OneCallAtATime
<1>1. Host!HostInit => OneCallAtATime
  BY DEF Host!HostInit, OneCallAtATime, Host!OneCallAtATime
<1>2. QED
  BY <1>1, ImplementsStrategyHost, PromiseKept, PTL DEF HostSpec, Host!HostSpec
-----------------------------------------------------------------------------
(* Reference counters.                                                     *)

\* Two sets with nothing in common are counted one after the other.
LEMMA CountUnion ==
  ASSUME NEW S, NEW T, IsFiniteSet(S), IsFiniteSet(T), S \cap T = {}
  PROVE  /\ IsFiniteSet(S \cup T)
         /\ Cardinality(S \cup T) = Cardinality(S) + Cardinality(T)
<1>1. /\ IsFiniteSet(S \cup T)
      /\ Cardinality(S \cup T) = Cardinality(S) + Cardinality(T) - Cardinality(S \cap T)
  BY FS_Union
<1>2. Cardinality(S) \in Nat /\ Cardinality(T) \in Nat BY FS_CardinalityType
<1>3. Cardinality(S \cap T) = 0 BY FS_EmptySet
<1>4. QED BY <1>1, <1>2, <1>3

\* What is taken out of a set is no longer counted.
LEMMA CountLess ==
  ASSUME NEW S, NEW T, IsFiniteSet(S), T \subseteq S
  PROVE  /\ IsFiniteSet(S \ T) /\ IsFiniteSet(T)
         /\ Cardinality(S \ T) = Cardinality(S) - Cardinality(T)
<1>1. S \cap T = T OBVIOUS
<1>2. QED BY <1>1, FS_Difference, FS_Subset

\* The dataids of a configuration on a source, in the row of a slot or handler.
Row(a, D) == {a} \X D
MdOn(c, x) == {d \in DataId : c.md[d] = x}
TdOn(c, x) == {d \in DataId : c.td[d] = x}

LEMMA CountRow ==
  ASSUME NEW a, NEW D \in SUBSET DataId
  PROVE  /\ IsFiniteSet(Row(a, D)) /\ Cardinality(Row(a, D)) = Cardinality(D)
         /\ Cardinality(D) \in Nat
<1>1. IsFiniteSet(D) BY FS_Subset, CoreAssumption
<1>2. IsFiniteSet({a}) /\ Cardinality({a}) = 1 BY FS_Singleton
<1>3. IsFiniteSet(Row(a, D)) /\ Cardinality(Row(a, D)) = 1 * Cardinality(D)
  BY <1>1, <1>2, FS_Product DEF Row
<1>4. Cardinality(D) \in Nat BY <1>1, FS_CardinalityType
<1>5. QED BY <1>3, <1>4

\* Slots, handlers and dataids are finite in number, and so are their pairs.
LEMMA PairsFinite ==
  \A x : /\ IsFiniteSet(Attached(x)) /\ IsFiniteSet(Pending(x)) /\ IsFiniteSet(GivenBack(x))
         /\ IsFiniteSet(Used(x)) /\ IsFiniteSet(Returned(x))
<1>1. IsFiniteSet(Slot) BY CoreAssumption, FS_Interval DEF Slot
<1>2. IsFiniteSet(Slot \X DataId) /\ IsFiniteSet(Handler \X DataId)
  BY <1>1, CoreAssumption, FS_Product
<1>3. \A x : /\ Attached(x) \subseteq Slot \X DataId /\ Used(x) \subseteq Slot \X DataId
             /\ Pending(x) \subseteq Handler \X DataId
             /\ GivenBack(x) \subseteq Handler \X DataId
             /\ Returned(x) \subseteq Handler \X DataId
  BY DEF Attached, Used, Pending, GivenBack, Returned
<1>4. QED BY <1>2, <1>3, FS_Subset

LEMMA PairsCounted ==
  \A x : /\ Cardinality(Attached(x)) \in Nat /\ Cardinality(Pending(x)) \in Nat
         /\ Cardinality(GivenBack(x)) \in Nat
         /\ Cardinality(Used(x)) \in Nat /\ Cardinality(Returned(x)) \in Nat
BY PairsFinite, FS_CardinalityType

Holders(x) == <<Attached(x), Pending(x), GivenBack(x), Used(x), Returned(x)>>

\* The steps within CancelStrategy that give back no reference.
QuietMove == {<<"detach", "mdload">>, <<"mdload", "mdstore">>, <<"tdload", "tdstore">>,
              <<"save", "clear">>}

\* The references to every source are as many as before.
SameHeld == /\ \A m \in MdSource : MdHeld(m)' = MdHeld(m)
            /\ \A t \in TdSource : TdHeld(t)' = TdHeld(t)

LEMMA HeldTyped == \A x : MdHeld(x) \in Int /\ TdHeld(x) \in Int
BY PairsCounted DEF MdHeld, TdHeld

LEMMA HeldTypedNext == (\A x : MdHeld(x) \in Int /\ TdHeld(x) \in Int)'
BY HeldTyped, PTL

(***************************************************************************)
(* Steps that leave the counters and those who hold references alone.      *)
(***************************************************************************)
LEMMA QuietHolders ==
  ASSUME TypeOK, NEW h \in Handler, UNCHANGED <<obj, conf>>,
         \A g \in Handler \ {h} : /\ hpc'[g] = hpc[g] /\ hconf'[g] = hconf[g]
                                  /\ hleft'[g] = hleft[g],
         \/ UNCHANGED <<hpc, hconf, hleft>>
         \/ hpc[h] \notin {"attach"} \cup Canceling /\ hpc'[h] \notin {"attach"} \cup Canceling
         \/ hpc[h] \notin {"attach"} \cup Canceling /\ hpc'[h] = "detach" /\ hleft'[h] = DataId
         \/ <<hpc[h], hpc'[h]>> \in QuietMove /\ UNCHANGED <<hconf, hleft>>
  PROVE  \A x : UNCHANGED Holders(x)
<1> SUFFICES ASSUME NEW x PROVE UNCHANGED Holders(x) OBVIOUS
<1>1. Attached(x)' = Attached(x) /\ Used(x)' = Used(x) BY DEF Attached, Used
<1> USE DEF Canceling, QuietMove
<1>2. Pending(x)' = Pending(x)
  <2>1. \A p \in Handler \X DataId : p \in Pending(x)' <=> p \in Pending(x)
    <3> TAKE p \in Handler \X DataId
    <3>1. CASE p[1] = h BY <3>1 DEF Pending
    <3>2. CASE p[1] # h BY <3>2 DEF Pending
    <3>3. QED BY <3>1, <3>2
  <2>2. QED BY <2>1 DEF Pending
<1>3. GivenBack(x)' = GivenBack(x)
  <2>1. \A p \in Handler \X DataId : p \in GivenBack(x)' <=> p \in GivenBack(x)
    <3> TAKE p \in Handler \X DataId
    <3>1. CASE p[1] = h BY <3>1 DEF GivenBack
    <3>2. CASE p[1] # h BY <3>2 DEF GivenBack
    <3>3. QED BY <3>1, <3>2
  <2>2. QED BY <2>1 DEF GivenBack
<1>4. Returned(x)' = Returned(x)
  <2>1. \A p \in Handler \X DataId : p \in Returned(x)' <=> p \in Returned(x)
    <3> TAKE p \in Handler \X DataId
    <3>1. CASE p[1] = h BY <3>1 DEF Returned
    <3>2. CASE p[1] # h BY <3>2 DEF Returned
    <3>3. QED BY <3>1, <3>2
  <2>2. QED BY <2>1 DEF Returned
<1>5. QED BY <1>1, <1>2, <1>3, <1>4 DEF Holders

LEMMA QuietHeld == ASSUME \A x : UNCHANGED Holders(x) PROVE SameHeld
BY DEF SameHeld, Holders, MdHeld, TdHeld

(***************************************************************************)
(* A new strategy holds a reference to every trade source it uses, and has *)
(* yet to attach to its market data sources.                               *)
(***************************************************************************)
LEMMA CreateHeld ==
  ASSUME IInv, NEW h \in Handler, DeployCreate(h)
  PROVE  /\ \A m \in MdSource : refs'[m] = refs[m] /\ MdHeld(m)' = MdHeld(m)
         /\ \A t \in TdSource : refs'[t] - TdHeld(t)' = refs[t] - TdHeld(t)
<1> USE CoreAssumption
<1>1. PICK s \in FreeSlots : /\ obj' = [obj EXCEPT ![s] = created + 1]
                             /\ conf' = [conf EXCEPT ![s] = hconf[h]]
  BY DEF DeployCreate
<1>2. /\ s \in Slot /\ obj[s] = nullptr /\ created + 1 # nullptr
      /\ obj \in [Slot -> Object \cup {nullptr}] /\ conf \in [Slot -> Config]
      /\ hpc[h] = "find" /\ hpc' = [hpc EXCEPT ![h] = "attach"]
      /\ hleft' = [hleft EXCEPT ![h] = DataId] /\ hconf' = hconf
      /\ hpc \in [Handler -> {"idle", "redeploy", "tdlocked", "hotupdate"}
                          \cup Deploying \cup Canceling] /\ hleft \in [Handler -> SUBSET DataId]
      /\ refs \in [MdSource \cup TdSource -> Int]
      /\ refs' = [x \in DOMAIN refs |-> refs[x] + TdUses(hconf[h], x)]
      /\ hconf[h] \in Config
  BY <1>1 DEF DeployCreate, FreeSlots, IInv, TypeOK, nullptr
<1>3. ASSUME NEW m \in MdSource
      PROVE  refs'[m] = refs[m] /\ MdHeld(m)' = MdHeld(m)
  <2> DEFINE D == MdOn(hconf[h], m)
  <2>1. Attached(m)' = Attached(m) \cup Row(s, D) /\ Attached(m) \cap Row(s, D) = {}
    BY <1>1, <1>2 DEF Attached, Row, MdOn
  <2>2. Pending(m)' = Pending(m) \cup Row(h, D) /\ Pending(m) \cap Row(h, D) = {}
    BY <1>2 DEF Pending, Row, MdOn
  <2>3. GivenBack(m)' = GivenBack(m) BY <1>2 DEF GivenBack
  <2>4. refs'[m] = refs[m]
    <3>1. {d \in DataId : hconf[h].td[d] = m} = {} BY <1>2 DEF Config
    <3>2. TdUses(hconf[h], m) = 0 BY <3>1, FS_EmptySet DEF TdUses
    <3>3. QED BY <1>2, <3>2
  <2>5. D \in SUBSET DataId BY DEF MdOn
  <2> HIDE DEF D
  <2>6. /\ Cardinality(Attached(m)') = Cardinality(Attached(m)) + Cardinality(D)
        /\ Cardinality(Pending(m)') = Cardinality(Pending(m)) + Cardinality(D)
        /\ Cardinality(D) \in Nat
    <3>1. /\ IsFiniteSet(Row(s, D)) /\ Cardinality(Row(s, D)) = Cardinality(D)
          /\ IsFiniteSet(Row(h, D)) /\ Cardinality(Row(h, D)) = Cardinality(D)
          /\ Cardinality(D) \in Nat
      BY <2>5, CountRow
    <3>2. IsFiniteSet(Attached(m)) /\ IsFiniteSet(Pending(m)) BY PairsFinite
    <3>3. /\ Cardinality(Attached(m) \cup Row(s, D)) = Cardinality(Attached(m)) + Cardinality(D)
          /\ Cardinality(Pending(m) \cup Row(h, D)) = Cardinality(Pending(m)) + Cardinality(D)
      BY <2>1, <2>2, <3>1, <3>2, CountUnion
    <3>4. QED BY <2>1, <2>2, <3>1, <3>3
  <2>7. QED BY <2>3, <2>4, <2>6, PairsCounted DEF MdHeld
<1>4. ASSUME NEW t \in TdSource
      PROVE  refs'[t] - TdHeld(t)' = refs[t] - TdHeld(t)
  <2> DEFINE D == TdOn(hconf[h], t)
  <2>1. Used(t)' = Used(t) \cup Row(s, D) /\ Used(t) \cap Row(s, D) = {}
    BY <1>1, <1>2 DEF Used, Row, TdOn
  <2>2. Returned(t)' = Returned(t) BY <1>2 DEF Returned
  <2>3. refs'[t] = refs[t] + Cardinality(D) /\ refs[t] \in Int
    BY <1>2 DEF TdUses, TdOn
  <2>4. D \in SUBSET DataId BY DEF TdOn
  <2> HIDE DEF D
  <2>5. Cardinality(Used(t)') = Cardinality(Used(t)) + Cardinality(D) /\ Cardinality(D) \in Nat
    <3>1. /\ IsFiniteSet(Row(s, D)) /\ Cardinality(Row(s, D)) = Cardinality(D)
          /\ Cardinality(D) \in Nat
      BY <2>4, CountRow
    <3>2. IsFiniteSet(Used(t)) BY PairsFinite
    <3>3. Cardinality(Used(t) \cup Row(s, D)) = Cardinality(Used(t)) + Cardinality(D)
      BY <2>1, <3>1, <3>2, CountUnion
    <3>4. QED BY <2>1, <3>1, <3>3
  <2>6. QED BY <2>2, <2>3, <2>5, PairsCounted DEF TdHeld
<1>5. QED BY <1>3, <1>4

(***************************************************************************)
(* One dataid is attached: the counter of its source follows.              *)
(***************************************************************************)
LEMMA AttachHeld ==
  ASSUME IInv, NEW h \in Handler, NEW d \in DataId, DeployAttach(h, d)
  PROVE  /\ \A m \in MdSource : refs'[m] - MdHeld(m)' = refs[m] - MdHeld(m)
         /\ \A t \in TdSource : refs'[t] = refs[t] /\ TdHeld(t)' = TdHeld(t)
<1> USE CoreAssumption
<1>1. /\ hpc[h] = "attach" /\ d \in hleft[h] /\ UNCHANGED <<obj, conf, hconf>>
      /\ hpc' = [hpc EXCEPT ![h] = IF hleft[h] = {d} THEN "idle" ELSE "attach"]
      /\ hleft' = [hleft EXCEPT ![h] = @ \ {d}]
      /\ refs' = [refs EXCEPT ![hconf[h].md[d]] = @ + 1]
      /\ hpc \in [Handler -> {"idle", "redeploy", "tdlocked", "hotupdate"}
                          \cup Deploying \cup Canceling] /\ hleft \in [Handler -> SUBSET DataId]
      /\ refs \in [MdSource \cup TdSource -> Int] /\ hconf[h].md[d] \in MdSource
  BY DEF DeployAttach, arrayVars, IInv, TypeOK, Config
<1>2. \A x : /\ Attached(x)' = Attached(x) /\ Used(x)' = Used(x)
             /\ GivenBack(x)' = GivenBack(x) /\ Returned(x)' = Returned(x)
  BY <1>1 DEF Attached, Used, GivenBack, Returned
<1>3. ASSUME NEW m \in MdSource
      PROVE  refs'[m] - MdHeld(m)' = refs[m] - MdHeld(m)
  <2>1. CASE m = hconf[h].md[d]
    <3>1. <<h, d>> \in Pending(m) BY <1>1, <2>1 DEF Pending
    <3>2. Pending(m)' = Pending(m) \ {<<h, d>>} BY <1>1, <2>1 DEF Pending
    <3>3. Cardinality(Pending(m)') = Cardinality(Pending(m)) - 1
      <4>1. IsFiniteSet(Pending(m)) BY PairsFinite
      <4>2. Cardinality(Pending(m) \ {<<h, d>>}) = Cardinality(Pending(m)) - 1
        BY <3>1, <4>1, FS_RemoveElement
      <4>3. QED BY <3>2, <4>2
    <3>4. refs'[m] = refs[m] + 1 /\ refs[m] \in Int BY <1>1, <2>1
    <3>5. QED BY <1>2, <3>3, <3>4, PairsCounted DEF MdHeld
  <2>2. CASE m # hconf[h].md[d]
    <3>1. Pending(m)' = Pending(m) BY <1>1, <2>2 DEF Pending
    <3>2. refs'[m] = refs[m] BY <1>1, <2>2
    <3>3. QED BY <1>2, <3>1, <3>2 DEF MdHeld
  <2>3. QED BY <2>1, <2>2
<1>4. \A t \in TdSource : refs'[t] = refs[t] BY <1>1
<1>5. QED BY <1>2, <1>3, <1>4 DEF TdHeld

(***************************************************************************)
(* A cancellation stores one reference less than it has loaded, and the    *)
(* reference of that dataid is given back.                                 *)
(***************************************************************************)
LEMMA MdStoreHeld ==
  ASSUME IInv, NEW h \in Handler, NEW m \in MdSource, CancelMdStore(h),
         m = hconf[h].md[hdata[h]]
  PROVE  /\ MdHeld(m)' = MdHeld(m) - 1
         /\ \A n \in MdSource \ {m} : MdHeld(n)' = MdHeld(n)
         /\ \A t \in TdSource : TdHeld(t)' = TdHeld(t)
<1> USE CoreAssumption
<1>1. PICK d \in DataId : d = hdata[h] BY DEF IInv, TypeOK
<1>2. /\ hpc[h] = "mdstore" /\ UNCHANGED <<obj, conf, hconf>>
      /\ \/ hleft[h] = {d} /\ hpc' = [hpc EXCEPT ![h] = "tdload"]
            /\ hleft' = [hleft EXCEPT ![h] = DataId]
         \/ hpc' = [hpc EXCEPT ![h] = "detach"] /\ hleft' = [hleft EXCEPT ![h] = @ \ {d}]
      /\ hpc \in [Handler -> {"idle", "redeploy", "tdlocked", "hotupdate"}
                          \cup Deploying \cup Canceling] /\ hleft \in [Handler -> SUBSET DataId]
      /\ hconf[h].md[d] = m
  BY <1>1 DEF CancelMdStore, Store, arrayVars, IInv, TypeOK
<1>3. d \in hleft[h] BY <1>1, <1>2 DEF IInv, CancelInv, Canceling
<1>4. \A x : /\ Attached(x)' = Attached(x) /\ Used(x)' = Used(x)
             /\ Pending(x)' = Pending(x) /\ Returned(x)' = Returned(x)
  BY <1>2 DEF Attached, Used, Pending, Returned
<1>5. Cardinality(GivenBack(m)') = Cardinality(GivenBack(m)) + 1
  <2>1. <<h, d>> \notin GivenBack(m) BY <1>2, <1>3 DEF GivenBack
  <2>2. GivenBack(m)' = GivenBack(m) \cup {<<h, d>>} BY <1>2, <1>3 DEF GivenBack
  <2>3. IsFiniteSet(GivenBack(m)) BY PairsFinite
  <2>4. Cardinality(GivenBack(m) \cup {<<h, d>>}) = Cardinality(GivenBack(m)) + 1
    BY <2>1, <2>3, FS_AddElement
  <2>5. QED BY <2>2, <2>4
<1>6. \A n \in MdSource \ {m} : GivenBack(n)' = GivenBack(n)
  BY <1>2 DEF GivenBack
<1>7. MdHeld(m)' = MdHeld(m) - 1
  BY <1>4, <1>5, PairsCounted DEF MdHeld
<1>8. QED BY <1>4, <1>6, <1>7 DEF MdHeld, TdHeld

LEMMA TdStoreHeld ==
  ASSUME IInv, NEW h \in Handler, NEW t \in TdSource, CancelTdStore(h),
         t = hconf[h].td[hdata[h]]
  PROVE  /\ TdHeld(t)' = TdHeld(t) - 1
         /\ \A u \in TdSource \ {t} : TdHeld(u)' = TdHeld(u)
         /\ \A m \in MdSource : MdHeld(m)' = MdHeld(m)
<1> USE CoreAssumption
<1>1. PICK d \in DataId : d = hdata[h] BY DEF IInv, TypeOK
<1>2. /\ hpc[h] = "tdstore" /\ UNCHANGED <<obj, conf, hconf>>
      /\ hpc' = [hpc EXCEPT ![h] = IF hleft[h] = {d} THEN "save" ELSE "tdload"]
      /\ hleft' = [hleft EXCEPT ![h] = @ \ {d}]
      /\ hpc \in [Handler -> {"idle", "redeploy", "tdlocked", "hotupdate"}
                          \cup Deploying \cup Canceling] /\ hleft \in [Handler -> SUBSET DataId]
      /\ hconf[h].td[d] = t
  BY <1>1 DEF CancelTdStore, Store, arrayVars, IInv, TypeOK
<1>3. d \in hleft[h] BY <1>1, <1>2 DEF IInv, CancelInv, Canceling
<1>4. \A x : /\ Attached(x)' = Attached(x) /\ Used(x)' = Used(x)
             /\ Pending(x)' = Pending(x) /\ GivenBack(x)' = GivenBack(x)
  BY <1>2 DEF Attached, Used, Pending, GivenBack
<1>5. Cardinality(Returned(t)') = Cardinality(Returned(t)) + 1
  <2>1. <<h, d>> \notin Returned(t) BY <1>2, <1>3 DEF Returned
  <2>2. Returned(t)' = Returned(t) \cup {<<h, d>>} BY <1>2, <1>3 DEF Returned
  <2>3. IsFiniteSet(Returned(t)) BY PairsFinite
  <2>4. Cardinality(Returned(t) \cup {<<h, d>>}) = Cardinality(Returned(t)) + 1
    BY <2>1, <2>3, FS_AddElement
  <2>5. QED BY <2>2, <2>4
<1>6. \A u \in TdSource \ {t} : Returned(u)' = Returned(u)
  BY <1>2 DEF Returned
<1>7. TdHeld(t)' = TdHeld(t) - 1
  BY <1>4, <1>5, PairsCounted DEF TdHeld
<1>8. QED BY <1>4, <1>6, <1>7 DEF MdHeld, TdHeld

(***************************************************************************)
(* The slot is emptied: what it held and what was given back for it cancel *)
(* out, since the handler was deployed with the configuration of the slot. *)
(***************************************************************************)
LEMMA ClearHeld ==
  ASSUME IInv, NEW h \in Handler, CancelClear(h) PROVE SameHeld
<1> USE CoreAssumption
<1> DEFINE s == hslot[h]
<1>1. /\ hpc[h] = "clear" /\ obj' = [obj EXCEPT ![s] = nullptr]
      /\ UNCHANGED <<conf, hconf, hleft>>
      /\ hpc \in [Handler -> {"idle", "redeploy", "tdlocked", "hotupdate"}
                          \cup Deploying \cup Canceling] /\ s \in Slot
      /\ obj \in [Slot -> Object \cup {nullptr}]
  BY DEF CancelClear, IInv, TypeOK
<1>2. obj[s] # nullptr /\ hconf[h] = conf[s]
  BY <1>1 DEF IInv, ClearInv, CancelInv, Canceling
<1>3. /\ hpc'[h] \notin {"attach"} \cup Canceling
      /\ \A g \in Handler : g # h => hpc'[g] = hpc[g]
  BY <1>1 DEF CancelClear, Canceling
<1>4. \A x : Pending(x)' = Pending(x) BY <1>1, <1>3 DEF Pending
<1>5. ASSUME NEW m \in MdSource PROVE MdHeld(m)' = MdHeld(m)
  <2> DEFINE D == MdOn(conf[s], m)
  <2>1. Attached(m)' = Attached(m) \ Row(s, D) /\ Row(s, D) \subseteq Attached(m)
    BY <1>1, <1>2 DEF Attached, Row, MdOn
  <2>2. GivenBack(m)' = GivenBack(m) \ Row(h, D) /\ Row(h, D) \subseteq GivenBack(m)
    BY <1>1, <1>2, <1>3 DEF GivenBack, Row, MdOn, Canceling
  <2>3. D \in SUBSET DataId BY DEF MdOn
  <2> HIDE DEF D, s
  <2>4. /\ Cardinality(Attached(m)') = Cardinality(Attached(m)) - Cardinality(D)
        /\ Cardinality(GivenBack(m)') = Cardinality(GivenBack(m)) - Cardinality(D)
        /\ Cardinality(D) \in Nat
    <3>1. /\ IsFiniteSet(Row(s, D)) /\ Cardinality(Row(s, D)) = Cardinality(D)
          /\ IsFiniteSet(Row(h, D)) /\ Cardinality(Row(h, D)) = Cardinality(D)
          /\ Cardinality(D) \in Nat
      BY <2>3, CountRow
    <3>2. IsFiniteSet(Attached(m)) /\ IsFiniteSet(GivenBack(m)) BY PairsFinite
    <3>3. /\ Cardinality(Attached(m) \ Row(s, D)) = Cardinality(Attached(m)) - Cardinality(D)
          /\ Cardinality(GivenBack(m) \ Row(h, D)) = Cardinality(GivenBack(m)) - Cardinality(D)
      BY <2>1, <2>2, <3>1, <3>2, CountLess
    <3>4. QED BY <2>1, <2>2, <3>1, <3>3
  <2>5. QED BY <1>4, <2>4, PairsCounted DEF MdHeld
<1>6. ASSUME NEW t \in TdSource PROVE TdHeld(t)' = TdHeld(t)
  <2> DEFINE D == TdOn(conf[s], t)
  <2>1. Used(t)' = Used(t) \ Row(s, D) /\ Row(s, D) \subseteq Used(t)
    BY <1>1, <1>2 DEF Used, Row, TdOn
  <2>2. Returned(t)' = Returned(t) \ Row(h, D) /\ Row(h, D) \subseteq Returned(t)
    BY <1>1, <1>2, <1>3 DEF Returned, Row, TdOn, Canceling
  <2>3. D \in SUBSET DataId BY DEF TdOn
  <2> HIDE DEF D, s
  <2>4. /\ Cardinality(Used(t)') = Cardinality(Used(t)) - Cardinality(D)
        /\ Cardinality(Returned(t)') = Cardinality(Returned(t)) - Cardinality(D)
        /\ Cardinality(D) \in Nat
    <3>1. /\ IsFiniteSet(Row(s, D)) /\ Cardinality(Row(s, D)) = Cardinality(D)
          /\ IsFiniteSet(Row(h, D)) /\ Cardinality(Row(h, D)) = Cardinality(D)
          /\ Cardinality(D) \in Nat
      BY <2>3, CountRow
    <3>2. IsFiniteSet(Used(t)) /\ IsFiniteSet(Returned(t)) BY PairsFinite
    <3>3. /\ Cardinality(Used(t) \ Row(s, D)) = Cardinality(Used(t)) - Cardinality(D)
          /\ Cardinality(Returned(t) \ Row(h, D)) = Cardinality(Returned(t)) - Cardinality(D)
      BY <2>1, <2>2, <3>1, <3>2, CountLess
    <3>4. QED BY <2>1, <2>2, <3>1, <3>3
  <2>5. QED BY <2>4, PairsCounted DEF TdHeld
<1>7. QED BY <1>5, <1>6 DEF SameHeld

(***************************************************************************)
(* The remaining steps of a handler take no reference and give none back.  *)
(***************************************************************************)
LEMMA OtherHeld ==
  ASSUME IInv, NEW h \in Handler,
         \/ DeployBegin(h) \/ RedeployBegin(h) \/ DeployFail(h)
         \/ \E s \in Slot, next \in {"none", "old"} : CancelBegin(h, s, next)
         \/ \E d \in DataId : CancelDetach(h, d) \/ CancelTdLoad(h, d)
         \/ CancelMdLoad(h) \/ CancelRelease(h) \/ CancelStale(h)
         \/ \E m \in MdSource : AddMdSource(h, m) \/ DelMdSource(h, m)
         \/ \E t \in TdSource : AddTdSource(h, t) \/ DelTdSource(h, t)
         \/ HotUpdateBegin(h) \/ HotUpdateLock(h) \/ HotUpdateEnd(h)
  PROVE  UNCHANGED <<refs, lost>> /\ SameHeld
<1> USE DEF Canceling, arrayVars, sourceVars, countVars, handlerVars
<1>1. HandlerStep(h) BY DEF HandlerStep
<1>2. \A g \in Handler \ {h} : /\ hpc'[g] = hpc[g] /\ hconf'[g] = hconf[g]
                               /\ hleft'[g] = hleft[g]
  BY <1>1, HandlerLocal DEF IInv
<1>3. UNCHANGED <<obj, conf, refs, lost>>
  BY DEF DeployBegin, RedeployBegin, LocksForDeploy, DeployFail, CancelBegin, CancelDetach,
         CancelMdLoad, CancelTdLoad, Load, CancelRelease,
         CancelStale, AddMdSource, DelMdSource, AddTdSource, DelTdSource,
         HotUpdateBegin, HotUpdateLock, HotUpdateEnd
<1>4. \/ UNCHANGED <<hpc, hconf, hleft>>
      \/ hpc[h] \notin {"attach"} \cup Canceling /\ hpc'[h] \notin {"attach"} \cup Canceling
      \/ hpc[h] \notin {"attach"} \cup Canceling /\ hpc'[h] = "detach" /\ hleft'[h] = DataId
      \/ <<hpc[h], hpc'[h]>> \in QuietMove /\ UNCHANGED <<hconf, hleft>>
  <2> USE DEF TypeOK
  <2>1. CASE DeployBegin(h) \/ RedeployBegin(h) \/ DeployFail(h)
    BY <2>1 DEF DeployBegin, RedeployBegin, LocksForDeploy, DeployFail, IInv
  <2>2. CASE \E s \in Slot, next \in {"none", "old"} : CancelBegin(h, s, next)
    BY <2>2 DEF CancelBegin, IInv
  <2>3. CASE CancelRelease(h) \/ CancelStale(h)
    BY <2>3 DEF CancelRelease, CancelStale, IInv, QuietMove
  <2>4. CASE \/ \E m \in MdSource : AddMdSource(h, m) \/ DelMdSource(h, m)
             \/ \E t \in TdSource : AddTdSource(h, t) \/ DelTdSource(h, t)
    BY <2>4 DEF AddMdSource, DelMdSource, AddTdSource, DelTdSource
  <2>5. CASE HotUpdateBegin(h) \/ HotUpdateLock(h) \/ HotUpdateEnd(h)
    BY <2>5 DEF HotUpdateBegin, HotUpdateLock, HotUpdateEnd, IInv
  <2>6. CASE CancelMdLoad(h) \/ \E d \in DataId : CancelDetach(h, d) \/ CancelTdLoad(h, d)
    BY <2>6 DEF CancelDetach, CancelMdLoad, CancelTdLoad, Load, IInv, QuietMove
  <2>7. QED BY <2>1, <2>2, <2>3, <2>4, <2>5, <2>6
<1>5. TypeOK BY DEF IInv
<1> HIDE DEF Canceling
<1>6. \A x : UNCHANGED Holders(x) BY <1>2, <1>3, <1>4, <1>5, QuietHolders
<1>7. QED BY <1>3, <1>6, QuietHeld

(***************************************************************************)
(* What a cancellation has loaded is never less than the references held:  *)
(* while it is between its load and its store, others only give references *)
(* back, since DeployStrategy is shut out by ST.                           *)
(***************************************************************************)
ReadInv ==
  \A h \in Handler :
    /\ \A m \in MdSource :
         hpc[h] = "mdstore" /\ hconf[h].md[hdata[h]] = m => hread[h] >= MdHeld(m)
    /\ \A t \in TdSource :
         hpc[h] = "tdstore" /\ hconf[h].td[hdata[h]] = t => hread[h] >= TdHeld(t)

\* A source that a handler works on is a source.
LEMMA SourceTyped ==
  ASSUME TypeOK, NEW h \in Handler, NEW d \in DataId
  PROVE  hconf[h].md[d] \in MdSource /\ hconf[h].td[d] \in TdSource
BY DEF TypeOK, Config

LEMMA Shrinks ==
  ASSUME IInv, NEW h \in Handler, HandlerStep(h), hpc[h] \notin Deploying
  PROVE  /\ \A m \in MdSource : MdHeld(m)' <= MdHeld(m)
         /\ \A t \in TdSource : TdHeld(t)' <= TdHeld(t)
<1>1. CASE SameHeld BY <1>1, HeldTyped DEF SameHeld
<1>2. CASE CancelMdStore(h)
  <2>1. hdata[h] \in DataId BY DEF IInv, TypeOK
  <2>2. PICK m \in MdSource : m = hconf[h].md[hdata[h]] BY <2>1, SourceTyped DEF IInv
  <2>3. MdHeld(m)' = MdHeld(m) - 1 BY <1>2, <2>2, MdStoreHeld
  <2>4. /\ \A n \in MdSource \ {m} : MdHeld(n)' = MdHeld(n)
        /\ \A t \in TdSource : TdHeld(t)' = TdHeld(t)
    BY <1>2, <2>2, MdStoreHeld
  <2>5. QED BY <2>3, <2>4, HeldTyped
<1>3. CASE CancelTdStore(h)
  <2>1. hdata[h] \in DataId BY DEF IInv, TypeOK
  <2>2. PICK t \in TdSource : t = hconf[h].td[hdata[h]] BY <2>1, SourceTyped DEF IInv
  <2>3. TdHeld(t)' = TdHeld(t) - 1 BY <1>3, <2>2, TdStoreHeld
  <2>4. /\ \A u \in TdSource \ {t} : TdHeld(u)' = TdHeld(u)
        /\ \A m \in MdSource : MdHeld(m)' = MdHeld(m)
    BY <1>3, <2>2, TdStoreHeld
  <2>5. QED BY <2>3, <2>4, HeldTyped
<1>4. CASE CancelClear(h) BY <1>1, <1>4, ClearHeld
<1>5. ~DeployCreate(h) /\ \A d \in DataId : ~DeployAttach(h, d)
  BY DEF DeployCreate, DeployAttach, Deploying
<1>6. QED BY <1>1, <1>2, <1>3, <1>4, <1>5, OtherHeld DEF HandlerStep

(***************************************************************************)
(* A handler is about to store because it has just loaded or was there     *)
(* before.                                                                 *)
(***************************************************************************)
LEMMA StoreOrigin ==
  ASSUME TypeOK, NEW h \in Handler, HandlerStep(h), hpc'[h] \in {"mdstore", "tdstore"}
  PROVE  CancelMdLoad(h) \/ (\E d \in DataId : CancelTdLoad(h, d)) \/ UNCHANGED handlerVars
<1>1. hpc'[h] \in Canceling BY DEF Canceling
<1>2. \A s \in Slot, next \in {"none", "old"} : ~CancelBegin(h, s, next)
  BY DEF CancelBegin, TypeOK
<1>3. /\ \A d \in DataId : ~CancelDetach(h, d)
      /\ ~CancelMdStore(h) /\ ~CancelTdStore(h) /\ ~CancelRelease(h)
  BY DEF CancelDetach, CancelMdStore, CancelTdStore, CancelRelease, TypeOK
<1>4. QED BY <1>1, <1>2, <1>3, CancelOrigin

LEMMA ReadStep ==
  ASSUME IInv, RefCountCovers, ReadInv, NEW h \in Handler, HandlerStep(h) PROVE ReadInv'
<1> USE DEF ReadInv
<1>1. \A g \in Handler : g # h =>
        /\ hpc'[g] = hpc[g] /\ hconf'[g] = hconf[g]
        /\ hdata'[g] = hdata[g] /\ hread'[g] = hread[g]
  BY HandlerLocal DEF IInv
<1>2. /\ \A g \in Handler : hdata[g] \in DataId /\ hread[g] \in Int
      /\ \A x \in MdSource \cup TdSource : refs[x] \in Int
  BY DEF IInv, TypeOK
<1>3. \A g \in Handler : hconf[g].md[hdata[g]] \in MdSource /\ hconf[g].td[hdata[g]] \in TdSource
  BY <1>2, SourceTyped DEF IInv
<1>4. CASE hpc[h] \in Deploying
  <2>1. STShared = {} BY <1>4 DEF IInv, ExclusiveInv, STExclusive
  <2>2. \A g \in Handler \ {h} : hpc'[g] \notin {"mdstore", "tdstore"}
    BY <1>1, <2>1 DEF STShared, Canceling
  <2>3. hpc'[h] \notin {"mdstore", "tdstore"}
    <3>1. SUFFICES ASSUME hpc'[h] \in {"mdstore", "tdstore"} PROVE FALSE OBVIOUS
    <3>2. CancelMdLoad(h) \/ (\E d \in DataId : CancelTdLoad(h, d)) \/ UNCHANGED handlerVars
      BY <3>1, StoreOrigin DEF IInv
    <3>3. QED BY <1>4, <3>1, <3>2 DEF CancelMdLoad, CancelTdLoad, handlerVars, Deploying
  <2>4. QED BY <2>2, <2>3
<1>5. CASE hpc[h] \notin Deploying
  <2>1. /\ \A m \in MdSource : MdHeld(m)' <= MdHeld(m)
        /\ \A t \in TdSource : TdHeld(t)' <= TdHeld(t)
    BY <1>5, Shrinks
  <2>2. ASSUME NEW g \in Handler, NEW m \in MdSource,
               hpc'[g] = "mdstore", hconf'[g].md[hdata'[g]] = m
        PROVE  hread'[g] >= MdHeld(m)'
    <3>1. MdHeld(m) \in Int /\ MdHeld(m)' \in Int /\ MdHeld(m)' <= MdHeld(m)
      BY <2>1, HeldTyped, HeldTypedNext
    <3>2. CASE hpc[g] = "mdstore" /\ hconf[g].md[hdata[g]] = m /\ hread'[g] = hread[g]
      BY <1>2, <3>1, <3>2
    <3>3. CASE g # h BY <1>1, <2>2, <3>2, <3>3
    <3>4. CASE g = h
      <4>1. CancelMdLoad(h) \/ UNCHANGED handlerVars
        <5>1. \A d \in DataId : ~CancelTdLoad(h, d)
          BY <2>2, <3>4 DEF CancelTdLoad, Load, IInv, TypeOK
        <5>2. QED BY <2>2, <3>4, <5>1, StoreOrigin DEF IInv
      <4>2. CASE CancelMdLoad(h)
        <5>1. hread'[h] = refs[m] BY <2>2, <3>4, <4>2 DEF CancelMdLoad, Load, IInv, TypeOK
        <5>2. refs[m] >= MdHeld(m) BY DEF RefCountCovers
        <5>3. QED BY <1>2, <3>1, <3>4, <5>1, <5>2
      <4>3. CASE UNCHANGED handlerVars
        BY <2>2, <3>2, <3>4, <4>3 DEF handlerVars, giveVars
      <4>4. QED BY <4>1, <4>2, <4>3
    <3>5. QED BY <3>3, <3>4
  <2>3. ASSUME NEW g \in Handler, NEW t \in TdSource,
               hpc'[g] = "tdstore", hconf'[g].td[hdata'[g]] = t
        PROVE  hread'[g] >= TdHeld(t)'
    <3>1. TdHeld(t) \in Int /\ TdHeld(t)' \in Int /\ TdHeld(t)' <= TdHeld(t)
      BY <2>1, HeldTyped, HeldTypedNext
    <3>2. CASE hpc[g] = "tdstore" /\ hconf[g].td[hdata[g]] = t /\ hread'[g] = hread[g]
      BY <1>2, <3>1, <3>2
    <3>3. CASE g # h BY <1>1, <2>3, <3>2, <3>3
    <3>4. CASE g = h
      <4>1. (\E d \in DataId : CancelTdLoad(h, d)) \/ UNCHANGED handlerVars
        <5>1. ~CancelMdLoad(h) BY <2>3, <3>4 DEF CancelMdLoad, Load, IInv, TypeOK
        <5>2. QED BY <2>3, <3>4, <5>1, StoreOrigin DEF IInv
      <4>2. ASSUME NEW d \in DataId, CancelTdLoad(h, d) PROVE hread'[g] >= TdHeld(t)'
        <5>1. hread'[h] = refs[t] BY <2>3, <3>4, <4>2 DEF CancelTdLoad, Load, IInv, TypeOK
        <5>2. refs[t] >= TdHeld(t) BY DEF RefCountCovers
        <5>3. QED BY <1>2, <3>1, <3>4, <5>1, <5>2
      <4>3. CASE UNCHANGED handlerVars
        BY <2>3, <3>2, <3>4, <4>3 DEF handlerVars, giveVars
      <4>4. QED BY <4>1, <4>2, <4>3
    <3>5. QED BY <3>3, <3>4
  <2>4. QED BY <2>2, <2>3
<1>6. QED BY <1>4, <1>5

(***************************************************************************)
(* The counters cover the references after a step in which both change by  *)
(* the same number, and after a store whatever was loaded for it.          *)
(***************************************************************************)
LEMMA BalancedCovers ==
  ASSUME IInv, TypeOK', RefCountCovers, UNCHANGED lost,
         \A m \in MdSource : refs'[m] - MdHeld(m)' = refs[m] - MdHeld(m),
         \A t \in TdSource : refs'[t] - TdHeld(t)' = refs[t] - TdHeld(t)
  PROVE  RefCountCovers'
<1>1. /\ \A x \in MdSource \cup TdSource : refs[x] \in Int /\ refs'[x] \in Int
      /\ \A x : MdHeld(x) \in Int /\ TdHeld(x) \in Int
      /\ \A x : MdHeld(x)' \in Int /\ TdHeld(x)' \in Int
  <2>1. \A x \in MdSource \cup TdSource : refs[x] \in Int /\ refs'[x] \in Int
    BY DEF IInv, TypeOK
  <2>2. QED BY <2>1, HeldTyped, HeldTypedNext
<1>2. QED BY <1>1 DEF RefCountCovers

LEMMA MdStoreCovers ==
  ASSUME IInv, TypeOK', RefCountCovers, ReadInv, NEW h \in Handler, CancelMdStore(h)
  PROVE  RefCountCovers'
<1>1. hdata[h] \in DataId BY DEF IInv, TypeOK
<1>2. PICK m \in MdSource : m = hconf[h].md[hdata[h]] BY <1>1, SourceTyped DEF IInv
<1>3. /\ refs \in [MdSource \cup TdSource -> Int] /\ hread[h] \in Int
      /\ refs' = [refs EXCEPT ![m] = hread[h] - 1] /\ hread[h] >= MdHeld(m)
      /\ lost' = IF refs[m] = hread[h] THEN lost ELSE lost \cup {m}
  BY <1>2 DEF CancelMdStore, Store, ReadInv, IInv, TypeOK
<1>4. /\ MdHeld(m)' = MdHeld(m) - 1 /\ \A n \in MdSource \ {m} : MdHeld(n)' = MdHeld(n)
      /\ \A t \in TdSource : TdHeld(t)' = TdHeld(t)
  BY <1>2, MdStoreHeld
<1>5. m \notin TdSource BY CoreAssumption
<1>6. QED BY <1>3, <1>4, <1>5, HeldTyped DEF RefCountCovers

LEMMA TdStoreCovers ==
  ASSUME IInv, TypeOK', RefCountCovers, ReadInv, NEW h \in Handler, CancelTdStore(h)
  PROVE  RefCountCovers'
<1>1. hdata[h] \in DataId BY DEF IInv, TypeOK
<1>2. PICK t \in TdSource : t = hconf[h].td[hdata[h]] BY <1>1, SourceTyped DEF IInv
<1>3. /\ refs \in [MdSource \cup TdSource -> Int] /\ hread[h] \in Int
      /\ refs' = [refs EXCEPT ![t] = hread[h] - 1] /\ hread[h] >= TdHeld(t)
      /\ lost' = IF refs[t] = hread[h] THEN lost ELSE lost \cup {t}
  BY <1>2 DEF CancelTdStore, Store, ReadInv, IInv, TypeOK
<1>4. /\ TdHeld(t)' = TdHeld(t) - 1 /\ \A u \in TdSource \ {t} : TdHeld(u)' = TdHeld(u)
      /\ \A m \in MdSource : MdHeld(m)' = MdHeld(m)
  BY <1>2, TdStoreHeld
<1>5. t \notin MdSource BY CoreAssumption
<1>6. QED BY <1>3, <1>4, <1>5, HeldTyped DEF RefCountCovers

LEMMA CoverStep ==
  ASSUME IInv, TypeOK', RefCountCovers, ReadInv, NEW h \in Handler, HandlerStep(h)
  PROVE  RefCountCovers'
<1>1. CASE SameHeld /\ UNCHANGED <<refs, lost>>
  BY <1>1, BalancedCovers DEF SameHeld
<1>2. CASE DeployCreate(h)
  <2>1. \A m \in MdSource : refs'[m] - MdHeld(m)' = refs[m] - MdHeld(m)
    BY <1>2, CreateHeld
  <2>2. UNCHANGED lost BY <1>2 DEF DeployCreate
  <2>3. QED BY <1>2, <2>1, <2>2, CreateHeld, BalancedCovers
<1>3. ASSUME NEW d \in DataId, DeployAttach(h, d) PROVE RefCountCovers'
  <2>1. \A t \in TdSource : refs'[t] - TdHeld(t)' = refs[t] - TdHeld(t)
    BY <1>3, AttachHeld
  <2>2. UNCHANGED lost BY <1>3 DEF DeployAttach
  <2>3. QED BY <1>3, <2>1, <2>2, AttachHeld, BalancedCovers
<1>4. CASE CancelMdStore(h) \/ CancelTdStore(h) BY <1>4, MdStoreCovers, TdStoreCovers
<1>5. CASE CancelClear(h)
  <2>1. UNCHANGED <<refs, lost>> BY <1>5 DEF CancelClear, sourceVars, countVars
  <2>2. QED BY <1>1, <1>5, <2>1, ClearHeld
<1>6. QED BY <1>1, <1>2, <1>3, <1>4, <1>5, OtherHeld DEF HandlerStep

\* What holds of the counters between any two steps.
CountInv == RefCountCovers /\ ReadInv

LEMMA CountStep == ASSUME IInv, CountInv, IInv', [Next]_vars PROVE CountInv'
<1>1. CASE UNCHANGED <<arrayVars, sourceVars, handlerVars>>
  <2>1. \A x : UNCHANGED Holders(x)
    BY <1>1 DEF Holders, Attached, Pending, GivenBack, Used, Returned, arrayVars, handlerVars
  <2>2. /\ \A m \in MdSource : MdHeld(m)' = MdHeld(m)
        /\ \A t \in TdSource : TdHeld(t)' = TdHeld(t)
    BY <2>1, QuietHeld DEF SameHeld
  <2>3. UNCHANGED <<refs, lost, hpc, hconf, hdata, hread>>
    BY <1>1 DEF sourceVars, countVars, handlerVars, giveVars
  <2>4. QED BY <2>2, <2>3 DEF CountInv, RefCountCovers, ReadInv
<1>2. ASSUME NEW h \in Handler, HandlerStep(h) PROVE CountInv'
  BY <1>2, CoverStep, ReadStep DEF CountInv, IInv
<1>3. QED BY Frame, <1>1, <1>2 DEF vars

(***************************************************************************)
(* The counters are never less than the references held, although the      *)
(* decrements of several cancellations overwrite each other; and they are  *)
(* exact at every source where that has not happened, even when two        *)
(* handlers cancel the same strategy.                                      *)
(***************************************************************************)
THEOREM CountersCoverUses == Spec => []RefCountCovers
<1>1. Init => CountInv
  <2> SUFFICES ASSUME Init PROVE CountInv OBVIOUS
  <2>1. \A x : /\ Attached(x) = {} /\ Pending(x) = {} /\ GivenBack(x) = {}
               /\ Used(x) = {} /\ Returned(x) = {}
    BY DEF Init, Attached, Pending, GivenBack, Used, Returned
  <2>2. Cardinality({}) = 0 BY FS_EmptySet
  <2>3. \A x : MdHeld(x) = 0 /\ TdHeld(x) = 0
    <3>1. \A x : /\ Cardinality(Attached(x)) = 0 /\ Cardinality(Pending(x)) = 0
                 /\ Cardinality(GivenBack(x)) = 0
                 /\ Cardinality(Used(x)) = 0 /\ Cardinality(Returned(x)) = 0
      BY <2>1, <2>2
    <3>2. QED BY <3>1 DEF MdHeld, TdHeld
  <2>4. \A x \in MdSource \cup TdSource : refs[x] = 0 BY DEF Init
  <2>5. RefCountCovers BY <2>3, <2>4 DEF RefCountCovers
  <2>6. ReadInv BY DEF Init, ReadInv
  <2>7. QED BY <2>5, <2>6 DEF CountInv
<1>2. CountInv => RefCountCovers BY DEF CountInv
<1>3. QED BY <1>1, <1>2, CountStep, Inductive, PTL DEF Spec

(***************************************************************************)
(* A source is deleted only when nobody is deploying or cancelling: then   *)
(* its counter is at least the number of dataids on it.                    *)
(***************************************************************************)
LEMMA SourceStep == ASSUME IInv, RefCountCovers, SourceInUse, [Next]_vars PROVE SourceInUse'
<1> USE DEF SourceInUse
<1>1. CASE UNCHANGED <<obj, conf, mdList, tdList>> BY <1>1
<1>2. ASSUME NEW h \in Handler, DeployCreate(h) PROVE SourceInUse'
  <2>1. PICK s \in FreeSlots : /\ obj' = [obj EXCEPT ![s] = created + 1]
                               /\ conf' = [conf EXCEPT ![s] = hconf[h]]
    BY <1>2 DEF DeployCreate
  <2>2. /\ \A d \in DataId : hconf[h].md[d] \in mdList /\ hconf[h].td[d] \in tdList
        /\ UNCHANGED <<mdList, tdList>>
    BY <1>2 DEF DeployCreate
  <2>3. obj \in [Slot -> Object \cup {nullptr}] /\ conf \in [Slot -> Config]
    BY DEF IInv, TypeOK
  <2>4. QED BY <2>1, <2>2, <2>3
<1>3. ASSUME NEW h \in Handler, CancelClear(h) PROVE SourceInUse'
  <2>1. obj' = [obj EXCEPT ![hslot[h]] = nullptr] /\ UNCHANGED <<conf, mdList, tdList>>
    BY <1>3 DEF CancelClear, sourceVars
  <2>2. obj \in [Slot -> Object \cup {nullptr}] BY DEF IInv, TypeOK
  <2>3. QED BY <2>1, <2>2
<1>4. ASSUME NEW h \in Handler, NEW m \in MdSource, DelMdSource(h, m) PROVE SourceInUse'
  <2>1. MDShared = {} /\ refs[m] <= 0 /\ mdList' = mdList \ {m} /\ UNCHANGED <<obj, conf, tdList>>
    BY <1>4 DEF DelMdSource, arrayVars
  <2>2. Pending(m) = {} /\ GivenBack(m) = {}
    BY <2>1 DEF MDShared, Pending, GivenBack, Deploying, Canceling
  <2>3. Cardinality({}) = 0 BY FS_EmptySet
  <2>4. Cardinality(Attached(m)) = 0
    <3>1. refs[m] >= Cardinality(Attached(m)) - 0 - 0
      BY <2>2, <2>3 DEF RefCountCovers, MdHeld
    <3>2. Cardinality(Attached(m)) \in Nat /\ refs[m] \in Int
      BY PairsCounted DEF IInv, TypeOK
    <3>3. QED BY <2>1, <3>1, <3>2
  <2>5. Attached(m) = {} BY <2>4, PairsFinite, FS_EmptySet
  <2>6. \A s \in Slot, d \in DataId : obj[s] # nullptr => conf[s].md[d] # m
    <3> SUFFICES ASSUME NEW s \in Slot, NEW d \in DataId, obj[s] # nullptr, conf[s].md[d] = m
                 PROVE  FALSE
      OBVIOUS
    <3>1. <<s, d>> \in Attached(m) BY DEF Attached
    <3>2. QED BY <2>5, <3>1
  <2>7. QED BY <2>1, <2>6
<1>5. ASSUME NEW h \in Handler, NEW t \in TdSource, DelTdSource(h, t) PROVE SourceInUse'
  <2>1. TDShared = {} /\ refs[t] <= 0 /\ tdList' = tdList \ {t} /\ UNCHANGED <<obj, conf, mdList>>
    BY <1>5 DEF DelTdSource, arrayVars
  <2>2. Returned(t) = {} BY <2>1 DEF TDShared, Returned, Canceling
  <2>3. Cardinality({}) = 0 BY FS_EmptySet
  <2>4. Cardinality(Used(t)) = 0
    <3>1. refs[t] >= Cardinality(Used(t)) - 0
      BY <2>2, <2>3 DEF RefCountCovers, TdHeld
    <3>2. Cardinality(Used(t)) \in Nat /\ refs[t] \in Int
      BY PairsCounted DEF IInv, TypeOK
    <3>3. QED BY <2>1, <3>1, <3>2
  <2>5. Used(t) = {} BY <2>4, PairsFinite, FS_EmptySet
  <2>6. \A s \in Slot, d \in DataId : obj[s] # nullptr => conf[s].td[d] # t
    <3> SUFFICES ASSUME NEW s \in Slot, NEW d \in DataId, obj[s] # nullptr, conf[s].td[d] = t
                 PROVE  FALSE
      OBVIOUS
    <3>1. <<s, d>> \in Used(t) BY DEF Used
    <3>2. QED BY <2>5, <3>1
  <2>7. QED BY <2>1, <2>6
<1>6. ASSUME NEW h \in Handler, NEW x, AddMdSource(h, x) \/ AddTdSource(h, x) PROVE SourceInUse'
  <2>1. mdList \subseteq mdList' /\ tdList \subseteq tdList' /\ UNCHANGED <<obj, conf>>
    BY <1>6 DEF AddMdSource, AddTdSource, arrayVars
  <2>2. QED BY <2>1
<1>7. ASSUME NEW h \in Handler, HandlerStep(h),
             ~DeployCreate(h), ~CancelClear(h),
             \A x : /\ ~AddMdSource(h, x) /\ ~AddTdSource(h, x)
                    /\ ~DelMdSource(h, x) /\ ~DelTdSource(h, x)
      PROVE  UNCHANGED <<obj, conf, mdList, tdList>>
  BY <1>7 DEF HandlerStep, DeployBegin, RedeployBegin, DeployFail, DeployAttach, CancelDetach,
     CancelBegin, CancelMdLoad, CancelMdStore, CancelTdLoad, CancelTdStore, Load, Store,
     CancelRelease, CancelStale, HotUpdateBegin, HotUpdateLock,
     HotUpdateEnd, arrayVars, sourceVars
<1>8. ASSUME NEW h \in Handler, HandlerStep(h) PROVE SourceInUse'
  <2>1. /\ \A x : DelMdSource(h, x) => x \in MdSource
        /\ \A x : DelTdSource(h, x) => x \in TdSource
    BY DEF DelMdSource, DelTdSource, IInv, TypeOK
  <2> HIDE DEF SourceInUse
  <2>2. QED BY <1>1, <1>2, <1>3, <1>4, <1>5, <1>6, <1>7, <1>8, <2>1
<1>9. QED BY Frame, <1>1, <1>8 DEF vars, arrayVars, sourceVars

(***************************************************************************)
(* A source that a running strategy uses is never deleted.                 *)
(***************************************************************************)
THEOREM SourcesInUseStay == Spec => []SourceInUse
<1>1. Init => SourceInUse BY DEF Init, SourceInUse
<1>2. QED BY <1>1, SourceStep, CountersCoverUses, Inductive, PTL DEF Spec
=============================================================================
