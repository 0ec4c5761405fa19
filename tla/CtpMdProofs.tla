----------------------------- MODULE CtpMdProofs -----------------------------
(***************************************************************************)
(* Proofs about CtpMd, for any instruments, strategies and configurations. *)
(***************************************************************************)
EXTENDS CtpMd, TLAPS

(***************************************************************************)
(* The variables keep their types.                                         *)
(***************************************************************************)
LEMMA TypeStep == ASSUME IInv, [Next]_vars PROVE TypeOK'
<1> USE CtpMdAssumption DEF IInv, TypeOK, Thread
<1>1. CASE UNCHANGED vars BY <1>1 DEF vars, mapVars, linkVars
<1>2. CASE StartCreate BY <1>2 DEF StartCreate, Goto, TimerMayFire, SessionLost, mapVars
<1>3. CASE StartCheck BY <1>3 DEF StartCheck, Goto, mapVars, linkVars
<1>4. CASE StartGiveUp BY <1>4 DEF StartGiveUp, Goto, SessionLost, mapVars
<1>5. ASSUME NEW x \in Thread, StopBegin(x) PROVE TypeOK'
  BY <1>5 DEF StopBegin, Goto, TimerMayFire, mapVars, linkVars
<1>6. ASSUME NEW x \in Thread, StopUnsub(x) PROVE TypeOK'
  BY <1>6 DEF StopUnsub, Goto, Calls, mapVars
<1>7. ASSUME NEW x \in Thread, StopReset(x) PROVE TypeOK'
  BY <1>7 DEF StopReset, Goto, SessionLost, mapVars
<1>8. ASSUME NEW x \in Thread, Offline(x) PROVE TypeOK'
  BY <1>8 DEF Offline, Goto, mapVars, linkVars
<1>9. CASE HotUpdateBegin BY <1>9 DEF HotUpdateBegin, Goto, IsPedding, mapVars, linkVars
<1>10. CASE HotUpdateEnd
  <2>1. cfg' \in 0 .. MaxConfig /\ alive' \in BOOLEAN
    <3>1. (cfg < MaxConfig /\ cfg' = cfg + 1) \/ cfg' = cfg BY <1>10, Zenon DEF HotUpdateEnd
    <3>2. cfg \in 0 .. MaxConfig OBVIOUS
    <3>3. cfg' \in 0 .. MaxConfig BY <3>1, <3>2
    <3>4. alive' = alive \/ alive' = FALSE BY <1>10, Zenon DEF HotUpdateEnd
    <3>5. QED BY <3>3, <3>4
  <2>2. pc' = [pc EXCEPT !["handler"] = "idle"] BY <1>10 DEF HotUpdateEnd, Goto
  <2>3. UNCHANGED <<mapVars, linkVars, online, api, cpc, overtaken, fault>> BY <1>10 DEF HotUpdateEnd
  <2>4. QED BY <2>1, <2>2, <2>3 DEF mapVars, linkVars
<1>11. CASE FrontConnected BY <1>11 DEF FrontConnected, mapVars
<1>12. CASE Disconnect BY <1>12 DEF Disconnect, SessionLost, mapVars
<1>13. CASE LoginFail BY <1>13 DEF LoginFail, mapVars
<1>14. CASE LoginOk BY <1>14 DEF LoginOk, mapVars
<1>15. CASE LoginSubscribe BY <1>15 DEF LoginSubscribe, Calls, NoCall
<1>16. ASSUME NEW i \in Instrument, TickEnter(i) PROVE TypeOK'
  BY <1>16 DEF TickEnter
<1>17. CASE TickLeave BY <1>17 DEF TickLeave, mapVars, linkVars
<1>18. ASSUME NEW s \in Strategy, NEW i \in Instrument, Attach(s, i) PROVE TypeOK'
  BY <1>18 DEF Attach, Calls, NoCall
<1>19. ASSUME NEW s \in Strategy, Detach(s) PROVE TypeOK'
  <2>1. /\ watch' = [i \in Instrument |-> watch[i] \ {s}]
        /\ nodes' = nodes \ Lonely(s) /\ ghost' = ghost \ Lonely(s)
        /\ UNCHANGED <<link, account, online, api, cfg, alive, pc, cpc, overtaken>>
    BY <1>19 DEF Detach
  <2>2. /\ sub' \subseteq Instrument /\ late' \subseteq Instrument /\ fault' \in BOOLEAN
    BY <1>19 DEF Detach, Calls, NoCall
  <2>3. \A i \in Instrument : watch'[i] # {} => i \in nodes'
    <3>1. ASSUME NEW i \in Instrument, watch'[i] # {} PROVE i \in nodes'
      <4>1. watch[i] \ {s} # {} BY <2>1, <3>1
      <4>2. watch[i] # {} /\ watch[i] # {s} BY <4>1
      <4>3. QED BY <2>1, <4>2 DEF Lonely
    <3>2. QED BY <3>1
  <2>4. watch' \in [Instrument -> SUBSET Strategy] BY <2>1
  <2>5. nodes' \subseteq Instrument /\ ghost' \subseteq nodes' BY <2>1
  <2>6. QED BY <2>1, <2>2, <2>3, <2>4, <2>5
<1> HIDE DEF IInv, TypeOK, Thread
<1>20. QED
  BY <1>1, <1>2, <1>3, <1>4, <1>5, <1>6, <1>7, <1>8, <1>9, <1>10, <1>11,
     <1>12, <1>13, <1>14, <1>15, <1>16, <1>17, <1>18, <1>19
  DEF Next, Timer, Stop, Callback

(***************************************************************************)
(* The source says it is online without an API object only between the     *)
(* reset of the pointer and that of the flag: a front that answers a login *)
(* is connected, so there is an object.                                    *)
(***************************************************************************)
LEMMA OnlineStep == ASSUME IInv, [Next]_vars PROVE OnlineMeansApi'
<1> USE CtpMdAssumption DEF IInv, TypeOK, OnlineMeansApi, SessionInv, Thread
<1>1. CASE UNCHANGED vars BY <1>1 DEF vars, mapVars, linkVars
<1>2. CASE StartCreate BY <1>2 DEF StartCreate, Goto, TimerMayFire, SessionLost, mapVars
<1>3. CASE StartCheck BY <1>3 DEF StartCheck, Goto, mapVars, linkVars
<1>4. CASE StartGiveUp BY <1>4 DEF StartGiveUp, Goto, SessionLost, mapVars
<1>5. ASSUME NEW x \in Thread, StopBegin(x) PROVE OnlineMeansApi'
  BY <1>5 DEF StopBegin, Goto, TimerMayFire, mapVars, linkVars
<1>6. ASSUME NEW x \in Thread, StopUnsub(x) PROVE OnlineMeansApi'
  BY <1>6 DEF StopUnsub, Goto, Calls, mapVars
<1>7. ASSUME NEW x \in Thread, StopReset(x) PROVE OnlineMeansApi'
  BY <1>7 DEF StopReset, Goto, SessionLost, mapVars
<1>8. ASSUME NEW x \in Thread, Offline(x) PROVE OnlineMeansApi'
  BY <1>8 DEF Offline, Goto, mapVars, linkVars
<1>9. CASE HotUpdateBegin BY <1>9 DEF HotUpdateBegin, Goto, IsPedding, mapVars, linkVars
<1>10. CASE HotUpdateEnd BY <1>10 DEF HotUpdateEnd, Goto, mapVars, linkVars
<1>11. CASE FrontConnected BY <1>11 DEF FrontConnected, mapVars
<1>12. CASE Disconnect BY <1>12 DEF Disconnect, SessionLost, mapVars
<1>13. CASE LoginFail BY <1>13 DEF LoginFail, mapVars
<1>14. CASE LoginOk BY <1>14 DEF LoginOk, mapVars
<1>15. CASE LoginSubscribe BY <1>15 DEF LoginSubscribe, Calls, NoCall
<1>16. ASSUME NEW i \in Instrument, TickEnter(i) PROVE OnlineMeansApi'
  BY <1>16 DEF TickEnter
<1>17. CASE TickLeave BY <1>17 DEF TickLeave, mapVars, linkVars
<1>18. ASSUME NEW s \in Strategy, NEW i \in Instrument, Attach(s, i) PROVE OnlineMeansApi'
  BY <1>18 DEF Attach, Calls, NoCall
<1>19. ASSUME NEW s \in Strategy, Detach(s) PROVE OnlineMeansApi'
  BY <1>19 DEF Detach, Calls, NoCall
<1> HIDE DEF IInv, TypeOK, OnlineMeansApi, SessionInv, Thread
<1>20. QED
  BY <1>1, <1>2, <1>3, <1>4, <1>5, <1>6, <1>7, <1>8, <1>9, <1>10, <1>11,
     <1>12, <1>13, <1>14, <1>15, <1>16, <1>17, <1>18, <1>19
  DEF Next, Timer, Stop, Callback

(***************************************************************************)
(* A session is subscribed only to what has a node: it begins with nothing *)
(* and the last strategy of a node unsubscribes it.                        *)
(***************************************************************************)
LEMMA NodeStep == ASSUME IInv, [Next]_vars PROVE SubscribedHasNode'
<1> USE CtpMdAssumption DEF IInv, TypeOK, SubscribedHasNode, SessionInv, Lonely, Thread
<1>1. CASE UNCHANGED vars BY <1>1 DEF vars, mapVars, linkVars
<1>2. CASE StartCreate BY <1>2 DEF StartCreate, Goto, TimerMayFire, SessionLost, mapVars
<1>3. CASE StartCheck BY <1>3 DEF StartCheck, Goto, mapVars, linkVars
<1>4. CASE StartGiveUp BY <1>4 DEF StartGiveUp, Goto, SessionLost, mapVars
<1>5. ASSUME NEW x \in Thread, StopBegin(x) PROVE SubscribedHasNode'
  BY <1>5 DEF StopBegin, Goto, TimerMayFire, mapVars, linkVars
<1>6. ASSUME NEW x \in Thread, StopUnsub(x) PROVE SubscribedHasNode'
  BY <1>6 DEF StopUnsub, Goto, Calls, mapVars
<1>7. ASSUME NEW x \in Thread, StopReset(x) PROVE SubscribedHasNode'
  BY <1>7 DEF StopReset, Goto, SessionLost, mapVars
<1>8. ASSUME NEW x \in Thread, Offline(x) PROVE SubscribedHasNode'
  BY <1>8 DEF Offline, Goto, mapVars, linkVars
<1>9. CASE HotUpdateBegin BY <1>9 DEF HotUpdateBegin, Goto, IsPedding, mapVars, linkVars
<1>10. CASE HotUpdateEnd BY <1>10 DEF HotUpdateEnd, Goto, mapVars, linkVars
<1>11. CASE FrontConnected BY <1>11 DEF FrontConnected, mapVars
<1>12. CASE Disconnect BY <1>12 DEF Disconnect, SessionLost, mapVars
<1>13. CASE LoginFail BY <1>13 DEF LoginFail, mapVars
<1>14. CASE LoginOk BY <1>14 DEF LoginOk, mapVars
<1>15. CASE LoginSubscribe BY <1>15 DEF LoginSubscribe, Calls, NoCall
<1>16. ASSUME NEW i \in Instrument, TickEnter(i) PROVE SubscribedHasNode'
  BY <1>16 DEF TickEnter
<1>17. CASE TickLeave BY <1>17 DEF TickLeave, mapVars, linkVars
<1>18. ASSUME NEW s \in Strategy, NEW i \in Instrument, Attach(s, i) PROVE SubscribedHasNode'
  BY <1>18 DEF Attach, Calls, NoCall
<1>19. ASSUME NEW s \in Strategy, Detach(s) PROVE SubscribedHasNode'
  BY <1>19 DEF Detach, Calls, NoCall
<1> HIDE DEF IInv, TypeOK, SubscribedHasNode, SessionInv, Lonely, Thread
<1>20. QED
  BY <1>1, <1>2, <1>3, <1>4, <1>5, <1>6, <1>7, <1>8, <1>9, <1>10, <1>11,
     <1>12, <1>13, <1>14, <1>15, <1>16, <1>17, <1>18, <1>19
  DEF Next, Timer, Stop, Callback

(***************************************************************************)
(* In a session every node is subscribed, or was made by a tick.           *)
(***************************************************************************)
LEMMA SessionStep == ASSUME IInv, [Next]_vars PROVE SessionInv'
<1> USE CtpMdAssumption DEF IInv, TypeOK, OnlineMeansApi, SessionInv, WorkInv, Stopping, Lonely, Thread
<1>1. CASE UNCHANGED vars BY <1>1 DEF vars, mapVars, linkVars
<1>2. CASE StartCreate BY <1>2 DEF StartCreate, Goto, TimerMayFire, SessionLost, mapVars
<1>3. CASE StartCheck BY <1>3 DEF StartCheck, Goto, mapVars, linkVars
<1>4. CASE StartGiveUp BY <1>4 DEF StartGiveUp, Goto, SessionLost, mapVars
<1>5. ASSUME NEW x \in Thread, StopBegin(x) PROVE SessionInv'
  BY <1>5 DEF StopBegin, Goto, TimerMayFire, mapVars, linkVars
<1>6. ASSUME NEW x \in Thread, StopUnsub(x) PROVE SessionInv'
  BY <1>6 DEF StopUnsub, Goto, Calls, mapVars
<1>7. ASSUME NEW x \in Thread, StopReset(x) PROVE SessionInv'
  BY <1>7 DEF StopReset, Goto, SessionLost, mapVars
<1>8. ASSUME NEW x \in Thread, Offline(x) PROVE SessionInv'
  BY <1>8 DEF Offline, Goto, mapVars, linkVars
<1>9. CASE HotUpdateBegin BY <1>9 DEF HotUpdateBegin, Goto, IsPedding, mapVars, linkVars
<1>10. CASE HotUpdateEnd BY <1>10 DEF HotUpdateEnd, Goto, mapVars, linkVars
<1>11. CASE FrontConnected BY <1>11 DEF FrontConnected, mapVars
<1>12. CASE Disconnect BY <1>12 DEF Disconnect, SessionLost, mapVars
<1>13. CASE LoginFail BY <1>13 DEF LoginFail, mapVars
<1>14. CASE LoginOk BY <1>14 DEF LoginOk, mapVars
<1>15. CASE LoginSubscribe BY <1>15 DEF LoginSubscribe, Calls, NoCall
<1>16. ASSUME NEW i \in Instrument, TickEnter(i) PROVE SessionInv'
  BY <1>16 DEF TickEnter
<1>17. CASE TickLeave BY <1>17 DEF TickLeave, mapVars, linkVars
<1>18. ASSUME NEW s \in Strategy, NEW i \in Instrument, Attach(s, i) PROVE SessionInv'
  BY <1>18 DEF Attach, Calls, NoCall
<1>19. ASSUME NEW s \in Strategy, Detach(s) PROVE SessionInv'
  BY <1>19 DEF Detach, Calls, NoCall
<1> HIDE DEF IInv, TypeOK, OnlineMeansApi, SessionInv, WorkInv, Stopping, Lonely, Thread
<1>20. QED
  BY <1>1, <1>2, <1>3, <1>4, <1>5, <1>6, <1>7, <1>8, <1>9, <1>10, <1>11,
     <1>12, <1>13, <1>14, <1>15, <1>16, <1>17, <1>18, <1>19
  DEF Next, Timer, Stop, Callback

(***************************************************************************)
(* The timer overtakes a hot update, or they work one after the other.     *)
(***************************************************************************)
LEMMA WorkStep == ASSUME IInv, [Next]_vars PROVE WorkInv'
<1> USE CtpMdAssumption DEF IInv, TypeOK, OnlineMeansApi, WorkInv, Thread
<1>1. CASE UNCHANGED vars BY <1>1 DEF vars, mapVars, linkVars
<1>2. CASE StartCreate BY <1>2 DEF StartCreate, Goto, TimerMayFire, SessionLost, mapVars
<1>3. CASE StartCheck BY <1>3 DEF StartCheck, Goto, mapVars, linkVars
<1>4. CASE StartGiveUp BY <1>4 DEF StartGiveUp, Goto, SessionLost, mapVars
<1>5. ASSUME NEW x \in Thread, StopBegin(x) PROVE WorkInv'
  BY <1>5 DEF StopBegin, Goto, TimerMayFire, mapVars, linkVars
<1>6. ASSUME NEW x \in Thread, StopUnsub(x) PROVE WorkInv'
  BY <1>6 DEF StopUnsub, Goto, Calls, mapVars
<1>7. ASSUME NEW x \in Thread, StopReset(x) PROVE WorkInv'
  BY <1>7 DEF StopReset, Goto, SessionLost, mapVars
<1>8. ASSUME NEW x \in Thread, Offline(x) PROVE WorkInv'
  BY <1>8 DEF Offline, Goto, mapVars, linkVars
<1>9. CASE HotUpdateBegin BY <1>9 DEF HotUpdateBegin, Goto, IsPedding, mapVars, linkVars
<1>10. CASE HotUpdateEnd BY <1>10 DEF HotUpdateEnd, Goto, mapVars, linkVars
<1>11. CASE FrontConnected BY <1>11 DEF FrontConnected, mapVars
<1>12. CASE Disconnect BY <1>12 DEF Disconnect, SessionLost, mapVars
<1>13. CASE LoginFail BY <1>13 DEF LoginFail, mapVars
<1>14. CASE LoginOk BY <1>14 DEF LoginOk, mapVars
<1>15. CASE LoginSubscribe BY <1>15 DEF LoginSubscribe, Calls, NoCall
<1>16. ASSUME NEW i \in Instrument, TickEnter(i) PROVE WorkInv'
  BY <1>16 DEF TickEnter
<1>17. CASE TickLeave BY <1>17 DEF TickLeave, mapVars, linkVars
<1>18. ASSUME NEW s \in Strategy, NEW i \in Instrument, Attach(s, i) PROVE WorkInv'
  BY <1>18 DEF Attach, Calls, NoCall
<1>19. ASSUME NEW s \in Strategy, Detach(s) PROVE WorkInv'
  BY <1>19 DEF Detach, Calls, NoCall
<1> HIDE DEF IInv, TypeOK, OnlineMeansApi, WorkInv, Thread
<1>20. QED
  BY <1>1, <1>2, <1>3, <1>4, <1>5, <1>6, <1>7, <1>8, <1>9, <1>10, <1>11,
     <1>12, <1>13, <1>14, <1>15, <1>16, <1>17, <1>18, <1>19
  DEF Next, Timer, Stop, Callback

-----------------------------------------------------------------------------
(***************************************************************************)
(* The invariant.                                                          *)
(***************************************************************************)
LEMMA InitInv == Init => IInv
<1> SUFFICES ASSUME Init PROVE IInv OBVIOUS
<1> USE CtpMdAssumption DEF Init, Thread
<1>1. TypeOK
  <2>1. /\ watch \in [Instrument -> SUBSET Strategy]
        /\ \A i \in Instrument : watch[i] # {} => i \in nodes
    OBVIOUS
  <2>2. cfg \in 0 .. MaxConfig /\ account \in 0 .. MaxConfig OBVIOUS
  <2>3. pc \in [Thread -> {"idle", "wait", "giveup", "stop", "unsub", "reset", "offline", "join"}]
    OBVIOUS
  <2>5. QED BY <2>1, <2>2, <2>3 DEF TypeOK
<1>2. OnlineMeansApi /\ SubscribedHasNode BY DEF OnlineMeansApi, SubscribedHasNode
<1>3. SessionInv BY DEF SessionInv
<1>4. WorkInv BY DEF WorkInv
<1>5. QED BY <1>1, <1>2, <1>3, <1>4 DEF IInv

THEOREM Inductive == Spec => []IInv
<1>1. Init => IInv BY InitInv
<1>2. IInv /\ [Next]_vars => IInv'
  BY TypeStep, OnlineStep, NodeStep, SessionStep, WorkStep DEF IInv
<1>3. QED BY <1>1, <1>2, PTL DEF Spec

(***************************************************************************)
(* The variables keep their types.                                         *)
(***************************************************************************)
THEOREM TypeCorrect == Spec => []TypeOK
<1>1. IInv => TypeOK BY DEF IInv
<1>2. QED BY <1>1, Inductive, PTL

(***************************************************************************)
(* A session is subscribed to what its strategies watch, and to nothing    *)
(* without a node.                                                         *)
(***************************************************************************)
THEOREM WatchedIsSubscribed == Spec => []Coverage
<1>1. IInv => Coverage BY DEF IInv, TypeOK, SessionInv, Coverage
<1>2. QED BY <1>1, Inductive, PTL

THEOREM SubscribedIsWatched == Spec => []SubscribedHasNode
<1>1. IInv => SubscribedHasNode BY DEF IInv
<1>2. QED BY <1>1, Inductive, PTL

(***************************************************************************)
(* The online flag and the API pointer disagree only in the window of Stop *)
(* and of a failed Start.                                                  *)
(***************************************************************************)
THEOREM FlagFollowsPointer == Spec => []OnlineMeansApi
<1>1. IInv => OnlineMeansApi BY DEF IInv
<1>2. QED BY <1>1, Inductive, PTL

(***************************************************************************)
(* After a hot update the source is online with the account it was given,  *)
(* unless the timer went off meanwhile.                                    *)
(***************************************************************************)
THEOREM NewConfigIsUsed == Spec => []OnlineWithNewConfig
<1>1. IInv => OnlineWithNewConfig BY DEF IInv, SessionInv, OnlineWithNewConfig
<1>2. QED BY <1>1, Inductive, PTL

-----------------------------------------------------------------------------
(***************************************************************************)
(* The null pointer is used only in that window, or after the timer has    *)
(* overtaken a hot update.                                                 *)
(***************************************************************************)
THEOREM NullPointerOnlyInWindow == Spec => NullOnlyInWindow
<1> DEFINE Window == overtaken \/ \E x \in Thread : pc[x] = "offline"
<1>1. ASSUME IInv, [Next]_vars PROVE [fault' => Window]_vars
  <2> SUFFICES ASSUME Next, fault' PROVE Window BY <1>1
  <2> USE <1>1 DEF IInv, OnlineMeansApi, SessionInv, WorkInv, Thread
  <2>1. ~fault BY DEF Next
  <2>2. CASE StartGiveUp BY <2>2 DEF StartGiveUp, Goto
  <2>3. ASSUME NEW x \in Thread, StopUnsub(x) PROVE Window BY <2>3 DEF StopUnsub, Goto, Calls
  <2>4. CASE LoginSubscribe BY <2>1, <2>4 DEF LoginSubscribe, Calls, NoCall
  <2>5. ASSUME NEW s \in Strategy, NEW i \in Instrument, Attach(s, i) PROVE Window
    BY <2>1, <2>5 DEF Attach, Calls, NoCall
  <2>6. ASSUME NEW s \in Strategy, Detach(s) PROVE Window
    BY <2>1, <2>6 DEF Detach, Calls, NoCall
  <2>7. StartCreate \/ StartCheck \/ HotUpdateBegin \/ HotUpdateEnd => UNCHANGED fault
    BY DEF StartCreate, StartCheck, HotUpdateBegin, HotUpdateEnd
  <2>8. \A x \in Thread : StopBegin(x) \/ StopReset(x) \/ Offline(x) => UNCHANGED fault
    BY DEF StopBegin, StopReset, Offline
  <2>9. FrontConnected \/ Disconnect \/ LoginFail \/ LoginOk \/ TickLeave => UNCHANGED fault
    BY DEF FrontConnected, Disconnect, LoginFail, LoginOk, TickLeave
  <2>10. \A i \in Instrument : TickEnter(i) => UNCHANGED fault BY DEF TickEnter
  <2> HIDE DEF IInv, OnlineMeansApi, SessionInv, WorkInv, Thread, Window
  <2>11. QED
    BY <2>1, <2>2, <2>3, <2>4, <2>5, <2>6, <2>7, <2>8, <2>9, <2>10
    DEF Next, Timer, Stop, Callback
<1>2. QED BY <1>1, Inductive, PTL DEF Spec, NullOnlyInWindow

(***************************************************************************)
(* A source whose new configuration was refused has no API object and no   *)
(* session, then and ever after, unless the timer has overtaken an update: *)
(* Stop has ended the session before the update joins the timer thread,    *)
(* and only a timer thread creates an object.                              *)
(***************************************************************************)
LEMMA DeadStep == ASSUME IInv, RefusedIsDead, [Next]_vars PROVE RefusedIsDead'
<1> USE DEF IInv, TypeOK, OnlineMeansApi, SessionInv, WorkInv, RefusedIsDead, Thread
<1>1. CASE UNCHANGED vars BY <1>1 DEF vars, linkVars
<1>2. CASE StartCreate BY <1>2 DEF StartCreate, TimerMayFire
<1>3. CASE StartCheck BY <1>3 DEF StartCheck, linkVars
<1>4. CASE StartGiveUp BY <1>4 DEF StartGiveUp, SessionLost
<1>5. ASSUME NEW x \in Thread, StopBegin(x) PROVE RefusedIsDead'
  BY <1>5 DEF StopBegin, TimerMayFire, linkVars
<1>6. ASSUME NEW x \in Thread, StopUnsub(x) \/ StopReset(x) \/ Offline(x) PROVE RefusedIsDead'
  BY <1>6 DEF StopUnsub, StopReset, Offline, SessionLost, linkVars
<1>7. CASE HotUpdateBegin BY <1>7 DEF HotUpdateBegin, linkVars
<1>8. CASE HotUpdateEnd
  <2>1. pc["handler"] = "join" /\ (alive => pc["timer"] = "idle")
        /\ UNCHANGED <<linkVars, online, api, overtaken>>
    BY <1>8 DEF HotUpdateEnd, Goto
  <2>2. CASE ~alive BY <2>1, <2>2 DEF linkVars
  <2>3. CASE alive /\ ~overtaken
    <3>1. ~api BY <2>1, <2>3
    <3>2. ~online /\ link = "down" BY <2>1, <2>3, <3>1
    <3>3. QED BY <2>1, <3>1, <3>2 DEF linkVars
  <2>4. QED BY <2>1, <2>2, <2>3
<1>9. CASE FrontConnected BY <1>9 DEF FrontConnected
<1>10. CASE Disconnect BY <1>10 DEF Disconnect, SessionLost
<1>11. CASE LoginFail \/ LoginOk BY <1>11 DEF LoginFail, LoginOk
<1>12. CASE LoginSubscribe \/ TickLeave BY <1>12 DEF LoginSubscribe, TickLeave, linkVars
<1>13. ASSUME NEW i \in Instrument, TickEnter(i) PROVE RefusedIsDead' BY <1>13 DEF TickEnter
<1>14. ASSUME NEW s \in Strategy, NEW i \in Instrument, Attach(s, i) PROVE RefusedIsDead'
  BY <1>14 DEF Attach
<1>15. ASSUME NEW s \in Strategy, Detach(s) PROVE RefusedIsDead' BY <1>15 DEF Detach
<1> HIDE DEF IInv, TypeOK, OnlineMeansApi, SessionInv, WorkInv, RefusedIsDead, Thread
<1>16. QED
  BY <1>1, <1>2, <1>3, <1>4, <1>5, <1>6, <1>7, <1>8, <1>9, <1>10, <1>11,
     <1>12, <1>13, <1>14, <1>15
  DEF Next, Timer, Stop, Callback

THEOREM RefusalIsFinal == Spec => []RefusedIsDead
<1>1. Init => RefusedIsDead BY DEF Init, RefusedIsDead
<1>2. IInv /\ RefusedIsDead /\ [Next]_vars => RefusedIsDead' BY DeadStep
<1>3. QED BY <1>1, <1>2, Inductive, PTL DEF Spec
=============================================================================
