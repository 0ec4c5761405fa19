----------------------------- MODULE CtpTdProofs -----------------------------
(***************************************************************************)
(* Proofs about CtpTd, for any number of configurations, logins and orders. *)
(***************************************************************************)
EXTENDS CtpTd, SequenceTheorems, TLAPS

(***************************************************************************)
(* A job goes from step to step, and the timer goes off in the middle of   *)
(* it only by overtaking it.                                               *)
(***************************************************************************)
LEMMA JobStep == ASSUME IInv, [Next]_vars PROVE JobInv'
<1> USE CtpTdAssumption DEF IInv, TypeOK, JobInv, Thread, accountVars, frontVars, reportVars, tradeVars, flagVars
<1>1. CASE UNCHANGED vars BY <1>1 DEF vars
<1>2. CASE StartOnline BY <1>2 DEF StartOnline, Leaves
<1>3. ASSUME NEW x \in Thread, StartBegin(x) PROVE JobInv'
  BY <1>3 DEF StartBegin, Enters, TimerMayFire
<1>4. ASSUME NEW x \in Thread, StartReplace(x) PROVE JobInv'
  BY <1>4 DEF StartReplace, Goto, SessionLost
<1>5. ASSUME NEW x \in Thread, StartCreate(x) PROVE JobInv'
  BY <1>5 DEF StartCreate, Goto, SessionLost
<1>6. ASSUME NEW x \in Thread, StartCheck(x) PROVE JobInv'
  BY <1>6 DEF StartCheck, Leaves
<1>7. ASSUME NEW x \in Thread, StartGiveUp(x) PROVE JobInv'
  BY <1>7 DEF StartGiveUp, Goto
<1>8. ASSUME NEW x \in Thread, StopBegin(x) PROVE JobInv'
  BY <1>8 DEF StopBegin, Enters, TimerMayFire
<1>9. ASSUME NEW x \in Thread, StopLoggedOut(x) PROVE JobInv'
  BY <1>9 DEF StopLoggedOut, Goto
<1>10. ASSUME NEW x \in Thread, StopRelease(x) PROVE JobInv'
  BY <1>10 DEF StopRelease, Goto
<1>11. ASSUME NEW x \in Thread, Released(x) PROVE JobInv'
  BY <1>11 DEF Released, Goto, SessionLost
<1>12. ASSUME NEW x \in Thread, Offline(x) PROVE JobInv'
  BY <1>12 DEF Offline, Leaves
<1>13. CASE HotUpdateBegin BY <1>13 DEF HotUpdateBegin, Goto, ArrayShared
<1>14. CASE UpdateAccountInfo BY <1>14 DEF UpdateAccountInfo, Goto
<1>15. CASE HotUpdateRestart BY <1>15 DEF HotUpdateRestart, Goto
<1>16. CASE UnloadBegin BY <1>16 DEF UnloadBegin, Goto
<1>17. CASE UnloadEnd BY <1>17 DEF UnloadEnd, Goto
<1>18. ASSUME NEW s \in Trader, OrderCheck(s) PROVE JobInv'
  BY <1>18 DEF OrderCheck, ArrayOwned
<1>19. ASSUME NEW s \in Trader, OrderRequest(s) PROVE JobInv'
  BY <1>19 DEF OrderRequest
<1>20. ASSUME NEW o \in OrderId, NEW how \in {"traded", "canceled", "refused"}, ExchangeEnds(o, how) PROVE JobInv'
  BY <1>20 DEF ExchangeEnds
<1>21. CASE OnFrontConnected BY <1>21 DEF OnFrontConnected, Listening
<1>22. CASE OnFrontDisconnected BY <1>22 DEF OnFrontDisconnected
<1>23. CASE LoginFailed BY <1>23 DEF LoginFailed, Listening
<1>24. CASE OnRspUserLogin BY <1>24 DEF OnRspUserLogin, Listening
<1>25. CASE OnRspSettlementInfoConfirm BY <1>25 DEF OnRspSettlementInfoConfirm, Listening
<1>26. CASE OnRtn BY <1>26 DEF OnRtn, Listening
<1>27. CASE ReportEnter BY <1>27 DEF ReportEnter, ArrayOwned
<1>28. CASE ReportLeave BY <1>28 DEF ReportLeave
<1> HIDE DEF IInv, TypeOK, JobInv, Thread
<1>29. QED
  BY <1>1, <1>2, <1>3, <1>4, <1>5, <1>6, <1>7, <1>8, <1>9, <1>10, <1>11, <1>12,
     <1>13, <1>14, <1>15, <1>16, <1>17, <1>18, <1>19, <1>20, <1>21, <1>22,
     <1>23, <1>24, <1>25, <1>26, <1>27, <1>28
  DEF Next, Start, Stop, Handler, Front, Callback

(***************************************************************************)
(* The API object is there for whoever relies on it.                       *)
(***************************************************************************)
LEMMA ObjectStep == ASSUME IInv, [Next]_vars PROVE ObjectInv'
<1> USE CtpTdAssumption DEF IInv, TypeOK, JobInv, ObjectInv, Thread, Trader, accountVars, frontVars, reportVars, tradeVars, flagVars
<1>1. CASE UNCHANGED vars BY <1>1 DEF vars
<1>2. CASE StartOnline BY <1>2 DEF StartOnline, Leaves
<1>3. ASSUME NEW x \in Thread, StartBegin(x) PROVE ObjectInv'
  BY <1>3 DEF StartBegin, Enters, TimerMayFire
<1>4. ASSUME NEW x \in Thread, StartReplace(x) PROVE ObjectInv'
  BY <1>4 DEF StartReplace, Goto, SessionLost
<1>5. ASSUME NEW x \in Thread, StartCreate(x) PROVE ObjectInv'
  BY <1>5 DEF StartCreate, Goto, SessionLost
<1>6. ASSUME NEW x \in Thread, StartCheck(x) PROVE ObjectInv'
  BY <1>6 DEF StartCheck, Leaves
<1>7. ASSUME NEW x \in Thread, StartGiveUp(x) PROVE ObjectInv'
  BY <1>7 DEF StartGiveUp, Goto
<1>8. ASSUME NEW x \in Thread, StopBegin(x) PROVE ObjectInv'
  BY <1>8 DEF StopBegin, Enters, TimerMayFire
<1>9. ASSUME NEW x \in Thread, StopLoggedOut(x) PROVE ObjectInv'
  BY <1>9 DEF StopLoggedOut, Goto
<1>10. ASSUME NEW x \in Thread, StopRelease(x) PROVE ObjectInv'
  BY <1>10 DEF StopRelease, Goto
<1>11. ASSUME NEW x \in Thread, Released(x) PROVE ObjectInv'
  BY <1>11 DEF Released, Goto, SessionLost
<1>12. ASSUME NEW x \in Thread, Offline(x) PROVE ObjectInv'
  BY <1>12 DEF Offline, Leaves
<1>13. CASE HotUpdateBegin BY <1>13 DEF HotUpdateBegin, Goto, ArrayShared
<1>14. CASE UpdateAccountInfo BY <1>14 DEF UpdateAccountInfo, Goto
<1>15. CASE HotUpdateRestart BY <1>15 DEF HotUpdateRestart, Goto
<1>16. CASE UnloadBegin BY <1>16 DEF UnloadBegin, Goto
<1>17. CASE UnloadEnd BY <1>17 DEF UnloadEnd, Goto
<1>18. ASSUME NEW s \in Trader, OrderCheck(s) PROVE ObjectInv'
  BY <1>18 DEF OrderCheck, ArrayOwned
<1>19. ASSUME NEW s \in Trader, OrderRequest(s) PROVE ObjectInv'
  BY <1>19 DEF OrderRequest
<1>20. ASSUME NEW o \in OrderId, NEW how \in {"traded", "canceled", "refused"}, ExchangeEnds(o, how) PROVE ObjectInv'
  BY <1>20 DEF ExchangeEnds
<1>21. CASE OnFrontConnected BY <1>21 DEF OnFrontConnected, Listening
<1>22. CASE OnFrontDisconnected BY <1>22 DEF OnFrontDisconnected
<1>23. CASE LoginFailed BY <1>23 DEF LoginFailed, Listening
<1>24. CASE OnRspUserLogin BY <1>24 DEF OnRspUserLogin, Listening
<1>25. CASE OnRspSettlementInfoConfirm BY <1>25 DEF OnRspSettlementInfoConfirm, Listening
<1>26. CASE OnRtn BY <1>26 DEF OnRtn, Listening
<1>27. CASE ReportEnter BY <1>27 DEF ReportEnter, ArrayOwned
<1>28. CASE ReportLeave BY <1>28 DEF ReportLeave
<1> HIDE DEF IInv, TypeOK, JobInv, ObjectInv, Thread, Trader
<1>29. QED
  BY <1>1, <1>2, <1>3, <1>4, <1>5, <1>6, <1>7, <1>8, <1>9, <1>10, <1>11, <1>12,
     <1>13, <1>14, <1>15, <1>16, <1>17, <1>18, <1>19, <1>20, <1>21, <1>22,
     <1>23, <1>24, <1>25, <1>26, <1>27, <1>28
  DEF Next, Start, Stop, Handler, Front, Callback

(***************************************************************************)
(* The API object has the account of the members.                          *)
(***************************************************************************)
LEMMA AccountStep == ASSUME IInv, [Next]_vars PROVE AccountInv'
<1> USE CtpTdAssumption DEF IInv, TypeOK, JobInv, AccountInv, Thread, accountVars, frontVars, reportVars, tradeVars, flagVars
<1>1. CASE UNCHANGED vars BY <1>1 DEF vars
<1>2. CASE StartOnline BY <1>2 DEF StartOnline, Leaves
<1>3. ASSUME NEW x \in Thread, StartBegin(x) PROVE AccountInv'
  BY <1>3 DEF StartBegin, Enters, TimerMayFire
<1>4. ASSUME NEW x \in Thread, StartReplace(x) PROVE AccountInv'
  BY <1>4 DEF StartReplace, Goto, SessionLost
<1>5. ASSUME NEW x \in Thread, StartCreate(x) PROVE AccountInv'
  BY <1>5 DEF StartCreate, Goto, SessionLost
<1>6. ASSUME NEW x \in Thread, StartCheck(x) PROVE AccountInv'
  BY <1>6 DEF StartCheck, Leaves
<1>7. ASSUME NEW x \in Thread, StartGiveUp(x) PROVE AccountInv'
  BY <1>7 DEF StartGiveUp, Goto
<1>8. ASSUME NEW x \in Thread, StopBegin(x) PROVE AccountInv'
  BY <1>8 DEF StopBegin, Enters, TimerMayFire
<1>9. ASSUME NEW x \in Thread, StopLoggedOut(x) PROVE AccountInv'
  BY <1>9 DEF StopLoggedOut, Goto
<1>10. ASSUME NEW x \in Thread, StopRelease(x) PROVE AccountInv'
  BY <1>10 DEF StopRelease, Goto
<1>11. ASSUME NEW x \in Thread, Released(x) PROVE AccountInv'
  BY <1>11 DEF Released, Goto, SessionLost
<1>12. ASSUME NEW x \in Thread, Offline(x) PROVE AccountInv'
  BY <1>12 DEF Offline, Leaves
<1>13. CASE HotUpdateBegin BY <1>13 DEF HotUpdateBegin, Goto, ArrayShared
<1>14. CASE UpdateAccountInfo BY <1>14 DEF UpdateAccountInfo, Goto
<1>15. CASE HotUpdateRestart BY <1>15 DEF HotUpdateRestart, Goto
<1>16. CASE UnloadBegin BY <1>16 DEF UnloadBegin, Goto
<1>17. CASE UnloadEnd BY <1>17 DEF UnloadEnd, Goto
<1>18. ASSUME NEW s \in Trader, OrderCheck(s) PROVE AccountInv'
  BY <1>18 DEF OrderCheck, ArrayOwned
<1>19. ASSUME NEW s \in Trader, OrderRequest(s) PROVE AccountInv'
  BY <1>19 DEF OrderRequest
<1>20. ASSUME NEW o \in OrderId, NEW how \in {"traded", "canceled", "refused"}, ExchangeEnds(o, how) PROVE AccountInv'
  BY <1>20 DEF ExchangeEnds
<1>21. CASE OnFrontConnected BY <1>21 DEF OnFrontConnected, Listening
<1>22. CASE OnFrontDisconnected BY <1>22 DEF OnFrontDisconnected
<1>23. CASE LoginFailed BY <1>23 DEF LoginFailed, Listening
<1>24. CASE OnRspUserLogin BY <1>24 DEF OnRspUserLogin, Listening
<1>25. CASE OnRspSettlementInfoConfirm BY <1>25 DEF OnRspSettlementInfoConfirm, Listening
<1>26. CASE OnRtn BY <1>26 DEF OnRtn, Listening
<1>27. CASE ReportEnter BY <1>27 DEF ReportEnter, ArrayOwned
<1>28. CASE ReportLeave BY <1>28 DEF ReportLeave
<1> HIDE DEF IInv, TypeOK, JobInv, AccountInv, Thread
<1>29. QED
  BY <1>1, <1>2, <1>3, <1>4, <1>5, <1>6, <1>7, <1>8, <1>9, <1>10, <1>11, <1>12,
     <1>13, <1>14, <1>15, <1>16, <1>17, <1>18, <1>19, <1>20, <1>21, <1>22,
     <1>23, <1>24, <1>25, <1>26, <1>27, <1>28
  DEF Next, Start, Stop, Handler, Front, Callback

(***************************************************************************)
(* The parts of the type invariant.                                        *)
(***************************************************************************)
Flags ==
  /\ online \in BOOLEAN /\ api \in BOOLEAN /\ pending \in BOOLEAN
  /\ alive \in BOOLEAN /\ overtaken \in BOOLEAN /\ fault \in BOOLEAN
  /\ link \in {"down", "connected", "refused", "confirm", "loggedin"}
  /\ link # "down" => api

Places ==
  /\ job \in {"none", "update", "start", "unload"}
  /\ pc \in [Thread -> {"idle", "replace", "create", "wait", "giveup", "stop", "logout",
                        "release", "releasing", "flag", "info", "updated", "restart", "join"}]
  /\ spc \in [Trader -> {"idle", "request"}] /\ met \subseteq Trader
  /\ cpc \in {"idle", "wait", "report"}

(***************************************************************************)
(* The flags and the link keep their types, and a link has an object.      *)
(***************************************************************************)
LEMMA FlagStep == ASSUME IInv, [Next]_vars PROVE Flags'
<1> USE CtpTdAssumption DEF IInv, TypeOK, Flags, Thread, Trader, accountVars, frontVars, reportVars, tradeVars, flagVars
<1>1. CASE UNCHANGED vars BY <1>1 DEF vars
<1>2. CASE StartOnline BY <1>2 DEF StartOnline, Leaves
<1>3. ASSUME NEW x \in Thread, StartBegin(x) PROVE Flags'
  BY <1>3 DEF StartBegin, Enters, TimerMayFire
<1>4. ASSUME NEW x \in Thread, StartReplace(x) PROVE Flags'
  BY <1>4 DEF StartReplace, Goto, SessionLost
<1>5. ASSUME NEW x \in Thread, StartCreate(x) PROVE Flags'
  BY <1>5 DEF StartCreate, Goto, SessionLost
<1>6. ASSUME NEW x \in Thread, StartCheck(x) PROVE Flags'
  BY <1>6 DEF StartCheck, Leaves
<1>7. ASSUME NEW x \in Thread, StartGiveUp(x) PROVE Flags'
  BY <1>7 DEF StartGiveUp, Goto
<1>8. ASSUME NEW x \in Thread, StopBegin(x) PROVE Flags'
  BY <1>8 DEF StopBegin, Enters, TimerMayFire
<1>9. ASSUME NEW x \in Thread, StopLoggedOut(x) PROVE Flags'
  BY <1>9 DEF StopLoggedOut, Goto
<1>10. ASSUME NEW x \in Thread, StopRelease(x) PROVE Flags'
  BY <1>10 DEF StopRelease, Goto
<1>11. ASSUME NEW x \in Thread, Released(x) PROVE Flags'
  BY <1>11 DEF Released, Goto, SessionLost
<1>12. ASSUME NEW x \in Thread, Offline(x) PROVE Flags'
  BY <1>12 DEF Offline, Leaves
<1>13. CASE HotUpdateBegin BY <1>13 DEF HotUpdateBegin, Goto, ArrayShared
<1>14. CASE UpdateAccountInfo BY <1>14 DEF UpdateAccountInfo, Goto
<1>15. CASE HotUpdateRestart BY <1>15 DEF HotUpdateRestart, Goto
<1>16. CASE UnloadBegin BY <1>16 DEF UnloadBegin, Goto
<1>17. CASE UnloadEnd BY <1>17 DEF UnloadEnd, Goto
<1>18. ASSUME NEW s \in Trader, OrderCheck(s) PROVE Flags'
  BY <1>18 DEF OrderCheck, ArrayOwned
<1>19. ASSUME NEW s \in Trader, OrderRequest(s) PROVE Flags'
  BY <1>19 DEF OrderRequest
<1>20. ASSUME NEW o \in OrderId, NEW how \in {"traded", "canceled", "refused"}, ExchangeEnds(o, how) PROVE Flags'
  BY <1>20 DEF ExchangeEnds
<1>21. CASE OnFrontConnected BY <1>21 DEF OnFrontConnected, Listening
<1>22. CASE OnFrontDisconnected BY <1>22 DEF OnFrontDisconnected
<1>23. CASE LoginFailed BY <1>23 DEF LoginFailed, Listening
<1>24. CASE OnRspUserLogin BY <1>24 DEF OnRspUserLogin, Listening
<1>25. CASE OnRspSettlementInfoConfirm BY <1>25 DEF OnRspSettlementInfoConfirm, Listening
<1>26. CASE OnRtn BY <1>26 DEF OnRtn, Listening
<1>27. CASE ReportEnter BY <1>27 DEF ReportEnter, ArrayOwned
<1>28. CASE ReportLeave BY <1>28 DEF ReportLeave
<1> HIDE DEF IInv, TypeOK, Flags, Thread, Trader
<1>29. QED
  BY <1>1, <1>2, <1>3, <1>4, <1>5, <1>6, <1>7, <1>8, <1>9, <1>10, <1>11, <1>12,
     <1>13, <1>14, <1>15, <1>16, <1>17, <1>18, <1>19, <1>20, <1>21, <1>22,
     <1>23, <1>24, <1>25, <1>26, <1>27, <1>28
  DEF Next, Start, Stop, Handler, Front, Callback

(***************************************************************************)
(* The threads keep to their places.                                       *)
(***************************************************************************)
LEMMA PlaceStep == ASSUME IInv, [Next]_vars PROVE Places'
<1> USE CtpTdAssumption DEF IInv, TypeOK, Places, Thread, Trader, accountVars, frontVars, reportVars, tradeVars, flagVars
<1>1. CASE UNCHANGED vars BY <1>1 DEF vars
<1>2. CASE StartOnline BY <1>2 DEF StartOnline, Leaves
<1>3. ASSUME NEW x \in Thread, StartBegin(x) PROVE Places'
  BY <1>3 DEF StartBegin, Enters, TimerMayFire
<1>4. ASSUME NEW x \in Thread, StartReplace(x) PROVE Places'
  BY <1>4 DEF StartReplace, Goto, SessionLost
<1>5. ASSUME NEW x \in Thread, StartCreate(x) PROVE Places'
  BY <1>5 DEF StartCreate, Goto, SessionLost
<1>6. ASSUME NEW x \in Thread, StartCheck(x) PROVE Places'
  BY <1>6 DEF StartCheck, Leaves
<1>7. ASSUME NEW x \in Thread, StartGiveUp(x) PROVE Places'
  BY <1>7 DEF StartGiveUp, Goto
<1>8. ASSUME NEW x \in Thread, StopBegin(x) PROVE Places'
  BY <1>8 DEF StopBegin, Enters, TimerMayFire
<1>9. ASSUME NEW x \in Thread, StopLoggedOut(x) PROVE Places'
  BY <1>9 DEF StopLoggedOut, Goto
<1>10. ASSUME NEW x \in Thread, StopRelease(x) PROVE Places'
  BY <1>10 DEF StopRelease, Goto
<1>11. ASSUME NEW x \in Thread, Released(x) PROVE Places'
  BY <1>11 DEF Released, Goto, SessionLost
<1>12. ASSUME NEW x \in Thread, Offline(x) PROVE Places'
  BY <1>12 DEF Offline, Leaves
<1>13. CASE HotUpdateBegin BY <1>13 DEF HotUpdateBegin, Goto, ArrayShared
<1>14. CASE UpdateAccountInfo BY <1>14 DEF UpdateAccountInfo, Goto
<1>15. CASE HotUpdateRestart BY <1>15 DEF HotUpdateRestart, Goto
<1>16. CASE UnloadBegin BY <1>16 DEF UnloadBegin, Goto
<1>17. CASE UnloadEnd BY <1>17 DEF UnloadEnd, Goto
<1>18. ASSUME NEW s \in Trader, OrderCheck(s) PROVE Places'
  BY <1>18 DEF OrderCheck, ArrayOwned
<1>19. ASSUME NEW s \in Trader, OrderRequest(s) PROVE Places'
  BY <1>19 DEF OrderRequest
<1>20. ASSUME NEW o \in OrderId, NEW how \in {"traded", "canceled", "refused"}, ExchangeEnds(o, how) PROVE Places'
  BY <1>20 DEF ExchangeEnds
<1>21. CASE OnFrontConnected BY <1>21 DEF OnFrontConnected, Listening
<1>22. CASE OnFrontDisconnected BY <1>22 DEF OnFrontDisconnected
<1>23. CASE LoginFailed BY <1>23 DEF LoginFailed, Listening
<1>24. CASE OnRspUserLogin BY <1>24 DEF OnRspUserLogin, Listening
<1>25. CASE OnRspSettlementInfoConfirm BY <1>25 DEF OnRspSettlementInfoConfirm, Listening
<1>26. CASE OnRtn BY <1>26 DEF OnRtn, Listening
<1>27. CASE ReportEnter BY <1>27 DEF ReportEnter, ArrayOwned
<1>28. CASE ReportLeave BY <1>28 DEF ReportLeave
<1> HIDE DEF IInv, TypeOK, Places, Thread, Trader
<1>29. QED
  BY <1>1, <1>2, <1>3, <1>4, <1>5, <1>6, <1>7, <1>8, <1>9, <1>10, <1>11, <1>12,
     <1>13, <1>14, <1>15, <1>16, <1>17, <1>18, <1>19, <1>20, <1>21, <1>22,
     <1>23, <1>24, <1>25, <1>26, <1>27, <1>28
  DEF Next, Start, Stop, Handler, Front, Callback

-----------------------------------------------------------------------------
(***************************************************************************)
(* Which steps change the account, the session, the orders and the reports.*)
(***************************************************************************)
LEMMA Effects ==
  ASSUME Next
  PROVE  /\ \/ UNCHANGED accountVars
            \/ (\E x \in Thread : StartCreate(x)) \/ UpdateAccountInfo \/ HotUpdateRestart
            \/ OnFrontConnected
         /\ UNCHANGED <<sess, login>> \/ OnRspUserLogin
         /\ \/ UNCHANGED orders
            \/ \E s \in Trader : OrderRequest(s)
            \/ \E o \in OrderId, how \in {"traded", "canceled", "refused"} : ExchangeEnds(o, how)
         /\ \/ rtn' = rtn \/ rtn' = <<>> \/ OnRtn
            \/ \E o \in OrderId, how \in {"traded", "canceled", "refused"} : ExchangeEnds(o, how)
         /\ UNCHANGED reportVars \/ OnRtn \/ ReportEnter \/ ReportLeave
<1> USE DEF accountVars, frontVars, reportVars
<1>1. CASE StartOnline \/ UnloadEnd \/ HotUpdateBegin \/ UnloadBegin
  BY <1>1 DEF StartOnline, UnloadEnd, HotUpdateBegin, UnloadBegin
<1>2. ASSUME NEW x \in Thread, StartBegin(x) \/ StartCheck(x) \/ StartGiveUp(x)
      PROVE  UNCHANGED <<accountVars, sess, frontVars, reportVars>>
  BY <1>2 DEF StartBegin, StartCheck, StartGiveUp
<1>3. ASSUME NEW x \in Thread, StopBegin(x) \/ StopLoggedOut(x) \/ StopRelease(x) \/ Offline(x)
      PROVE  UNCHANGED <<accountVars, sess, frontVars, reportVars>>
  BY <1>3 DEF StopBegin, StopLoggedOut, StopRelease, Offline
<1>4. ASSUME NEW x \in Thread, StartReplace(x) \/ StartCreate(x) \/ Released(x)
      PROVE  /\ UNCHANGED accountVars \/ StartCreate(x)
             /\ UNCHANGED <<sess, login, orders, reportVars>>
             /\ rtn' = rtn \/ rtn' = <<>>
  BY <1>4 DEF StartReplace, StartCreate, Released, SessionLost
<1>5. CASE UpdateAccountInfo \/ HotUpdateRestart
  BY <1>5 DEF UpdateAccountInfo, HotUpdateRestart
<1>6. ASSUME NEW s \in Trader, OrderCheck(s) \/ OrderRequest(s)
      PROVE  /\ UNCHANGED <<accountVars, sess, login, rtn, reportVars>>
             /\ UNCHANGED orders \/ OrderRequest(s)
  BY <1>6 DEF OrderCheck, OrderRequest
<1>7. ASSUME NEW o \in OrderId, NEW how \in {"traded", "canceled", "refused"}, ExchangeEnds(o, how)
      PROVE  UNCHANGED <<accountVars, sess, login, reportVars>>
  BY <1>7 DEF ExchangeEnds
<1>8. CASE OnFrontConnected \/ OnFrontDisconnected \/ LoginFailed \/ OnRspSettlementInfoConfirm
  BY <1>8 DEF OnFrontConnected, OnFrontDisconnected, LoginFailed, OnRspSettlementInfoConfirm
<1>9. CASE OnRspUserLogin BY <1>9 DEF OnRspUserLogin
<1>10. CASE OnRtn \/ ReportEnter \/ ReportLeave BY <1>10 DEF OnRtn, ReportEnter, ReportLeave
<1> HIDE DEF accountVars, frontVars, reportVars
<1>11. QED
  BY <1>1, <1>2, <1>3, <1>4, <1>5, <1>6, <1>7, <1>8, <1>9, <1>10
  DEF Next, Start, Stop, Handler, Front, Callback, frontVars

(***************************************************************************)
(* The account keeps its type, and so do the orders and their sessions.    *)
(***************************************************************************)
Accounts ==
  /\ info \in [server : 0 .. MaxConfig, password : 0 .. MaxConfig, sent : 0 .. MaxConfig]
  /\ account \in [server : 0 .. MaxConfig, password : 0 .. MaxConfig] /\ mixed \in BOOLEAN

LEMMA AccountTypes == ASSUME IInv, [Next]_vars PROVE Accounts'
<1> USE CtpTdAssumption
<1>1. Accounts BY DEF IInv, TypeOK, Accounts
<1>2. CASE UNCHANGED accountVars BY <1>1, <1>2 DEF Accounts, accountVars
<1>3. ASSUME NEW x \in Thread, StartCreate(x) PROVE Accounts'
  BY <1>1, <1>3 DEF StartCreate, Accounts
<1>4. CASE UpdateAccountInfo
  <2>1. PICK new \in 0 .. MaxConfig : new = info.sent + 1
    BY <1>1, <1>4 DEF UpdateAccountInfo, Accounts
  <2>2. /\ \E v, p \in {info.server, info.password, new} :
             info' = [server |-> v, password |-> p, sent |-> new]
        /\ mixed' \in {mixed, TRUE} /\ account' = account
    BY <1>1, <1>4, <2>1 DEF UpdateAccountInfo, Accounts
  <2>3. PICK v \in 0 .. MaxConfig, p \in 0 .. MaxConfig :
          info' = [server |-> v, password |-> p, sent |-> new]
    <3>1. info.server \in 0 .. MaxConfig /\ info.password \in 0 .. MaxConfig
      BY <1>1 DEF Accounts
    <3>2. QED BY <2>1, <2>2, <3>1
  <2>4. info' \in [server : 0 .. MaxConfig, password : 0 .. MaxConfig, sent : 0 .. MaxConfig]
    BY <2>3, <2>1
  <2>5. mixed' \in BOOLEAN BY <1>1, <2>2, Zenon DEF Accounts
  <2>6. QED BY <1>1, <2>2, <2>4, <2>5, Zenon DEF Accounts
<1>5. CASE HotUpdateRestart
  <2>1. info' = info /\ account' = account BY <1>5 DEF HotUpdateRestart
  <2>2. mixed' \in BOOLEAN BY <1>1, <1>5 DEF HotUpdateRestart, Accounts, IInv, TypeOK
  <2>3. QED BY <1>1, <2>1, <2>2 DEF Accounts
<1>6. CASE OnFrontConnected BY <1>1, <1>6 DEF OnFrontConnected, Accounts
<1>7. CASE UNCHANGED vars BY <1>2, <1>7 DEF vars
<1>8. CASE Next BY <1>2, <1>3, <1>4, <1>5, <1>6, <1>8, Effects
<1>9. QED BY <1>7, <1>8

Sessions ==
  /\ sess \in 0 .. MaxLogin /\ login \in 0 .. MaxLogin /\ sess = login
  /\ orders \in [OrderId -> [state : {"none", "working", "traded", "canceled", "refused"},
                             session : 0 .. MaxLogin]]
  /\ \A o \in OrderId : orders[o].session <= login

LEMMA SessionTypes == ASSUME IInv, [Next]_vars PROVE Sessions'
<1> USE CtpTdAssumption
<1>1. Sessions BY DEF IInv, TypeOK, ReportInv, Sessions
<1>2. CASE UNCHANGED <<sess, login, orders>> BY <1>1, <1>2 DEF Sessions
<1>3. CASE OnRspUserLogin
  <2>1. login < MaxLogin /\ login' = login + 1 /\ sess' = login' /\ orders' = orders
    BY <1>3 DEF OnRspUserLogin
  <2>2. QED BY <1>1, <2>1 DEF Sessions
<1>4. ASSUME NEW s \in Trader, OrderRequest(s) PROVE Sessions'
  <2>1. UNCHANGED <<sess, login>> BY <1>4 DEF OrderRequest
  <2>2. \/ orders' = orders
        \/ \E o \in OrderId :
             orders' = [orders EXCEPT ![o] = [state |-> "working", session |-> login]]
    BY <1>4 DEF OrderRequest
  <2>3. QED BY <1>1, <2>1, <2>2 DEF Sessions
<1>5. ASSUME NEW o \in OrderId, NEW how \in {"traded", "canceled", "refused"}, ExchangeEnds(o, how)
      PROVE  Sessions'
  <2>1. UNCHANGED <<sess, login>> /\ orders' = [orders EXCEPT ![o].state = how]
    BY <1>5 DEF ExchangeEnds
  <2>2. QED BY <1>1, <2>1 DEF Sessions
<1>6. CASE UNCHANGED vars BY <1>2, <1>6 DEF vars, frontVars
<1>7. CASE Next
  <2>1. OnRspUserLogin \/ UNCHANGED <<sess, login>> BY <1>7, Effects
  <2>2. CASE UNCHANGED <<sess, login>> BY <1>2, <1>4, <1>5, <1>7, <2>2, Effects
  <2>3. QED BY <1>3, <2>1, <2>2
<1>8. QED BY <1>6, <1>7

(***************************************************************************)
(* The reports.                                                            *)
(***************************************************************************)
Reports ==
  /\ rtn \in Seq(Report) /\ heard \in [OrderId -> SUBSET {"order", "trade"}]
  /\ cur \in Report \cup {NoReport}
  /\ \A o \in OrderId : orders[o].state = "none" => heard[o] = {}
  /\ ReportInv

\* Nothing happens to the reports but that orders are placed or end.
LEMMA ReportsQuiet ==
  ASSUME IInv, Sessions', UNCHANGED <<cpc, cur, heard, login>>, rtn' = rtn \/ rtn' = <<>>,
         \A o \in OrderId : /\ orders[o].state # "none" =>
                                 /\ orders'[o].state # "none"
                                 /\ orders'[o].session = orders[o].session
  PROVE  Reports'
<1> USE CtpTdAssumption
<1>1. Reports BY DEF IInv, TypeOK, Reports
<1>2. rtn \in Seq(Report) /\ rtn' \in Seq(Report)
  <2>1. rtn \in Seq(Report) BY <1>1 DEF Reports
  <2>2. <<>> \in Seq(Report) BY EmptySeq
  <2>3. QED BY <2>1, <2>2
<1>3. \A o \in OrderId : orders'[o].state = "none" => heard'[o] = {}
  BY <1>1 DEF Reports
<1>4. ReportInv'
  <2>1. \A o \in OrderId : orders'[o].session <= login' BY DEF Sessions
  <2>2. ASSUME NEW i \in DOMAIN rtn'
        PROVE  /\ orders'[rtn'[i].ref].state # "none"
               /\ rtn'[i].kind = "trade" =>
                    \/ "order" \in heard'[rtn'[i].ref] \/ orders'[rtn'[i].ref].session # login'
                    \/ cpc' = "wait" /\ cur' = [kind |-> "order", ref |-> rtn'[i].ref]
                    \/ \E j \in 1 .. i - 1 : rtn'[j] = [kind |-> "order", ref |-> rtn'[i].ref]
    <3>1. rtn' = rtn BY <2>2
    <3>2. rtn[i] \in Report BY <1>2, <2>2, <3>1, ElementOfSeq
    <3>3. rtn[i].ref \in OrderId BY <3>2 DEF Report
    <3>4. QED BY <1>1, <2>2, <3>1, <3>3 DEF Reports, ReportInv, Known
  <2>3. cpc' # "idle" => /\ cur' \in Report /\ orders'[cur'.ref].state # "none"
                         /\ cur'.kind = "trade" =>
                              "order" \in heard'[cur'.ref] \/ orders'[cur'.ref].session # login'
    <3>1. cur \in Report => cur.ref \in OrderId BY DEF Report
    <3>2. QED BY <1>1, <3>1 DEF Reports, ReportInv, Known
  <2>4. QED BY <2>1, <2>2, <2>3 DEF ReportInv, Known
<1>5. QED BY <1>1, <1>2, <1>3, <1>4 DEF Reports

\* After a login no order is of the session, so no trade has to wait.
LEMMA ReportsLogin ==
  ASSUME IInv, Sessions', UNCHANGED <<orders, rtn, reportVars>>, login' = login + 1
  PROVE  Reports'
<1> USE CtpTdAssumption DEF reportVars
<1>1. Reports /\ Sessions BY DEF IInv, TypeOK, ReportInv, Reports, Sessions
<1>2. \A o \in OrderId : orders'[o].session # login' /\ orders'[o].session <= login'
  BY <1>1 DEF Sessions
<1>3. ReportInv'
  <2>1. ASSUME NEW i \in DOMAIN rtn' PROVE rtn'[i].ref \in OrderId /\ orders'[rtn'[i].ref].state # "none"
    <3>1. rtn \in Seq(Report) BY <1>1 DEF Reports
    <3>2. rtn[i] \in Report BY <2>1, <3>1, ElementOfSeq
    <3>3. rtn[i].ref \in OrderId BY <3>2 DEF Report
    <3>4. QED BY <1>1, <2>1, <3>3 DEF Reports, ReportInv
  <2>2. cpc' # "idle" => /\ cur' \in Report /\ cur'.ref \in OrderId
                         /\ orders'[cur'.ref].state # "none"
    <3>1. cur \in Report => cur.ref \in OrderId BY DEF Report
    <3>2. QED BY <1>1, <3>1 DEF Reports, ReportInv
  <2>3. QED BY <1>2, <2>1, <2>2 DEF ReportInv, Known
<1>4. QED BY <1>1, <1>3 DEF Reports

\* The reports of an order that ends are appended, the one of the order first.
LEMMA ReportsEnd ==
  ASSUME IInv, Sessions', NEW o \in OrderId, NEW how \in {"traded", "canceled", "refused"},
         ExchangeEnds(o, how)
  PROVE  Reports'
<1> USE CtpTdAssumption DEF reportVars
<1> DEFINE told == [kind |-> "order", ref |-> o]
           sold == [kind |-> "trade", ref |-> o]
<1>1. Reports /\ Sessions BY DEF IInv, TypeOK, ReportInv, Reports, Sessions
<1>2. rtn \in Seq(Report) BY <1>1 DEF Reports
<1>3. /\ UNCHANGED <<cpc, cur, heard, login>>
      /\ orders[o].state = "working" /\ orders' = [orders EXCEPT ![o].state = how]
  BY DEF ExchangeEnds
<1>4. \A q \in OrderId : /\ orders'[q].session = orders[q].session
                         /\ orders[q].state # "none" => orders'[q].state # "none"
                         /\ orders'[q].state = "none" => orders[q].state = "none"
  BY <1>1, <1>3 DEF Sessions
<1>5. CASE rtn' = rtn BY <1>3, <1>4, <1>5, ReportsQuiet
<1>6. ASSUME NEW tail \in {<<told>>, <<told, sold>>}, rtn' = rtn \o tail PROVE Reports'
  <2>1. told \in Report /\ sold \in Report BY DEF Report
  <2>2. tail \in Seq(Report) /\ Len(tail) \in {1, 2} /\ tail[1] = told
        /\ (Len(tail) = 2 => tail[2] = sold)
    BY <1>6, <2>1
  <2> HIDE DEF told, sold
  <2>3. rtn' \in Seq(Report) /\ Len(rtn') = Len(rtn) + Len(tail) /\ Len(rtn) \in Nat
        /\ \A i \in 1 .. Len(rtn') :
             rtn'[i] = IF i <= Len(rtn) THEN rtn[i] ELSE tail[i - Len(rtn)]
    BY <1>2, <1>6, <2>2, ConcatProperties, LenProperties
  <2>4. ASSUME NEW i \in DOMAIN rtn'
        PROVE  /\ orders'[rtn'[i].ref].state # "none"
               /\ rtn'[i].kind = "trade" =>
                    \/ "order" \in heard'[rtn'[i].ref] \/ orders'[rtn'[i].ref].session # login'
                    \/ cpc' = "wait" /\ cur' = [kind |-> "order", ref |-> rtn'[i].ref]
                    \/ \E j \in 1 .. i - 1 : rtn'[j] = [kind |-> "order", ref |-> rtn'[i].ref]
    <3>1. i \in 1 .. Len(rtn') /\ DOMAIN rtn = 1 .. Len(rtn) BY <1>2, <2>3
    <3>2. CASE i <= Len(rtn)
      <4>1. i \in 1 .. Len(rtn) /\ i \in DOMAIN rtn /\ rtn'[i] = rtn[i]
        BY <2>3, <3>1, <3>2
      <4>2. rtn[i] \in Report BY <1>2, <4>1, ElementOfSeq
      <4>3. rtn[i].ref \in OrderId BY <4>2 DEF Report
      <4>4. \A j \in 1 .. i - 1 : rtn'[j] = rtn[j] BY <2>3, <3>1, <3>2
      <4>5. QED BY <1>1, <1>3, <1>4, <4>1, <4>3, <4>4 DEF Reports, ReportInv, Known
    <3>3. CASE i = Len(rtn) + 1
      <4>1. rtn'[i] = told BY <2>2, <2>3, <3>1, <3>3
      <4>2. QED BY <1>1, <1>3, <1>4, <4>1 DEF told
    <3>4. CASE i = Len(rtn) + 2
      <4>1. rtn'[i] = sold /\ i - 1 \in 1 .. i - 1 /\ rtn'[i - 1] = told
        BY <2>2, <2>3, <3>1, <3>4
      <4>2. sold.ref = o /\ told = [kind |-> "order", ref |-> o] BY DEF told, sold
      <4>3. orders'[o].state # "none" BY <1>3, <1>4
      <4>4. \E j \in 1 .. i - 1 : rtn'[j] = [kind |-> "order", ref |-> rtn'[i].ref]
        BY <4>1, <4>2
      <4>5. rtn'[i].ref = o BY <4>1, <4>2
      <4>6. orders'[rtn'[i].ref].state # "none" BY <4>3, <4>5
      <4>7. QED BY <4>4, <4>6
    <3>5. i <= Len(rtn) \/ i = Len(rtn) + 1 \/ i = Len(rtn) + 2
      <4> DEFINE old == Len(rtn)
                 more == Len(tail)
                 all == Len(rtn')
      <4>1. more \in {1, 2} /\ old \in Nat /\ all = old + more /\ i \in 1 .. all
        BY <2>2, <2>3, <3>1
      <4> HIDE DEF old, more, all
      <4>2. i <= old \/ i = old + 1 \/ i = old + 2 BY <4>1
      <4>3. QED BY <4>2 DEF old
    <3>6. QED BY <3>2, <3>3, <3>4, <3>5
  <2>5. cpc' # "idle" => /\ cur' \in Report /\ orders'[cur'.ref].state # "none"
                         /\ cur'.kind = "trade" =>
                              "order" \in heard'[cur'.ref] \/ orders'[cur'.ref].session # login'
    <3>1. cur \in Report => cur.ref \in OrderId BY DEF Report
    <3>2. QED BY <1>1, <1>3, <1>4, <3>1 DEF Reports, ReportInv, Known
  <2>6. \A q \in OrderId : orders'[q].session <= login' BY DEF Sessions
  <2>7. ReportInv' BY <2>4, <2>5, <2>6 DEF ReportInv, Known
  <2>8. QED BY <1>1, <1>3, <1>4, <2>3, <2>7 DEF Reports
<1>7. rtn' = rtn \/ \E tail \in {<<told>>, <<told, sold>>} : rtn' = rtn \o tail
  BY <1>2, ConcatEmptySeq DEF ExchangeEnds
<1>8. QED BY <1>5, <1>6, <1>7

\* The report in front is dropped, or goes into the hand of the callback.
LEMMA ReportsTaken == ASSUME IInv, Sessions', OnRtn PROVE Reports'
<1> USE CtpTdAssumption
<1>1. Reports /\ Sessions BY DEF IInv, TypeOK, ReportInv, Reports, Sessions
<1>2. rtn \in Seq(Report) /\ rtn # <<>> BY <1>1 DEF Reports, OnRtn
<1>3. UNCHANGED <<heard, orders, login>> /\ cpc = "idle" /\ rtn' = Tail(rtn) /\ sess = login
  BY <1>1 DEF OnRtn, Sessions
<1>4. Head(rtn) = rtn[1] /\ rtn' \in Seq(Report) /\ Len(rtn') = Len(rtn) - 1 /\ Len(rtn) \in Nat
      /\ Len(rtn) >= 1 /\ \A i \in 1 .. Len(rtn') : rtn'[i] = rtn[i + 1]
  BY <1>2, <1>3, HeadTailProperties, EmptySeq
<1>5. DOMAIN rtn = 1 .. Len(rtn) /\ DOMAIN rtn' = 1 .. Len(rtn') BY <1>2, <1>4
<1>6. rtn[1] \in Report BY <1>2, <1>4, ElementOfSeq
<1>7. rtn[1].ref \in OrderId /\ rtn[1].kind \in {"order", "trade"} BY <1>6 DEF Report
<1>8. \/ /\ rtn[1].kind = "order" /\ orders[rtn[1].ref].session # login /\ UNCHANGED <<cpc, cur>>
      \/ cpc' = "wait" /\ cur' = rtn[1]
  BY <1>3, <1>4 DEF OnRtn
<1>9. /\ orders[rtn[1].ref].state # "none"
      /\ rtn[1].kind = "trade" => Known(rtn[1].ref)
  <2>1. 1 \in DOMAIN rtn /\ ~ \E j \in 1 .. 1 - 1 : TRUE BY <1>4, <1>5
  <2>2. QED BY <1>1, <1>3, <2>1 DEF Reports, ReportInv
<1>10. ASSUME NEW i \in DOMAIN rtn'
       PROVE  /\ orders[rtn'[i].ref].state # "none"
              /\ rtn'[i].kind = "trade" =>
                   \/ Known(rtn'[i].ref)
                   \/ cpc' = "wait" /\ cur' = [kind |-> "order", ref |-> rtn'[i].ref]
                   \/ \E j \in 1 .. i - 1 : rtn'[j] = [kind |-> "order", ref |-> rtn'[i].ref]
  <2>1. i \in 1 .. Len(rtn') /\ i + 1 \in DOMAIN rtn /\ rtn'[i] = rtn[i + 1]
    BY <1>4, <1>5, <1>10
  <2>2. \A j \in 1 .. i : j # 1 => j - 1 \in 1 .. i - 1 /\ rtn'[j - 1] = rtn[j]
    BY <1>4, <2>1
  <2>3. rtn[i + 1].kind = "trade" =>
          \/ Known(rtn[i + 1].ref)
          \/ \E j \in 1 .. i : rtn[j] = [kind |-> "order", ref |-> rtn[i + 1].ref]
    <3>1. (i + 1) - 1 = i BY <2>1
    <3>2. QED BY <1>1, <1>3, <2>1, <3>1 DEF Reports, ReportInv
  <2>4. ASSUME rtn[1] = [kind |-> "order", ref |-> rtn[i + 1].ref]
        PROVE  \/ Known(rtn[i + 1].ref)
               \/ cpc' = "wait" /\ cur' = rtn[1]
    <3>1. rtn[1].ref = rtn[i + 1].ref BY <2>4
    <3>2. QED BY <1>8, <3>1 DEF Known
  <2>5. orders[rtn[i + 1].ref].state # "none" BY <1>1, <2>1 DEF Reports, ReportInv
  <2>6. QED BY <2>1, <2>2, <2>3, <2>4, <2>5
<1>11. cpc' # "idle" => /\ cur' \in Report /\ orders[cur'.ref].state # "none"
                        /\ cur'.kind = "trade" => Known(cur'.ref)
  BY <1>3, <1>6, <1>8, <1>9
<1>12. \A o \in OrderId : orders'[o].session <= login' BY DEF Sessions
<1>13. ReportInv' BY <1>3, <1>10, <1>11, <1>12 DEF ReportInv, Known
<1>14. cur' \in Report \cup {NoReport} BY <1>1, <1>6, <1>8 DEF Reports
<1>15. QED BY <1>1, <1>3, <1>4, <1>13, <1>14 DEF Reports

\* The strategy hears of the report in the hand of the callback.
LEMMA ReportsHeard == ASSUME IInv, Sessions', ReportEnter PROVE Reports'
<1> USE CtpTdAssumption
<1>1. Reports /\ Sessions BY DEF IInv, TypeOK, ReportInv, Reports, Sessions
<1>2. UNCHANGED <<orders, login, rtn, cur>> /\ cpc = "wait" /\ cpc' = "report"
      /\ heard' = [heard EXCEPT ![cur.ref] = @ \cup {cur.kind}]
  BY DEF ReportEnter, frontVars
<1>3. /\ cur \in Report /\ orders[cur.ref].state # "none"
      /\ cur.kind = "trade" => Known(cur.ref)
  BY <1>1, <1>2 DEF Reports, ReportInv
<1>4. cur.ref \in OrderId /\ cur.kind \in {"order", "trade"} BY <1>3 DEF Report
<1>5. /\ heard' \in [OrderId -> SUBSET {"order", "trade"}]
      /\ \A o \in OrderId : heard[o] \subseteq heard'[o]
      /\ cur.kind \in heard'[cur.ref]
      /\ \A o \in OrderId : o # cur.ref => heard'[o] = heard[o]
  BY <1>1, <1>2, <1>4 DEF Reports
<1>6. \A o \in OrderId : Known(o) => "order" \in heard'[o] \/ orders[o].session # login
  BY <1>5 DEF Known
<1>7. ASSUME NEW i \in DOMAIN rtn
      PROVE  /\ orders[rtn[i].ref].state # "none"
             /\ rtn[i].kind = "trade" =>
                  \/ "order" \in heard'[rtn[i].ref] \/ orders[rtn[i].ref].session # login
                  \/ \E j \in 1 .. i - 1 : rtn[j] = [kind |-> "order", ref |-> rtn[i].ref]
  <2>1. rtn \in Seq(Report) BY <1>1 DEF Reports
  <2>2. rtn[i] \in Report BY <1>7, <2>1, ElementOfSeq
  <2>3. rtn[i].ref \in OrderId BY <2>2 DEF Report
  <2>4. ASSUME cur = [kind |-> "order", ref |-> rtn[i].ref] PROVE "order" \in heard'[rtn[i].ref]
    <3>1. cur.kind = "order" /\ cur.ref = rtn[i].ref BY <2>4
    <3>2. cur.kind \in heard'[cur.ref] BY <1>5
    <3>3. "order" \in heard'[cur.ref] BY <3>1, <3>2
    <3>4. QED BY <3>1, <3>3
  <2>5. QED BY <1>1, <1>6, <1>7, <2>3, <2>4 DEF Reports, ReportInv
<1>8. cur.kind = "trade" => "order" \in heard'[cur.ref] \/ orders[cur.ref].session # login
  BY <1>3, <1>4, <1>6
<1>9. \A o \in OrderId : orders'[o].session <= login' BY DEF Sessions
<1>10. ReportInv' BY <1>2, <1>3, <1>7, <1>8, <1>9 DEF ReportInv, Known
<1>11. \A o \in OrderId : orders'[o].state = "none" => heard'[o] = {}
  BY <1>1, <1>2, <1>3, <1>5 DEF Reports
<1>12. QED BY <1>1, <1>2, <1>5, <1>10, <1>11 DEF Reports

LEMMA ReportsLeft == ASSUME IInv, Sessions', ReportLeave PROVE Reports'
<1>1. Reports /\ Sessions BY DEF IInv, TypeOK, ReportInv, Reports, Sessions
<1>2. UNCHANGED <<orders, login, rtn, heard>> /\ cpc = "report" /\ cpc' = "idle" /\ cur' = NoReport
  BY DEF ReportLeave, frontVars
<1>3. ReportInv' BY <1>1, <1>2 DEF Reports, Sessions, ReportInv, Known
<1>4. QED BY <1>1, <1>2, <1>3 DEF Reports

LEMMA ReportStep == ASSUME IInv, [Next]_vars PROVE Reports'
<1> USE CtpTdAssumption
<1>1. Sessions /\ Sessions' BY SessionTypes DEF IInv, TypeOK, ReportInv, Sessions
<1>2. CASE UNCHANGED vars
  BY <1>1, <1>2, ReportsQuiet DEF vars, frontVars, reportVars
<1>3. CASE OnRspUserLogin
  BY <1>1, <1>3, ReportsLogin DEF OnRspUserLogin, reportVars
<1>4. ASSUME NEW s \in Trader, OrderRequest(s) PROVE Reports'
  <2>1. UNCHANGED <<cpc, cur, heard, login, rtn>> BY <1>4 DEF OrderRequest, reportVars
  <2>2. \/ orders' = orders
        \/ \E o \in OrderId : orders[o].state = "none" /\
             orders' = [orders EXCEPT ![o] = [state |-> "working", session |-> login]]
    BY <1>4 DEF OrderRequest
  <2>3. \A q \in OrderId : orders[q].state # "none" =>
                             /\ orders'[q].state # "none"
                             /\ orders'[q].session = orders[q].session
    BY <1>1, <2>2 DEF Sessions
  <2>4. QED BY <1>1, <2>1, <2>3, ReportsQuiet
<1>5. ASSUME NEW o \in OrderId, NEW how \in {"traded", "canceled", "refused"}, ExchangeEnds(o, how)
      PROVE  Reports'
  BY <1>1, <1>5, ReportsEnd
<1>6. CASE OnRtn BY <1>1, <1>6, ReportsTaken
<1>7. CASE ReportEnter BY <1>1, <1>7, ReportsHeard
<1>8. CASE ReportLeave BY <1>1, <1>8, ReportsLeft
<1>9. CASE /\ UNCHANGED <<sess, login, orders, reportVars>>
           /\ rtn' = rtn \/ rtn' = <<>>
  BY <1>1, <1>9, ReportsQuiet DEF reportVars
<1>10. CASE Next
  BY <1>3, <1>4, <1>5, <1>6, <1>7, <1>8, <1>9, <1>10, Effects
<1>11. QED BY <1>2, <1>10

-----------------------------------------------------------------------------
(***************************************************************************)
(* The invariant holds at the start and every step keeps it.               *)
(***************************************************************************)
LEMMA Parts == TypeOK /\ ReportInv <=> Flags /\ Places /\ Accounts /\ Sessions /\ Reports
BY DEF TypeOK, ReportInv, Flags, Places, Accounts, Sessions, Reports

LEMMA InitInv == ASSUME Init PROVE IInv
<1> USE CtpTdAssumption DEF Init
<1>1. Flags BY DEF Flags
<1>2. Places BY DEF Places
<1>3. Accounts
  <2>1. 0 \in 0 .. MaxConfig OBVIOUS
  <2>2. QED BY <2>1 DEF Accounts
<1>4. Sessions BY DEF Sessions
<1>5. Reports
  <2>1. rtn \in Seq(Report) /\ DOMAIN rtn = {} BY EmptySeq
  <2>2. ReportInv BY <1>4, <2>1 DEF Sessions, ReportInv
  <2>3. QED BY <2>1, <2>2 DEF Reports
<1>6. JobInv BY DEF JobInv, Thread
<1>7. ObjectInv BY DEF ObjectInv, Thread, Trader
<1>8. AccountInv BY DEF AccountInv, Thread
<1>9. QED BY <1>1, <1>2, <1>3, <1>4, <1>5, <1>6, <1>7, <1>8, Parts DEF IInv

(***************************************************************************)
(* The types hold, a job and the timer meet only when the timer overtakes  *)
(* it, whoever relies on the API object finds it, the object has the       *)
(* account of the members, and no trade is in front of its order.          *)
(***************************************************************************)
THEOREM Inductive == Spec => []IInv
<1>1. Init => IInv BY InitInv
<1>2. IInv /\ [Next]_vars => IInv'
  <2> SUFFICES ASSUME IInv, [Next]_vars PROVE IInv' OBVIOUS
  <2>1. Flags' /\ Places' BY FlagStep, PlaceStep
  <2>2. Accounts' /\ Sessions' /\ Reports' BY AccountTypes, SessionTypes, ReportStep
  <2>3. JobInv' /\ ObjectInv' /\ AccountInv' BY JobStep, ObjectStep, AccountStep
  <2>4. TypeOK'
    BY <2>1, <2>2 DEF TypeOK, Flags, Places, Accounts, Sessions, Reports
  <2>5. ReportInv' BY <2>2 DEF Reports
  <2>6. QED BY <2>3, <2>4, <2>5 DEF IInv
<1>3. QED BY <1>1, <1>2, PTL DEF Spec

\* Every variable has its type, the stored session is that of the login, and
\* the host is told only of orders that were placed.
THEOREM TypeCorrect == Spec => []TypeOK
<1>1. IInv => TypeOK BY DEF IInv
<1>2. QED BY <1>1, Inductive, PTL

\* An open session of a source no handler works on has the server and the
\* password of one configuration, unless mixed says how it came to be otherwise.
THEOREM OneConfiguration == Spec => []AccountWhole
<1>1. IInv => AccountWhole
  BY DEF IInv, TypeOK, JobInv, AccountInv, AccountWhole
<1>2. QED BY <1>1, Inductive, PTL

\* An unloaded source leaves no API object behind that could call it.
THEOREM UnloadLeavesNothing == Spec => []UnloadedHasNoApi
<1>1. IInv => UnloadedHasNoApi BY DEF IInv, ObjectInv, UnloadedHasNoApi
<1>2. QED BY <1>1, Inductive, PTL

\* Within one session a strategy hears of an order before its trade.
THEOREM OrderBeforeTrade == Spec => []TradeOfKnownOrder
<1>1. IInv => TradeOfKnownOrder BY DEF IInv, ReportInv, Known, TradeOfKnownOrder
<1>2. QED BY <1>1, Inductive, PTL

-----------------------------------------------------------------------------
(***************************************************************************)
(* The steps that use the pointer.                                         *)
(***************************************************************************)
LEMMA Faults ==
  ASSUME IInv, Next, fault'
  PROVE  \/ \E x \in Thread : StartCreate(x) \/ StartGiveUp(x) \/ StopBegin(x) \/ Released(x)
         \/ \E s \in Trader : OrderRequest(s)
<1>1. ~fault BY DEF Next
<1>2. ASSUME NEW x \in Thread, Start(x) \/ Stop(x)
      PROVE  fault' = fault \/ StartCreate(x) \/ StartGiveUp(x) \/ StopBegin(x) \/ Released(x)
  BY <1>2 DEF Start, Stop, StartBegin, StartReplace, StartCheck, StopLoggedOut, StopRelease, Offline
<1>3. CASE Handler \/ HotUpdateBegin \/ UnloadBegin
  BY <1>1, <1>3 DEF Handler, StartOnline, UpdateAccountInfo, HotUpdateRestart, UnloadEnd,
                    HotUpdateBegin, UnloadBegin
<1>4. CASE Front \/ OnRtn \/ Callback
  BY <1>1, <1>4 DEF Front, OnFrontConnected, OnFrontDisconnected, LoginFailed, OnRspUserLogin,
                    OnRspSettlementInfoConfirm, OnRtn, Callback, ReportEnter, ReportLeave
<1>5. ASSUME NEW s \in Trader, OrderCheck(s) PROVE fault' = fault BY <1>5 DEF OrderCheck
<1>6. ASSUME NEW o \in OrderId, NEW how \in {"traded", "canceled", "refused"}, ExchangeEnds(o, how)
      PROVE  fault' = fault
  BY <1>6 DEF ExchangeEnds
<1>7. QED BY <1>1, <1>2, <1>3, <1>4, <1>5, <1>6 DEF Next

\* The pointer is null, released twice or overwritten only when the timer has
\* overtaken a handler, or by an order that a strategy places in a tick while
\* the timer is, or comes to be, in Start or Stop.
THEOREM OnlyTheTimerCrashes == Spec => CrashOnlyByTimer
<1> DEFINE Blame == fault' => overtaken' \/ ("tick" \in met /\ spc["tick"] = "request")
<1>1. IInv /\ [Next]_vars => [Blame]_vars
  <2> SUFFICES ASSUME IInv, Next, fault', ~overtaken'
               PROVE  "tick" \in met /\ spc["tick"] = "request"
    OBVIOUS
  <2>1. ASSUME NEW x \in Thread, StartCreate(x) \/ StartGiveUp(x) \/ Released(x) PROVE FALSE
    BY <2>1 DEF StartCreate, StartGiveUp, Released, Goto, IInv, TypeOK, ObjectInv
  <2>2. ASSUME NEW x \in Thread, StopBegin(x) PROVE FALSE
    BY <2>2 DEF StopBegin, Enters, TimerMayFire, IInv, TypeOK, JobInv, ObjectInv, Thread
  <2>3. ASSUME NEW s \in Trader, OrderRequest(s) PROVE s = "tick" /\ s \in met /\ spc[s] = "request"
    BY <2>3 DEF OrderRequest, IInv, TypeOK, ObjectInv, Trader
  <2>4. QED BY <2>1, <2>2, <2>3, Faults
<1>2. QED BY <1>1, Inductive, PTL DEF Spec, CrashOnlyByTimer

\* An order that a strategy places from a report finds its pointer, whatever
\* the timer does.
THEOREM ReportsTradeSafely == Spec => ReportTradesSafely
<1> DEFINE Safe == spc["report"] = "request" /\ spc'["report"] = "idle" => ~fault'
<1>1. IInv /\ [Next]_vars => [Safe]_vars
  <2> SUFFICES ASSUME IInv, Next, fault', spc["report"] = "request", spc'["report"] = "idle"
               PROVE  FALSE
    OBVIOUS
  <2>1. api BY DEF IInv, ObjectInv
  <2>2. ASSUME NEW x \in Thread,
               StartCreate(x) \/ StartGiveUp(x) \/ StopBegin(x) \/ Released(x)
        PROVE  FALSE
    BY <2>2 DEF StartCreate, StartGiveUp, StopBegin, Released, tradeVars
  <2>3. ASSUME NEW s \in Trader, OrderRequest(s) PROVE FALSE
    BY <2>1, <2>3 DEF OrderRequest
  <2>4. QED BY <2>2, <2>3, Faults
<1>2. QED BY <1>1, Inductive, PTL DEF Spec, ReportTradesSafely
=============================================================================
