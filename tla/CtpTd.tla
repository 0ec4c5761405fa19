-------------------------------- MODULE CtpTd --------------------------------
(***************************************************************************)
(* A CTP trade source (trade/trade_plugins/CTP_FUTURE_TDPlugin).  Who      *)
(* meets in it:                                                            *)
(*   timer    runs TimerHandler, which calls Start or Stop by the clock;   *)
(*   handler  a net thread in TDHotUpdate, which owns the strategy array   *)
(*            exclusively, or in TDUnload, when no strategy uses the       *)
(*            source;                                                      *)
(*   tick     a thread of a market data source that places or cancels an   *)
(*            order for a strategy and shares the array meanwhile;         *)
(*   the callback thread of the API object, which hands the reports of the *)
(*            front to the host; the host shares the array while the       *)
(*            strategy handles one, and the strategy may trade in it.      *)
(* The online flag, the account and the API pointer are not protected.     *)
(* The library of the exchange is external: RegisterSpi(nullptr) ends its  *)
(* calls, Release waits for the one under way, and a session is sent only  *)
(* the reports that arise while it is logged in (THOST_TERT_QUICK).        *)
(***************************************************************************)
EXTENDS Naturals, Sequences, FiniteSets

CONSTANTS
  MaxConfig,   \* bound: configurations the operator sends
  MaxLogin,    \* bound: logins
  MaxOrder     \* bound: orders placed

ASSUME CtpTdAssumption == MaxConfig \in Nat /\ MaxLogin \in Nat /\ MaxOrder \in Nat

VARIABLES
  online,     \* m_boolIsOnline
  api,        \* m_pUserApi is not null
  pending,    \* m_abIsPending
  info,       \* the server and the password of the members, as numbered
              \* configurations, and how many configurations were sent
  account,    \* the server the API object was given, the password of the login
  sess,       \* m_intSessionID
  link,       \* the connection of the API object with the front
  login,      \* the number of the last session the front has opened
  orders,     \* the orders at the exchange: state and session
  rtn,        \* reports the API object has still to hand over, in order
  heard,      \* what the host was told of each order
  alive,      \* the timer thread runs
  pc, job,    \* where the timer and the handler are, what the handler does
  spc,        \* where a thread is in MakeOrder or CancelOrder
  cpc, cur,   \* the callback thread: where, the report in its hand
  mixed,      \* history: the account may come from two configurations
  overtaken,  \* history: the timer went off while the handler was at work
  met,        \* history: threads whose order met the timer in Start or Stop
  fault       \* the API pointer was null, released twice or overwritten

accountVars == <<info, account, mixed>>
frontVars   == <<link, login, orders, rtn>>
reportVars  == <<cpc, cur, heard>>
tradeVars   == <<spc, met>>
flagVars    == <<online, api, pending>>
vars == <<flagVars, accountVars, sess, frontVars, alive, pc, job, tradeVars,
          reportVars, overtaken, fault>>

Thread == {"timer", "handler"}
Trader == {"tick", "report"}
OrderId == 1 .. MaxOrder
Report  == [kind : {"order", "trade"}, ref : OrderId]
NoReport == [kind |-> "none", ref |-> 0]

\* A hot update owns the strategy array.
ArrayOwned == job \in {"update", "start"}
\* A strategy is in MakeOrder or CancelOrder, or handles a report.
ArrayShared == spc["tick"] # "idle" \/ cpc = "report"

\* The callbacks end with RegisterSpi(nullptr).
Listening == api /\ \A x \in Thread : pc[x] # "releasing"

Init ==
  /\ online = FALSE /\ api = FALSE /\ pending = FALSE
  /\ info = [server |-> 0, password |-> 0, sent |-> 0]
  /\ account = [server |-> 0, password |-> 0] /\ mixed = FALSE
  /\ sess = 0 /\ link = "down" /\ login = 0
  /\ orders = [o \in OrderId |-> [state |-> "none", session |-> 0]]
  /\ rtn = <<>> /\ heard = [o \in OrderId |-> {}]
  /\ alive = TRUE /\ pc = [x \in Thread |-> "idle"] /\ job = "none"
  /\ spc = [s \in Trader |-> "idle"] /\ met = {}
  /\ cpc = "idle" /\ cur = NoReport
  /\ overtaken = FALSE /\ fault = FALSE

Goto(x, from, to) == pc[x] = from /\ pc' = [pc EXCEPT ![x] = to]

\* The session is gone, and the reports that were not handed over with it.
SessionLost == link' = "down" /\ rtn' = <<>>

-----------------------------------------------------------------------------
(* Start and Stop, by the timer or by a handler *)

\* TimerHandler: the timer goes off unless TDUnload has cancelled it.
TimerMayFire ==
  /\ alive /\ pc["timer"] = "idle" /\ pc["handler"] # "join"
  /\ overtaken' = (overtaken \/ job # "none")
  /\ met' = {s \in Trader : spc[s] # "idle"}

\* Start and Stop begin for the timer when it goes off, for a handler at the
\* step it has come to.
Enters(x, at, to) ==
  /\ pc[x] = (IF x = "timer" THEN "idle" ELSE at)
  /\ IF x = "timer" THEN TimerMayFire ELSE UNCHANGED <<overtaken, met>>
  /\ pc' = [pc EXCEPT ![x] = to]

\* CAutoPend ends with the call: what the thread does next.
Leaves(x, stopped) ==
  /\ pending' = FALSE
  /\ IF x = "timer" THEN pc' = [pc EXCEPT ![x] = "idle"] /\ UNCHANGED job
     ELSE CASE job = "update" /\ stopped -> pc' = [pc EXCEPT ![x] = "restart"] /\ job' = "start"
            [] job = "unload" -> pc' = [pc EXCEPT ![x] = "join"] /\ UNCHANGED job
            [] OTHER          -> pc' = [pc EXCEPT ![x] = "idle"] /\ job' = "none"

\* Start does nothing for a source that is online.
StartOnline ==
  /\ online /\ pc["handler"] = "restart"
  /\ Leaves("handler", FALSE)
  /\ UNCHANGED <<online, api, accountVars, sess, frontVars, alive, tradeVars, reportVars,
                 overtaken, fault>>

StartBegin(x) ==
  /\ ~online
  /\ Enters(x, "restart", "replace")
  /\ pending' = TRUE
  /\ UNCHANGED <<online, api, accountVars, sess, frontVars, alive, job, spc, reportVars, fault>>

\* An object that is left from a session whose link is lost is released.
StartReplace(x) ==
  /\ Goto(x, "replace", "create")
  /\ IF api THEN cpc = "idle" /\ api' = FALSE /\ SessionLost ELSE UNCHANGED <<api, link, rtn>>
  /\ UNCHANGED <<online, pending, accountVars, sess, login, orders, alive, job, tradeVars,
                 reportVars, overtaken, fault>>

\* The new object is told the server; an object that another thread has
\* created since is overwritten.
StartCreate(x) ==
  /\ Goto(x, "create", "wait")
  /\ fault' = api
  /\ api' = TRUE
  /\ account' = [account EXCEPT !.server = info.server]
  /\ SessionLost
  /\ UNCHANGED <<online, pending, info, mixed, sess, login, orders, alive, job, tradeVars,
                 reportVars, overtaken>>

\* The login is signalled, or missed, or ten seconds are over.
StartCheck(x) ==
  /\ pc[x] = "wait"
  /\ IF online THEN Leaves(x, FALSE)
               ELSE pc' = [pc EXCEPT ![x] = "giveup"] /\ UNCHANGED <<pending, job>>
  /\ UNCHANGED <<online, api, accountVars, sess, frontVars, alive, tradeVars, reportVars,
                 overtaken, fault>>

\* Start gives up without asking whether the pointer is still set.
StartGiveUp(x) ==
  /\ Goto(x, "giveup", "releasing")
  /\ fault' = ~api
  /\ UNCHANGED <<flagVars, accountVars, sess, frontVars, alive, job, tradeVars, reportVars,
                 overtaken>>

\* Stop logs out when the source is online.
StopBegin(x) ==
  /\ Enters(x, "stop", IF online THEN "logout" ELSE "release")
  /\ pending' = TRUE
  /\ fault' = (online /\ ~api)
  /\ UNCHANGED <<online, api, accountVars, sess, frontVars, alive, job, spc, reportVars>>

\* (mutant) the wait for the answer has no timeout.
StopAnswered(x) ==
  /\ link = "loggedin"
  /\ Goto(x, "logout", "release")
  /\ UNCHANGED <<flagVars, accountVars, sess, frontVars, alive, job, tradeVars, reportVars,
                 overtaken, fault>>

\* The answer has come or ten seconds are over; the request may also fail.
StopLoggedOut(x) ==
  /\ Goto(x, "logout", "release")
  /\ UNCHANGED <<flagVars, accountVars, sess, frontVars, alive, job, tradeVars, reportVars,
                 overtaken, fault>>

\* (mutant) the pointer is reset before the object is released.
StopResetFirst(x) ==
  /\ Goto(x, "release", "flag")
  /\ api' = FALSE /\ SessionLost
  /\ UNCHANGED <<online, pending, accountVars, sess, login, orders, alive, job, tradeVars,
                 reportVars, overtaken, fault>>

StopRelease(x) ==
  /\ Goto(x, "release", IF api THEN "releasing" ELSE "flag")
  /\ UNCHANGED <<flagVars, accountVars, sess, frontVars, alive, job, tradeVars, reportVars,
                 overtaken, fault>>

\* Release waits for the callback that is under way.
Released(x) ==
  /\ Goto(x, "releasing", "flag")
  /\ cpc = "idle"
  /\ fault' = ~api
  /\ api' = FALSE
  /\ SessionLost
  /\ UNCHANGED <<online, pending, accountVars, sess, login, orders, alive, job, tradeVars,
                 reportVars, overtaken>>

Offline(x) ==
  /\ pc[x] = "flag"
  /\ online' = FALSE
  /\ Leaves(x, TRUE)
  /\ UNCHANGED <<api, accountVars, sess, frontVars, alive, tradeVars, reportVars,
                 overtaken, fault>>

-----------------------------------------------------------------------------
(* TDHotUpdate and TDUnload *)

\* (mutant) the host does not own the strategy array.
HotUpdateUnlocked ==
  /\ alive /\ info.sent < MaxConfig /\ ~pending
  /\ Goto("handler", "idle", "info") /\ job' = "update"
  /\ UNCHANGED <<flagVars, accountVars, sess, frontVars, alive, tradeVars, reportVars,
                 overtaken, fault>>

\* The host owns the strategy array and finds the source not pending.
HotUpdateBegin ==
  /\ alive /\ info.sent < MaxConfig /\ ~pending /\ ~ArrayShared
  /\ Goto("handler", "idle", "info") /\ job' = "update"
  /\ UNCHANGED <<flagVars, accountVars, sess, frontVars, alive, tradeVars, reportVars,
                 overtaken, fault>>

\* UpdateAccountInfo assigns a field, then checks it: a configuration that is
\* refused has changed the server, the server and the password, or nothing.
\* Broker and user are the key by which the host has found the source.
UpdateAccountInfo ==
  /\ LET new == info.sent + 1 IN
     /\ new <= MaxConfig
     /\ \/ /\ info' = [server |-> new, password |-> new, sent |-> new]
           /\ Goto("handler", "info", "updated") /\ UNCHANGED <<job, mixed>>
        \/ /\ \E p \in {info.password, new} :
                info' = [server |-> new, password |-> p, sent |-> new]
           /\ Goto("handler", "info", "idle") /\ job' = "none" /\ mixed' = TRUE
        \/ /\ info' = [info EXCEPT !.sent = new]
           /\ Goto("handler", "info", "idle") /\ job' = "none" /\ UNCHANGED mixed
  /\ UNCHANGED <<flagVars, account, sess, frontVars, alive, tradeVars, reportVars,
                 overtaken, fault>>

\* (mutant) an online source is not restarted.
HotUpdateKeepsSession ==
  /\ Goto("handler", "updated", "idle") /\ job' = "none"
  /\ mixed' = (mixed \/ (~online /\ api))
  /\ UNCHANGED <<flagVars, info, account, sess, frontVars, alive, tradeVars, reportVars,
                 overtaken, fault>>

\* An online source is restarted.  One that is not goes on with the object it
\* has, if any: that object knows the old server and will be given the new
\* password.
HotUpdateRestart ==
  /\ IF online THEN Goto("handler", "updated", "stop") /\ UNCHANGED job /\ mixed' = FALSE
     ELSE Goto("handler", "updated", "idle") /\ job' = "none" /\ mixed' = (mixed \/ api)
  /\ UNCHANGED <<flagVars, info, account, sess, frontVars, alive, tradeVars, reportVars,
                 overtaken, fault>>

\* The host unloads a source that is not pending and that no strategy uses.
UnloadBegin ==
  /\ alive /\ ~pending /\ \A s \in Trader : spc[s] = "idle"
  /\ Goto("handler", "idle", "stop") /\ job' = "unload"
  /\ UNCHANGED <<flagVars, accountVars, sess, frontVars, alive, tradeVars, reportVars,
                 overtaken, fault>>

\* The timer is cancelled and its thread joined; the object is destroyed.
UnloadEnd ==
  /\ Goto("handler", "join", "idle") /\ pc["timer"] = "idle"
  /\ alive' = FALSE /\ job' = "none"
  /\ UNCHANGED <<flagVars, accountVars, sess, frontVars, tradeVars, reportVars,
                 overtaken, fault>>

-----------------------------------------------------------------------------
(* Orders *)

\* TDBasicMakeOrder and TDBasicCancelOrder first ask whether the source is
\* online ...
OrderCheck(s) ==
  /\ spc[s] = "idle" /\ alive /\ job # "unload" /\ online
  /\ IF s = "tick" THEN ~ArrayOwned ELSE cpc = "report"
  /\ spc' = [spc EXCEPT ![s] = "request"]
  /\ met' = IF pc["timer"] = "idle" THEN met \ {s} ELSE met \cup {s}
  /\ UNCHANGED <<flagVars, accountVars, sess, frontVars, alive, pc, job, reportVars,
                 overtaken, fault>>

\* ... then use the pointer.  The request fails or reaches the front.
OrderRequest(s) ==
  /\ spc[s] = "request"
  /\ spc' = [spc EXCEPT ![s] = "idle"]
  /\ fault' = ~api
  /\ \/ UNCHANGED orders
     \/ \E o \in OrderId :
          /\ api /\ link = "loggedin" /\ orders[o].state = "none"
          /\ \A p \in 1 .. (o - 1) : orders[p].state # "none"
          /\ orders' = [orders EXCEPT ![o] = [state |-> "working", session |-> login]]
  /\ UNCHANGED <<flagVars, accountVars, sess, link, login, rtn, alive, pc, job, met, reportVars,
                 overtaken>>

\* The exchange trades, cancels or refuses an order.  A refusal is answered
\* with OnRspOrderInsert, which only writes to the log.
ExchangeEnds(o, how) ==
  /\ orders[o].state = "working"
  /\ orders' = [orders EXCEPT ![o].state = how]
  /\ rtn' = IF link # "loggedin" THEN rtn
            ELSE rtn \o CASE how = "traded"   -> <<[kind |-> "order", ref |-> o],
                                                   [kind |-> "trade", ref |-> o]>>
                          [] how = "canceled" -> <<[kind |-> "order", ref |-> o]>>
                          [] how = "refused"  -> <<>>
  /\ UNCHANGED <<flagVars, accountVars, sess, link, login, alive, pc, job, tradeVars, reportVars,
                 overtaken, fault>>

-----------------------------------------------------------------------------
(* The callback thread *)

\* OnFrontConnected asks for a login with the password of the moment.
OnFrontConnected ==
  /\ Listening /\ cpc = "idle" /\ link = "down"
  /\ link' = "connected"
  /\ account' = [account EXCEPT !.password = info.password]
  /\ UNCHANGED <<flagVars, info, mixed, sess, login, orders, rtn, alive, pc, job, tradeVars,
                 reportVars, overtaken, fault>>

OnFrontDisconnected ==
  /\ Listening /\ cpc = "idle" /\ link # "down"
  /\ link' = "down" /\ online' = FALSE /\ UNCHANGED rtn
  /\ UNCHANGED <<api, pending, accountVars, sess, login, orders, alive, pc, job, tradeVars,
                 reportVars, overtaken, fault>>

\* The login or the confirmation of the settlement is refused or not sent.
LoginFailed ==
  /\ Listening /\ cpc = "idle" /\ link \in {"connected", "confirm"}
  /\ link' = "refused" /\ online' = FALSE
  /\ UNCHANGED <<api, pending, accountVars, sess, login, orders, rtn, alive, pc, job, tradeVars,
                 reportVars, overtaken, fault>>

\* (mutant) the session is not stored.
LoginForgetsSession ==
  /\ Listening /\ cpc = "idle" /\ link = "connected" /\ login < MaxLogin
  /\ link' = "confirm" /\ login' = login + 1
  /\ UNCHANGED <<flagVars, accountVars, sess, orders, rtn, alive, pc, job, tradeVars, reportVars,
                 overtaken, fault>>

\* OnRspUserLogin stores the session and confirms the settlement.
OnRspUserLogin ==
  /\ Listening /\ cpc = "idle" /\ link = "connected" /\ login < MaxLogin
  /\ link' = "confirm" /\ login' = login + 1 /\ sess' = login'
  /\ UNCHANGED <<flagVars, accountVars, orders, rtn, alive, pc, job, tradeVars, reportVars,
                 overtaken, fault>>

OnRspSettlementInfoConfirm ==
  /\ Listening /\ cpc = "idle" /\ link = "confirm"
  /\ link' = "loggedin" /\ online' = TRUE
  /\ UNCHANGED <<api, pending, accountVars, sess, login, orders, rtn, alive, pc, job, tradeVars,
                 reportVars, overtaken, fault>>

\* OnRtnOrder leaves out what belongs to another session, OnRtnTrade does
\* not; the host waits for the strategy array.
OnRtn ==
  /\ Listening /\ cpc = "idle" /\ rtn # <<>>
  /\ rtn' = Tail(rtn)
  /\ IF Head(rtn).kind = "order" /\ orders[Head(rtn).ref].session # sess
       THEN UNCHANGED <<cpc, cur>> ELSE cpc' = "wait" /\ cur' = Head(rtn)
  /\ UNCHANGED <<flagVars, accountVars, sess, link, login, orders, heard, alive, pc, job, tradeVars,
                 overtaken, fault>>

\* The host has the array and calls the strategy ...
ReportEnter ==
  /\ cpc = "wait" /\ ~ArrayOwned
  /\ cpc' = "report"
  /\ heard' = [heard EXCEPT ![cur.ref] = @ \cup {cur.kind}]
  /\ UNCHANGED <<flagVars, accountVars, sess, frontVars, alive, pc, job, tradeVars, cur,
                 overtaken, fault>>

\* ... which returns when it has placed its orders.
ReportLeave ==
  /\ cpc = "report" /\ spc["report"] = "idle"
  /\ cpc' = "idle" /\ cur' = NoReport
  /\ UNCHANGED <<flagVars, accountVars, sess, frontVars, alive, pc, job, tradeVars, heard,
                 overtaken, fault>>

-----------------------------------------------------------------------------
Start(x) == StartBegin(x) \/ StartReplace(x) \/ StartCreate(x) \/ StartCheck(x) \/ StartGiveUp(x)
Stop(x)  == StopBegin(x) \/ StopLoggedOut(x) \/ StopRelease(x) \/ Released(x) \/ Offline(x)
Handler  == StartOnline \/ UpdateAccountInfo \/ HotUpdateRestart \/ UnloadEnd
Callback == ReportEnter \/ ReportLeave
Front    == OnFrontConnected \/ OnFrontDisconnected \/ LoginFailed \/ OnRspUserLogin
            \/ OnRspSettlementInfoConfirm

Next ==
  /\ ~fault
  /\ \/ \E x \in Thread : Start(x) \/ Stop(x)
     \/ Handler \/ HotUpdateBegin \/ UnloadBegin
     \/ Front \/ OnRtn \/ Callback
     \/ \E s \in Trader : OrderCheck(s) \/ OrderRequest(s)
     \/ \E o \in OrderId, how \in {"traded", "canceled", "refused"} : ExchangeEnds(o, how)

Spec == Init /\ [][Next]_vars

\* A thread inside a handler or a callback goes on, and reports are handed
\* over; nothing makes the clock, the front or the operator do something.
Fairness ==
  /\ \A x \in Thread : WF_vars(~fault /\ pc[x] # "idle" /\ (Start(x) \/ Stop(x)))
  /\ \A x \in Thread : SF_vars(~fault /\ (StartReplace(x) \/ Released(x)))
  /\ WF_vars(~fault /\ Handler)
  /\ WF_vars(~fault /\ Callback) /\ WF_vars(~fault /\ OnRtn)
  /\ WF_vars(~fault /\ \E s \in Trader : OrderRequest(s))

FairSpec == Spec /\ Fairness

-----------------------------------------------------------------------------
(* Properties *)

\* Every variable has its type; the stored session is that of the login, and
\* the host is told only of orders that were placed.
TypeOK ==
  /\ online \in BOOLEAN /\ api \in BOOLEAN /\ pending \in BOOLEAN
  /\ info \in [server : 0 .. MaxConfig, password : 0 .. MaxConfig, sent : 0 .. MaxConfig]
  /\ account \in [server : 0 .. MaxConfig, password : 0 .. MaxConfig] /\ mixed \in BOOLEAN
  /\ sess \in 0 .. MaxLogin /\ login \in 0 .. MaxLogin
  /\ link \in {"down", "connected", "refused", "confirm", "loggedin"}
  /\ orders \in [OrderId -> [state : {"none", "working", "traded", "canceled", "refused"},
                             session : 0 .. MaxLogin]]
  /\ rtn \in Seq(Report) /\ heard \in [OrderId -> SUBSET {"order", "trade"}]
  /\ alive \in BOOLEAN /\ job \in {"none", "update", "start", "unload"}
  /\ pc \in [Thread -> {"idle", "replace", "create", "wait", "giveup", "stop", "logout",
                        "release", "releasing", "flag", "info", "updated", "restart", "join"}]
  /\ spc \in [Trader -> {"idle", "request"}] /\ met \subseteq Trader
  /\ cpc \in {"idle", "wait", "report"} /\ cur \in Report \cup {NoReport}
  /\ overtaken \in BOOLEAN /\ fault \in BOOLEAN
  /\ sess = login /\ (link # "down" => api)
  /\ \A o \in OrderId : orders[o].state = "none" => heard[o] = {}

\* A session trades with the server and the password of one configuration,
\* unless a configuration was refused half way or came while the API object
\* of a source that was not online was still trying to log in.
AccountWhole ==
  online /\ link = "loggedin" /\ pc["handler"] = "idle" =>
    account.server = account.password \/ mixed

\* The API pointer is misused only when the timer goes off during the work of
\* a handler, or by an order placed in a tick that met the timer: the timer
\* went off between the two steps of the order, or was at work in Start or
\* Stop already when the order began.  Neither a hot update nor an unload
\* alone can take the object from under an order.
CrashOnlyByTimer ==
  [][fault' => overtaken' \/ ("tick" \in met /\ spc["tick"] = "request")]_vars

\* An order that is placed from a report is safe from the timer as well,
\* because Release waits for the report.
ReportTradesSafely ==
  [][spc["report"] = "request" /\ spc'["report"] = "idle" => ~fault']_vars

\* The strategy hears of a trade without having heard how the order ended
\* only after a new login.
TradeOfKnownOrder ==
  cpc = "report" /\ cur.kind = "trade" =>
    "order" \in heard[cur.ref] \/ orders[cur.ref].session # login

\* A source that was unloaded leaves no API object that could call it,
\* unless the timer had gone off during the unload.
UnloadedHasNoApi == ~alive => ~api \/ overtaken

(***************************************************************************)
(* The inductive invariant.                                                *)
(***************************************************************************)

\* What the handler is doing where it is, and that the timer and a job are at
\* work at the same time only when the timer has overtaken the job.
JobInv ==
  /\ pc["timer"] \notin {"info", "updated", "stop", "restart", "join"}
  /\ job = "none" <=> pc["handler"] = "idle"
  /\ pc["handler"] \in {"info", "updated"} => job = "update"
  /\ pc["handler"] \in {"restart", "replace", "create", "wait", "giveup"} => job = "start"
  /\ pc["handler"] = "join" => job = "unload"
  /\ ~alive => \A x \in Thread : pc[x] = "idle"
  /\ ~overtaken /\ pc["timer"] # "idle" => pending /\ job = "none"

\* Where a thread relies on the API pointer.  A callback under way keeps the
\* object alive; a strategy that trades in a tick has nothing but the flag.
ObjectInv ==
  /\ cpc # "idle" => api
  /\ spc["report"] = "request" => cpc = "report"
  /\ ~overtaken =>
       /\ online /\ ~api => \E x \in Thread : pc[x] \in {"flag", "create"}
       /\ \A x \in Thread : /\ pc[x] = "create" => ~api
                            /\ pc[x] \in {"wait", "giveup", "releasing"} => api
       /\ job = "unload" /\ pc["handler"] \in {"flag", "join"} => ~api
       /\ ~alive => ~api
       /\ spc["tick"] = "request" /\ "tick" \notin met =>
            api /\ job = "none" /\ pc["timer"] = "idle"

\* The object was given the configuration of the members, unless that was
\* mixed or a hot update is about to release the object.
AccountInv ==
  /\ (~mixed \/ pc["handler"] = "updated") => info.server = info.password
  /\ \/ mixed \/ ~api
     \/ job = "update" /\ pc["handler"] \in {"updated", "stop", "logout", "release", "releasing"}
     \/ /\ account.server = info.server
        /\ link = "down" \/ account.password = info.password

\* The reports on their way are of orders that were placed, and in front of
\* that of a trade is that of its order, or the strategy has heard of it.
Known(o) == "order" \in heard[o] \/ orders[o].session # login

ReportInv ==
  /\ \A o \in OrderId : orders[o].session <= login
  /\ \A i \in DOMAIN rtn :
       /\ orders[rtn[i].ref].state # "none"
       /\ rtn[i].kind = "trade" =>
            \/ Known(rtn[i].ref)
            \/ cpc = "wait" /\ cur = [kind |-> "order", ref |-> rtn[i].ref]
            \/ \E j \in 1 .. i - 1 : rtn[j] = [kind |-> "order", ref |-> rtn[i].ref]
  /\ cpc # "idle" =>
       /\ cur \in Report /\ orders[cur.ref].state # "none"
       /\ cur.kind = "trade" => Known(cur.ref)

IInv == TypeOK /\ JobInv /\ ObjectInv /\ AccountInv /\ ReportInv

\* The callback waits for the array of a hot update that waits for the
\* callback: neither ever goes on.
Stuck ==
  /\ cpc = "wait" /\ ArrayOwned
  /\ pc["handler"] = "releasing" \/ (pc["handler"] = "replace" /\ api)

\* A hot update or an unload ends, whatever the front answers, but for a
\* report that has come too late to be let in.
HandlerEnds == job # "none" ~> job = "none" \/ fault \/ Stuck

\* The end of an order reaches the strategy unless the order was refused or
\* its session is gone.
EndsAreTold ==
  \A o \in OrderId :
    (\E i \in DOMAIN rtn : rtn[i] = [kind |-> "order", ref |-> o]) ~>
      "order" \in heard[o] \/ orders[o].session # login \/ ~Listening \/ fault
=============================================================================
