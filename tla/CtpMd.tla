-------------------------------- MODULE CtpMd --------------------------------
(***************************************************************************)
(* A CTP market data source (trade/md_plugins/CTP_FUTURE_MDPlugin).        *)
(* Four kinds of threads meet in it:                                       *)
(*   timer    runs TimerHandler, which by the time of day calls Start or   *)
(*            Stop;                                                        *)
(*   handler  a net thread in MDHotUpdate: MDUnload, which calls Stop, and *)
(*            MDInit; the host then owns the vector of sources, so that    *)
(*            no strategy is attached or detached meanwhile;               *)
(*   other net threads, which attach and detach strategies;                *)
(*   the callback thread of the API object, which calls the plugin for     *)
(*            connections, logins and ticks, one after the other.          *)
(* The instrument map m_mapInsid2Strategys is behind a shared_mutex, the   *)
(* online flag and the API pointer behind nothing.  The library of the     *)
(* exchange is external: RegisterSpi(nullptr) ends its calls, and Release  *)
(* waits for the one that is under way.                                    *)
(***************************************************************************)
EXTENDS Naturals, FiniteSets

CONSTANTS
  Instrument,
  Strategy,
  MaxConfig    \* bound: hot updates that succeed

ASSUME CtpMdAssumption == MaxConfig \in Nat

VARIABLES
  watch,      \* [Instrument -> SUBSET Strategy]: the strategies of a node
  nodes,      \* the instruments that have a node in the map
  online,     \* m_boolIsOnline
  api,        \* m_pUserApi is not null
  cfg,        \* the configuration of the members, numbered
  alive,      \* m_futTimerThreadFuture is valid: a timer thread runs
  link,       \* the connection of the API object with the front
  account,    \* the configuration the last login was sent with
  sub,        \* instruments the front has been told to send
  late,       \* instruments unsubscribed of which a tick is still queued
  pc,         \* where the timer and the handler are
  cpc,        \* where the callback thread is
  ghost,      \* history: nodes a tick has created
  overtaken,  \* history: the timer went off during a hot update
  fault       \* the null API pointer was used: the process crashes

mapVars  == <<watch, nodes, ghost>>
linkVars == <<link, sub, late, account>>
vars == <<mapVars, linkVars, online, api, cfg, alive, pc, cpc, overtaken, fault>>

Thread == {"timer", "handler"}

\* m_abIsPending, as seen by a handler that has the source for itself.
IsPedding == pc["timer"] # "idle"

\* The map is owned shared by a tick that is delivered and by Stop.
MapShared == cpc = "tick" \/ \E x \in Thread : pc[x] = "unsub"

Init ==
  /\ watch = [i \in Instrument |-> {}] /\ nodes = {} /\ ghost = {}
  /\ online = FALSE /\ api = FALSE /\ cfg = 0 /\ alive = TRUE
  /\ link = "down" /\ account = 0 /\ sub = {} /\ late = {}
  /\ pc = [x \in Thread |-> "idle"] /\ cpc = "idle"
  /\ overtaken = FALSE /\ fault = FALSE

Goto(x, from, to) == pc[x] = from /\ pc' = [pc EXCEPT ![x] = to]

\* A call of the API object: through a null pointer it crashes, and it
\* reaches the front only on a session that is logged in.
Calls(newSub, newLate) ==
  /\ fault' = ~api
  /\ IF api /\ link = "loggedin" THEN sub' = newSub /\ late' = newLate
                                 ELSE UNCHANGED <<sub, late>>
NoCall == UNCHANGED <<sub, late, fault>>

\* The session is gone with everything it was told.
SessionLost == link' = "down" /\ sub' = {} /\ late' = {}

-----------------------------------------------------------------------------
(* The timer thread: TimerHandler and Start *)

\* The timer goes off unless the thread was told to end.
TimerMayFire ==
  /\ alive /\ pc["handler"] # "join"
  /\ overtaken' = (overtaken \/ pc["handler"] # "idle")

\* Start creates an API object unless the source is online; one that is left
\* from a session that failed to log in again is released by the assignment.
StartCreate ==
  /\ Goto("timer", "idle", "wait")
  /\ TimerMayFire
  /\ ~online /\ (api => cpc = "idle")
  /\ api' = TRUE
  /\ SessionLost
  /\ UNCHANGED <<mapVars, account, online, cfg, alive, cpc, fault>>

\* (mutant) the wait has no timeout.
StartCheckWhenOnline ==
  /\ online
  /\ Goto("timer", "wait", "idle")
  /\ UNCHANGED <<mapVars, linkVars, online, api, cfg, alive, cpc, overtaken, fault>>

\* The login was signalled or ten seconds are over.
StartCheck ==
  /\ Goto("timer", "wait", IF online THEN "idle" ELSE "giveup")
  /\ UNCHANGED <<mapVars, linkVars, online, api, cfg, alive, cpc, overtaken, fault>>

\* Start gives the session up; it does not expect somebody else to have
\* reset the pointer.
StartGiveUp ==
  /\ Goto("timer", "giveup", "offline")
  /\ fault' = ~api
  /\ api' = FALSE
  /\ SessionLost
  /\ UNCHANGED <<mapVars, account, online, cfg, alive, cpc, overtaken>>

-----------------------------------------------------------------------------
(* Stop, by the timer or by MDUnload *)

StopBegin(x) ==
  /\ \/ x = "timer" /\ TimerMayFire /\ Goto(x, "idle", IF online THEN "unsub" ELSE "reset")
     \/ /\ x = "handler" /\ UNCHANGED overtaken
        /\ Goto(x, "stop", IF online THEN "unsub" ELSE "reset")
  /\ UNCHANGED <<mapVars, linkVars, online, api, cfg, alive, cpc, fault>>

\* Every instrument of the map is unsubscribed.
StopUnsub(x) ==
  /\ Goto(x, "unsub", "reset")
  /\ Calls(sub \ nodes, late \cup (sub \cap nodes))
  /\ UNCHANGED <<mapVars, link, account, online, api, cfg, alive, cpc, overtaken>>

StopReset(x) ==
  /\ Goto(x, "reset", "offline")
  /\ api' = FALSE
  /\ SessionLost
  /\ UNCHANGED <<mapVars, account, online, cfg, alive, cpc, overtaken, fault>>

\* (mutant) the flag is not reset.
StaysOnline(x) ==
  /\ cpc = "idle"
  /\ Goto(x, "offline", IF x = "timer" THEN "idle" ELSE "join")
  /\ UNCHANGED <<mapVars, linkVars, online, api, cfg, alive, cpc, overtaken, fault>>

\* The object is released and the flag is reset.
Offline(x) ==
  /\ cpc = "idle"
  /\ Goto(x, "offline", IF x = "timer" THEN "idle" ELSE "join")
  /\ online' = FALSE
  /\ UNCHANGED <<mapVars, linkVars, api, cfg, alive, cpc, overtaken, fault>>

-----------------------------------------------------------------------------
(* MDHotUpdate *)

\* (mutant) MDUnload does not call Stop.
HotUpdateKeepsSession ==
  /\ ~IsPedding
  /\ Goto("handler", "idle", "join")
  /\ UNCHANGED <<mapVars, linkVars, online, api, cfg, alive, cpc, overtaken, fault>>

\* The host asks IsPedding, then MDUnload begins with Stop.
HotUpdateBegin ==
  /\ ~IsPedding
  /\ Goto("handler", "idle", "stop")
  /\ UNCHANGED <<mapVars, linkVars, online, api, cfg, alive, cpc, overtaken, fault>>

\* The timer thread is joined through its future and MDInit reads the new
\* configuration.  When that is refused no thread is started, and from then
\* on MDUnload throws because the future is not valid.
HotUpdateEnd ==
  /\ Goto("handler", "join", "idle")
  /\ alive => pc["timer"] = "idle"
  /\ \/ alive /\ cfg < MaxConfig /\ cfg' = cfg + 1 /\ UNCHANGED alive
     \/ alive' = FALSE /\ UNCHANGED cfg
  /\ UNCHANGED <<mapVars, linkVars, online, api, cpc, overtaken, fault>>

-----------------------------------------------------------------------------
(* The callback thread *)

\* OnFrontConnected asks for a login with the members of the moment.
FrontConnected ==
  /\ api /\ cpc = "idle" /\ link = "down"
  /\ link' = "connected" /\ account' = cfg
  /\ UNCHANGED <<mapVars, sub, late, online, api, cfg, alive, pc, cpc, overtaken, fault>>

\* The link fails; OnFrontDisconnected only reports it.
Disconnect ==
  /\ link # "down"
  /\ SessionLost
  /\ UNCHANGED <<mapVars, account, online, api, cfg, alive, pc, cpc, overtaken, fault>>

LoginFail ==
  /\ cpc = "idle" /\ link = "connected"
  /\ link' = "refused" /\ online' = FALSE
  /\ UNCHANGED <<mapVars, sub, late, account, api, cfg, alive, pc, cpc, overtaken, fault>>

\* OnRspUserLogin sets the flag ...
LoginOk ==
  /\ cpc = "idle" /\ link = "connected"
  /\ link' = "loggedin" /\ online' = TRUE /\ cpc' = "subscribe"
  /\ UNCHANGED <<mapVars, sub, late, account, api, cfg, alive, pc, overtaken, fault>>

\* ... and subscribes to every instrument of the map.
LoginSubscribe ==
  /\ cpc = "subscribe"
  /\ cpc' = "idle"
  /\ IF nodes = {} THEN NoCall ELSE Calls(sub \cup nodes, late)
  /\ ghost' = {}
  /\ UNCHANGED <<watch, nodes, link, account, online, api, cfg, alive, pc, overtaken>>

\* A tick finds the node of its instrument with operator[], which creates
\* one where there is none, although the map is only shared.
TickEnter(i) ==
  /\ cpc = "idle" /\ link = "loggedin" /\ api
  /\ i \in sub \cup late
  /\ cpc' = "tick"
  /\ nodes' = nodes \cup {i}
  /\ ghost' = ghost \cup ({i} \ nodes)
  /\ late' = late \ {i}
  /\ UNCHANGED <<watch, link, sub, account, online, api, cfg, alive, pc, overtaken, fault>>

TickLeave ==
  /\ cpc = "tick" /\ cpc' = "idle"
  /\ UNCHANGED <<mapVars, linkVars, online, api, cfg, alive, pc, overtaken, fault>>

-----------------------------------------------------------------------------
(* MDAttachStrategy and MDDetachStrategy own the map. *)

\* (mutant) the node is filled but not subscribed.
AttachSilently(s, i) ==
  /\ ~MapShared /\ pc["handler"] = "idle"
  /\ watch' = [watch EXCEPT ![i] = @ \cup {s}] /\ nodes' = nodes \cup {i}
  /\ NoCall
  /\ UNCHANGED <<ghost, link, account, online, api, cfg, alive, pc, cpc, overtaken>>

\* The first strategy of an instrument subscribes to it.
Attach(s, i) ==
  /\ ~MapShared /\ pc["handler"] = "idle"
  /\ s \notin watch[i]
  /\ watch' = [watch EXCEPT ![i] = @ \cup {s}]
  /\ nodes' = nodes \cup {i}
  /\ IF i \notin nodes /\ online THEN Calls(sub \cup {i}, late \ {i}) ELSE NoCall
  /\ UNCHANGED <<ghost, link, account, online, api, cfg, alive, pc, cpc, overtaken>>

\* The instruments only this strategy watches.
Lonely(s) == {i \in Instrument : watch[i] = {s}}

\* The last strategy of an instrument unsubscribes it.
Detach(s) ==
  /\ ~MapShared /\ pc["handler"] = "idle"
  /\ \E i \in Instrument : s \in watch[i]
  /\ watch' = [i \in Instrument |-> watch[i] \ {s}]
  /\ nodes' = nodes \ Lonely(s) /\ ghost' = ghost \ Lonely(s)
  /\ IF Lonely(s) # {} /\ online
       THEN Calls(sub \ Lonely(s), late \cup (sub \cap Lonely(s))) ELSE NoCall
  /\ UNCHANGED <<link, account, online, api, cfg, alive, pc, cpc, overtaken>>

-----------------------------------------------------------------------------
Timer    == StartCreate \/ StartCheck \/ StartGiveUp
Stop(x)  == StopBegin(x) \/ StopUnsub(x) \/ StopReset(x) \/ Offline(x)
Callback == \/ FrontConnected \/ Disconnect \/ LoginFail \/ LoginOk \/ LoginSubscribe
            \/ (\E i \in Instrument : TickEnter(i)) \/ TickLeave

Next ==
  /\ ~fault
  /\ \/ Timer \/ (\E x \in Thread : Stop(x)) \/ HotUpdateBegin \/ HotUpdateEnd
     \/ Callback
     \/ \E s \in Strategy : Detach(s) \/ \E i \in Instrument : Attach(s, i)

Spec == Init /\ [][Next]_vars

\* A thread inside a handler goes on; nothing makes the clock, the link, the
\* front or the operator do something.
Fairness ==
  /\ WF_vars(~fault /\ (StartCheck \/ StartGiveUp))
  /\ \A x \in Thread : WF_vars(~fault /\ pc[x] # "idle" /\ Stop(x))
  /\ WF_vars(~fault /\ HotUpdateEnd)
  /\ WF_vars(~fault /\ (LoginSubscribe \/ TickLeave))
  /\ \A x \in Thread : SF_vars(~fault /\ Offline(x))

FairSpec == Spec /\ Fairness

-----------------------------------------------------------------------------
(* Properties *)

\* Every variable has its type, and a strategy watches only what has a node.
TypeOK ==
  /\ watch \in [Instrument -> SUBSET Strategy]
  /\ \A i \in Instrument : watch[i] # {} => i \in nodes
  /\ nodes \subseteq Instrument /\ ghost \subseteq nodes
  /\ online \in BOOLEAN /\ api \in BOOLEAN /\ cfg \in 0 .. MaxConfig /\ alive \in BOOLEAN
  /\ link \in {"down", "connected", "refused", "loggedin"} /\ account \in 0 .. MaxConfig
  /\ sub \subseteq Instrument /\ late \subseteq Instrument
  /\ pc \in [Thread -> {"idle", "wait", "giveup", "stop", "unsub", "reset", "offline", "join"}]
  /\ cpc \in {"idle", "subscribe", "tick"}
  /\ overtaken \in BOOLEAN /\ fault \in BOOLEAN

Stopping == \E x \in Thread : pc[x] \in {"unsub", "reset", "offline"}

\* A source that is logged in and online is subscribed to what its
\* strategies watch, whatever was attached during the login, a lost link or
\* a failed one; except for an instrument whose node was created by a tick
\* that came after the last strategy had left.
Coverage ==
  online /\ link = "loggedin" /\ cpc # "subscribe" /\ ~Stopping =>
    \A i \in Instrument : watch[i] # {} => i \in sub \cup ghost

\* It is subscribed to nothing that has no node, so each tick that does not
\* come late finds its node.
SubscribedHasNode == online /\ link = "loggedin" => sub \subseteq nodes

\* The source says it is online without an API object only between the
\* reset of the pointer and that of the flag.
OnlineMeansApi == online /\ ~api => \E x \in Thread : pc[x] = "offline"

\* The null pointer is used only in that window, or by a Start whose object
\* a hot update has released.
NullOnlyInWindow ==
  [][fault' => overtaken \/ \E x \in Thread : pc[x] = "offline"]_vars

\* After a hot update the source is online with the new configuration only,
\* unless the timer has gone off between IsPedding and MDInit.
OnlineWithNewConfig ==
  online /\ pc["handler"] = "idle" /\ link = "loggedin" => account = cfg \/ overtaken

(***************************************************************************)
(* The inductive invariant.                                                *)
(***************************************************************************)

\* The front knows an API object and the account it was given, and only in a
\* session what it is to send.  Who has reset the pointer under a login waits
\* for the login.  In a session each node is subscribed or was made by a tick.
SessionInv ==
  /\ link # "down" => api /\ (account = cfg \/ overtaken)
  /\ link # "loggedin" => sub = {}
  /\ cpc = "subscribe" /\ ~api => \E x \in Thread : pc[x] = "offline"
  /\ online /\ link = "loggedin" /\ cpc # "subscribe" /\ ~Stopping => nodes \subseteq sub \cup ghost

\* The timer and a hot update are at work at the same time only when the timer
\* has overtaken it; otherwise each relies on the API pointer.
WorkInv ==
  /\ pc["timer"] \in {"idle", "wait", "giveup", "unsub", "reset", "offline"}
  /\ pc["handler"] \in {"idle", "stop", "unsub", "reset", "offline", "join"}
  /\ ~overtaken =>
       /\ pc["timer"] = "idle" \/ pc["handler"] = "idle"
       /\ pc["handler"] \in {"offline", "join"} => ~api
       /\ pc["timer"] \in {"wait", "giveup"} => api
       /\ \A x \in Thread : pc[x] = "unsub" => api

IInv == TypeOK /\ OnlineMeansApi /\ SubscribedHasNode /\ SessionInv /\ WorkInv

\* A source whose new configuration was refused is left without an API object
\* and without a session, and never has one again.  When the timer has gone off
\* during an update this does not hold: the object it has created may be left
\* behind, and connects and logs in by itself.
RefusedIsDead == ~alive /\ ~overtaken => ~api /\ ~online /\ link = "down"

\* A hot update ends, also when the timer waits for a login that never comes.
HotUpdateEnds == pc["handler"] # "idle" ~> pc["handler"] = "idle" \/ fault

=============================================================================
