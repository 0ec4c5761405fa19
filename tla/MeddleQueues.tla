---------------------------- MODULE MeddleQueues ----------------------------
(***************************************************************************)
(* The two queues of a strategy in the host: the commands an operator      *)
(* sends to it (ReqMeddle, GetNextMeddle) and its responses                *)
(* (MeddleResponse, ReqGetMeddleResponse).  Each queue has a mutex of its  *)
(* own, but CStrategyNode::clear() takes neither: it relies on the lock ST *)
(* of the array of strategies, which DeployStrategy owns exclusively and   *)
(* CancelStrategy only shares with those who use the queues.               *)
(*                                                                         *)
(* One slot of the array, and in it one strategy after another, each with  *)
(* a number.  A call that only tries to take a lock, and finds it taken,   *)
(* returns false and changes nothing, as one that finds no strategy or an  *)
(* empty queue.  A race on a queue has the effect of its two operations,   *)
(* one after the other.                                                    *)
(***************************************************************************)
EXTENDS Naturals, Sequences, FiniteSets

CONSTANTS
  Net,          \* the threads that handle requests
  Report,       \* the threads of the trade sources
  Tick,         \* the thread of the market data source
  BatchSize,    \* the responses that one request gets at most
  MaxDeploy,    \* bound on the strategies in the slot
  MaxSent,      \* bound on the commands for each of them
  MaxSaid       \* bound on the responses of each of them

Thread == Net \cup Report \cup {Tick}

ASSUME MeddleAssumption ==
  /\ IsFiniteSet(Thread)
  /\ BatchSize \in Nat \ {0} /\ MaxDeploy \in Nat /\ MaxSent \in Nat /\ MaxSaid \in Nat
  /\ Tick \notin Net \cup Report /\ Net \cap Report = {}

VARIABLES
  strategy,     \* m_pStrategy: the number of the strategy, 0 for none
  deployed,     \* the number of the last one
  attached,     \* whether the market data source calls the strategy
  pc,           \* what each thread does, see PC
  meddles,      \* m_queueMeddleQueue
  responses,    \* m_queueMeddleResponseQueue
  sent,         \* how many commands for the last strategy were accepted,
  taken,        \* ... and how many of them it took from the queue
  said,         \* how many responses of it were put into the queue,
  fetched       \* ... and how many of them an operator got

vars == <<strategy, deployed, attached, pc, meddles, responses, sent, taken, said, fetched>>
slot == <<strategy, deployed, attached>>
commands == <<meddles, sent, taken>>
answers == <<responses, said, fetched>>

\* The states of a thread.  One in Shares shares the lock ST.
Meddling == {"push", "take"}          \* owns m_mtxPropectMeddleQueue
Responding == {"say", "fetch"}        \* owns m_mtxPropectMeddleResponseQueue
Clearing == {"clearMeddles", "clearResponses"}
Shares == Meddling \cup Responding \cup Clearing \cup {"request", "poll", "cancel", "callback"}
PC == Shares \cup {"idle", "tick", "deploy"}

\* A command or a response is known by its strategy and its number.
Item == [of : 1 .. MaxDeploy, nr : Nat \ {0}]

TypeOK ==
  /\ strategy \in {0, deployed} /\ deployed \in 0 .. MaxDeploy /\ attached \in BOOLEAN
  /\ pc \in [Thread -> PC]
  /\ meddles \in Seq(Item) /\ responses \in Seq(Item)
  /\ taken \in 0 .. sent /\ sent \in 0 .. MaxSent
  /\ fetched \in 0 .. said /\ said \in 0 .. MaxSaid

Init ==
  /\ strategy = 0 /\ deployed = 0 /\ attached = FALSE
  /\ pc = [t \in Thread |-> "idle"]
  /\ meddles = << >> /\ responses = << >>
  /\ sent = 0 /\ taken = 0 /\ said = 0 /\ fetched = 0

Goes(t, from, to) == pc[t] = from /\ pc' = [pc EXCEPT ![t] = to]

SharesST == \A t \in Thread : pc[t] # "deploy"
OwnsST == \A t \in Thread : pc[t] \notin Shares \cup {"deploy"}
Free(states) == \A t \in Thread : pc[t] \notin states
-----------------------------------------------------------------------------
(* Commands                                                                *)

UnderWay == Cardinality({t \in Thread : pc[t] \in {"request", "push"}})

ReqMeddle(n) ==
  /\ Goes(n, "idle", "request")
  /\ SharesST /\ strategy # 0
  /\ sent + UnderWay < MaxSent
  /\ UNCHANGED <<slot, commands, answers>>

LockQueue(n) ==
  /\ Goes(n, "request", "push")
  /\ Free(Meddling)
  /\ UNCHANGED <<slot, commands, answers>>

Push(n) ==
  /\ Goes(n, "push", "idle")
  /\ meddles' = Append(meddles, [of |-> deployed, nr |-> sent + 1])
  /\ sent' = sent + 1
  /\ UNCHANGED <<slot, taken, answers>>

\* A strategy asks for the next command in OnTick.
GetNextMeddle ==
  /\ Goes(Tick, "tick", "take")
  /\ SharesST /\ strategy # 0 /\ Free(Meddling) /\ meddles # << >>
  /\ UNCHANGED <<slot, commands, answers>>

\* It leaves the queue also when it is too long for the buffer of the strategy.
Take ==
  /\ Goes(Tick, "take", "tick")
  /\ meddles' = Tail(meddles)
  /\ taken' = taken + 1
  /\ UNCHANGED <<slot, sent, answers>>
-----------------------------------------------------------------------------
(* Responses                                                               *)

\* (mutant) the mutex of the queue is not tried.
MeddleResponseAnyway(t) ==
  /\ Goes(t, IF t = Tick THEN "tick" ELSE "callback", "say")
  /\ SharesST /\ strategy # 0 /\ said < MaxSaid
  /\ UNCHANGED <<slot, commands, answers>>

MeddleResponse(t) ==
  /\ Goes(t, IF t = Tick THEN "tick" ELSE "callback", "say")
  /\ SharesST /\ strategy # 0 /\ Free(Responding)
  /\ said < MaxSaid
  /\ UNCHANGED <<slot, commands, answers>>

Say(t) ==
  /\ Goes(t, "say", IF t = Tick THEN "tick" ELSE "callback")
  /\ responses' = Append(responses, [of |-> deployed, nr |-> said + 1])
  /\ said' = said + 1
  /\ UNCHANGED <<slot, commands, fetched>>

ReqGetMeddleResponse(n) ==
  /\ Goes(n, "idle", "poll")
  /\ SharesST /\ strategy # 0
  /\ UNCHANGED <<slot, commands, answers>>

LockResponses(n) ==
  /\ Goes(n, "poll", "fetch")
  /\ Free(Responding)
  /\ UNCHANGED <<slot, commands, answers>>

Fetch(n) ==
  /\ Goes(n, "fetch", "idle")
  /\ LET k == IF Len(responses) < BatchSize THEN Len(responses) ELSE BatchSize
     IN /\ responses' = SubSeq(responses, k + 1, Len(responses))
        /\ fetched' = fetched + k
  /\ UNCHANGED <<slot, commands, said>>
-----------------------------------------------------------------------------
(* The life of a strategy                                                  *)

\* The lock ST is owned until the strategy is attached to its source.
DeployStrategy(n) ==
  /\ Goes(n, "idle", "deploy")
  /\ OwnsST /\ strategy = 0 /\ deployed < MaxDeploy
  /\ strategy' = deployed + 1 /\ deployed' = deployed + 1
  /\ meddles' = << >> /\ responses' = << >>
  /\ sent' = 0 /\ taken' = 0 /\ said' = 0 /\ fetched' = 0
  /\ UNCHANGED attached

\* (mutant) the strategy is not attached to its source.
DeployEndsDetached(n) ==
  /\ Goes(n, "deploy", "idle")
  /\ strategy' \in {0, strategy}
  /\ UNCHANGED <<deployed, attached, commands, answers>>

DeployEnds(n) ==
  /\ Goes(n, "deploy", "idle")
  /\ \/ attached' = TRUE /\ UNCHANGED strategy
     \/ strategy' = 0 /\ UNCHANGED attached      \* OnInit failed
  /\ UNCHANGED <<deployed, commands, answers>>

CancelStrategy(n) ==
  /\ Goes(n, "idle", "cancel")
  /\ SharesST /\ strategy # 0
  /\ UNCHANGED <<slot, commands, answers>>

\* (mutant) a tick that is under way is not waited for.
EndStrategyUnderTick(n) ==
  /\ Goes(n, "cancel", "clearMeddles")
  /\ attached' = FALSE /\ strategy' = 0
  /\ UNCHANGED <<deployed, commands, answers>>

\* MDDetachStrategy waits for the end of an OnTick; clear() begins.  (What a
\* second cancellation does that comes too late is in TradeService.)
EndStrategy(n) ==
  /\ Goes(n, "cancel", "clearMeddles")
  /\ pc[Tick] = "idle"
  /\ attached' = FALSE /\ strategy' = 0
  /\ UNCHANGED <<deployed, commands, answers>>

ClearMeddles(n) ==
  /\ Goes(n, "clearMeddles", "clearResponses")
  /\ meddles' = << >>
  /\ UNCHANGED <<slot, sent, taken, answers>>

ClearResponses(n) ==
  /\ Goes(n, "clearResponses", "idle")
  /\ responses' = << >>
  /\ UNCHANGED <<slot, commands, said, fetched>>

\* OnTick, and the report of an order or a trade, which finds the strategy.
OnTick ==
  /\ \/ Goes(Tick, "idle", "tick") /\ attached
     \/ Goes(Tick, "tick", "idle")
  /\ UNCHANGED <<slot, commands, answers>>

OnReport(r) ==
  /\ \/ Goes(r, "idle", "callback") /\ SharesST /\ strategy # 0
     \/ Goes(r, "callback", "idle")
  /\ UNCHANGED <<slot, commands, answers>>
-----------------------------------------------------------------------------
Next ==
  \/ \E n \in Net :
       \/ ReqMeddle(n) \/ LockQueue(n) \/ Push(n)
       \/ ReqGetMeddleResponse(n) \/ LockResponses(n) \/ Fetch(n)
       \/ DeployStrategy(n) \/ DeployEnds(n)
       \/ CancelStrategy(n) \/ EndStrategy(n) \/ ClearMeddles(n) \/ ClearResponses(n)
  \/ \E t \in Report \cup {Tick} : MeddleResponse(t) \/ Say(t)
  \/ \E r \in Report : OnReport(r)
  \/ GetNextMeddle \/ Take \/ OnTick

Spec == Init /\ [][Next]_vars

\* Ticks keep coming and the strategy asks for a command in them; a request
\* that has a lock goes on.
FairSpec ==
  /\ Spec
  /\ WF_vars(OnTick) /\ SF_vars(GetNextMeddle) /\ WF_vars(Take) /\ WF_vars(Say(Tick))
  /\ \A n \in Net : WF_vars(Push(n) \/ DeployEnds(n))
-----------------------------------------------------------------------------
(* Properties *)

\* The commands or responses of one strategy after the first so many.
Items(of, after, last) == [i \in 1 .. last - after |-> [of |-> of, nr |-> after + i]]

\* The queue of a strategy holds, in their order, the commands that were
\* accepted for it and that it has not taken: none is lost, doubled or meant
\* for the strategy that had the slot before.
MeddlesComplete == strategy # 0 => meddles = Items(strategy, taken, sent)

\* The same for its responses and an operator.
ResponsesComplete == strategy # 0 => responses = Items(strategy, fetched, said)

\* Two threads are at a queue only where one of them clears it; the thread of
\* the market data source never is.
QueuesRaceOnlyInClear ==
  \A t, u \in Thread : t # u =>
    /\ pc[t] \in Meddling /\ pc[u] \in Meddling \cup {"clearMeddles"} =>
         pc[u] = "clearMeddles" /\ t # Tick
    /\ pc[t] \in Responding /\ pc[u] \in Responding \cup {"clearResponses"} =>
         pc[u] = "clearResponses" /\ t # Tick

(***************************************************************************)
(* The inductive invariant.                                                *)
(***************************************************************************)

\* Which states are those of which thread.
ThreadInv ==
  /\ \A n \in Net : pc[n] \notin {"tick", "take", "callback", "say"}
  /\ \A r \in Report : pc[r] \in {"idle", "callback", "say"}
  /\ pc[Tick] \in {"idle", "tick", "take", "say"}

\* ST is owned by one thread, and so is the mutex of each queue.
LockInv ==
  \A t, u \in Thread : t # u =>
    /\ pc[t] = "deploy" => pc[u] \notin Shares \cup {"deploy"}
    /\ pc[t] \in Meddling => pc[u] \notin Meddling
    /\ pc[t] \in Responding => pc[u] \notin Responding

\* A strategy is attached once it is deployed and until it is cancelled, is
\* called while it is attached, and is no longer there when it is cleared.
LifeInv ==
  /\ attached => strategy # 0
  /\ pc[Tick] # "idle" => attached
  /\ \A t \in Thread :
       /\ pc[t] = "deploy" => ~attached /\ strategy # 0
       /\ pc[t] \in Clearing => strategy = 0
       /\ pc[t] # "idle" => deployed # 0

\* What was counted under a lock still holds when the lock is used.
CountInv ==
  /\ sent + UnderWay <= MaxSent
  /\ fetched + Len(responses) <= said
  /\ \A t \in Thread : pc[t] = "say" => said < MaxSaid
  /\ pc[Tick] = "take" => meddles # << >>

IInv ==
  /\ TypeOK /\ ThreadInv /\ LockInv /\ LifeInv /\ CountInv
  /\ MeddlesComplete /\ ResponsesComplete

\* A strategy takes every command it was sent, unless it is cancelled before.
MeddleTaken ==
  \A i \in 1 .. MaxDeploy, k \in 1 .. MaxSent :
    strategy = i /\ sent >= k ~> strategy # i \/ taken >= k
=============================================================================
