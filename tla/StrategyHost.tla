---------------------------- MODULE StrategyHost ----------------------------
(***************************************************************************)
(* What the host promises the strategies it runs: OnInit comes first and   *)
(* OnRelease last; OnTick comes only from a source the strategy is         *)
(* attached to; OnTick, OnTrade and OnOrder are called one at a time; and  *)
(* a report is about an order of the strategy itself, or of one that was   *)
(* released.  It knows no locks, slots and handlers; TradeService          *)
(* implements it.                                                          *)
(*                                                                         *)
(* The promises hold until a callback of a trade source meets the end of   *)
(* a strategy.  That is undefined behaviour in the code: from then on the  *)
(* host is broken and promises nothing.                                    *)
(***************************************************************************)

CONSTANTS
  Strategy,    \* the strategies that may be created
  MdSource,    \* the threads that call OnTick
  TdSource     \* the threads that call OnTrade and OnOrder

VARIABLES
  stage,       \* where each strategy is in its life
  listens,     \* the strategies attached to each market data source
  inside,      \* the threads that are in a callback of each strategy
  traders,     \* the strategies with an order that may still be reported on
  broken       \* a strategy was used after its OnRelease, or is freed in use

host == <<stage, listens, inside, traders, broken>>

Stage == {"none", "running", "released"}

HostInit ==
  /\ stage = [o \in Strategy |-> "none"]
  /\ listens = [m \in MdSource |-> {}]
  /\ inside = [o \in Strategy |-> {}]
  /\ traders = {} /\ broken = FALSE

\* OnInit has succeeded.
Create(o) ==
  /\ stage[o] = "none"
  /\ stage' = [stage EXCEPT ![o] = "running"]
  /\ UNCHANGED <<listens, inside, traders, broken>>

Attach(o, m) ==
  /\ stage[o] = "running"
  /\ listens' = [listens EXCEPT ![m] = @ \cup {o}]
  /\ UNCHANGED <<stage, inside, traders, broken>>

\* Not while the source is in OnTick of the strategy.
Detach(o, m) ==
  /\ stage[o] = "running" /\ m \notin inside[o]
  /\ listens' = [listens EXCEPT ![m] = @ \ {o}]
  /\ UNCHANGED <<stage, inside, traders, broken>>

Detached(o) == \A m \in MdSource : o \notin listens[m]

\* OnRelease.
Release(o) ==
  /\ stage[o] = "running" /\ Detached(o) /\ inside[o] = {}
  /\ stage' = [stage EXCEPT ![o] = "released"]
  /\ UNCHANGED <<listens, inside, traders, broken>>

Enter(t, o) ==
  /\ stage[o] = "running" /\ inside[o] = {}
  /\ inside' = [inside EXCEPT ![o] = {t}]
  /\ UNCHANGED <<stage, listens, traders, broken>>

OnTick(m, o) == o \in listens[m] /\ Enter(m, o)

\* OnTrade or OnOrder.
OnReport(t, o) ==
  /\ \E p \in traders : p = o \/ stage[p] = "released"
  /\ Enter(t, o)

\* A strategy places orders in its callbacks.
MakeOrder(t, o) ==
  /\ t \in inside[o]
  /\ traders' = traders \cup {o}
  /\ UNCHANGED <<stage, listens, inside, broken>>

\* The callback returns, with its order perhaps at its end.
Return(t, o) ==
  /\ t \in inside[o]
  /\ inside' = [inside EXCEPT ![o] = @ \ {t}]
  /\ traders' \subseteq traders
  /\ UNCHANGED <<stage, listens, broken>>

\* The last report of an order finds no strategy.
Drop ==
  /\ traders' \subseteq traders
  /\ UNCHANGED <<stage, listens, inside, broken>>

\* A strategy is freed in a callback, or used after it was released.
Break ==
  /\ \E o \in Strategy : \/ stage[o] = "released"
                         \/ stage[o] = "running" /\ Detached(o) /\ inside[o] # {}
  /\ broken' = TRUE

HostNext ==
  /\ ~broken
  /\ \/ \E o \in Strategy :
          \/ Create(o) \/ Release(o)
          \/ \E m \in MdSource : Attach(o, m) \/ Detach(o, m) \/ OnTick(m, o)
          \/ \E t \in TdSource : OnReport(t, o)
          \/ \E t \in MdSource \cup TdSource : MakeOrder(t, o) \/ Return(t, o)
     \/ Drop \/ Break

HostSpec == HostInit /\ [][HostNext]_host
-----------------------------------------------------------------------------
\* As long as the host is not broken, at most one thread is in a strategy,
\* and none in one that was not created or is released.
OneCallAtATime ==
  ~broken => \A o \in Strategy : /\ \A s, t \in inside[o] : s = t
                                 /\ inside[o] # {} => stage[o] = "running"
=============================================================================
