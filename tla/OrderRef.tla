------------------------------- MODULE OrderRef -------------------------------
(***************************************************************************)
(* Order references (common/OrderRefResolve.h), as the CTP trade plugin    *)
(* hands them out and the host reads them from the reports.  A reference   *)
(* packs, from the low bits up,                                            *)
(*   custom 3, strategy 8, direction 1, offset 2, system number 3,         *)
(*   account 4 bits                                                        *)
(* and above these 21 bits the increase part, a counter of the plugin.     *)
(* Every process that trades through the account of the front has a        *)
(* session of its own with it and hears of the trades of all of them.      *)
(***************************************************************************)
EXTENDS Integers, FiniteSets

CONSTANTS
  Process,       \* thunder-trader processes on one account of the exchange
  SystemNumber,  \* the numbers they are started with
  Strategy,      \* strategy ids
  Kind,          \* what else is in a reference: [custom, direction, offset]
  Account,       \* the slot of the trade source in its vector
  HighSize,      \* values of the increase part in a reference: 2^(32 - 21)
  MaxOrderRef,   \* the largest number that OrderRef of the exchange can hold
  MaxSent,       \* bound: orders of a behaviour
  MaxSession,    \* bound: logins of a process
  MaxIncrease    \* bound: the counter

Low      == 2097152          \* 2^21
UIntSize == HighSize * Low   \* 2^32

ASSUME RefAssumption ==
  /\ HighSize \in Nat \ {0} /\ MaxOrderRef \in Nat /\ UIntSize <= MaxOrderRef
  /\ Strategy \subseteq 0 .. 255 /\ SystemNumber \subseteq 0 .. 15 /\ Account \in 0 .. 15
  /\ Kind \subseteq [custom : 0 .. 7, direction : 0 .. 1, offset : 0 .. 3]
  /\ MaxSent \in Nat /\ MaxSession \in Nat /\ MaxIncrease \in Nat

-----------------------------------------------------------------------------
(* References: masks and shifts as division and remainder *)

\* (mutant) the strategy id loses its highest bit.
SevenBits(custom, strategy, direction, offset, system, account) ==
  (custom % 8) + (strategy % 128) * 8 + (direction % 2) * 2048
  + (offset % 4) * 4096 + (system % 8) * 16384 + (account % 16) * 131072

\* (mutant) the system number loses its highest bit.
TwoBitSystem(custom, strategy, direction, offset, system, account) ==
  (custom % 8) + (strategy % 256) * 8 + (direction % 2) * 2048
  + (offset % 4) * 4096 + (system % 4) * 16384 + (account % 16) * 131072

\* _OrderRefBase
Base(custom, strategy, direction, offset, system, account) ==
  (custom % 8) + (strategy % 256) * 8 + (direction % 2) * 2048
  + (offset % 4) * 4096 + (system % 8) * 16384 + (account % 16) * 131072

CustomPart(r)    == r % 8
StrategyPart(r)  == (r \div 8) % 256
DirectionPart(r) == (r \div 2048) % 2
OffsetPart(r)    == (r \div 4096) % 4
SystemPart(r)    == (r \div 16384) % 8
AccountPart(r)   == (r \div 131072) % 16

\* The counter is an unsigned int: what the shift pushes out is lost.
IncreasePart(n) == (n % HighSize) * Low

\* The reference is written as an int with "%.12d" into 12 characters and
\* read back with atoi: a negative one loses its last digit to the sign.
Wire(r) == IF r < UIntSize \div 2 THEN r ELSE -((UIntSize - r) \div 10)

\* m_uIncreasePart after a login that reports text r as the largest reference.
AfterLogin(r) == (r % UIntSize) \div Low + 1

-----------------------------------------------------------------------------
VARIABLES
  system,    \* m_uSystemNumber of each process
  online,    \* m_boolIsOnline
  increase,  \* m_uIncreasePart
  session,   \* m_intSessionID, numbered
  inflight,  \* threads between the load and the store of ++m_uIncreasePart
  sent,      \* history: the orders that went out
  lost       \* history: a store of this session overwrote another one

vars == <<system, online, increase, session, inflight, sent, lost>>

Load  == [proc : Process, strategy : Strategy, count : 0 .. MaxIncrease - 1]
Order == [id : 1 .. MaxSent, proc : Process, session : 0 .. MaxSession, strategy : Strategy,
          kind : Kind, count : 1 .. MaxIncrease, ref : 0 .. UIntSize - 1]

Init ==
  /\ system \in [Process -> SystemNumber]
  /\ \A p, q \in Process : system[p] = system[q] => p = q
  /\ online = [p \in Process |-> FALSE]
  /\ increase = [p \in Process |-> 0] /\ session = [p \in Process |-> 0]
  /\ inflight = {} /\ sent = {}
  /\ lost = [p \in Process |-> FALSE]

\* OnRspUserLogin: the counter goes on from the largest reference the front
\* tells, which is that of an order of the account or none.
Login(p) ==
  /\ ~online[p]
  /\ session[p] < MaxSession
  /\ \E r \in {0} \cup {Wire(o.ref) : o \in sent} :
       increase' = [increase EXCEPT ![p] = AfterLogin(r)]
  /\ online' = [online EXCEPT ![p] = TRUE]
  /\ session' = [session EXCEPT ![p] = @ + 1]
  /\ lost' = [lost EXCEPT ![p] = FALSE]
  /\ UNCHANGED <<system, inflight, sent>>

Disconnect(p) ==
  /\ online[p]
  /\ online' = [online EXCEPT ![p] = FALSE]
  /\ UNCHANGED <<system, increase, session, inflight, sent, lost>>

\* TDBasicMakeOrder and TDBasicCancelOrder load the counter; the mutex of a
\* strategy lets in one call of it at a time.
LoadIncrease(p, s) ==
  /\ online[p]
  /\ increase[p] < MaxIncrease
  /\ \A x \in inflight : ~(x.proc = p /\ x.strategy = s)
  /\ inflight' = inflight \cup {[proc |-> p, strategy |-> s, count |-> increase[p]]}
  /\ UNCHANGED <<system, online, increase, session, sent, lost>>

\* (mutant) the counter is read and not written.
NotStored(x) ==
  /\ inflight' = inflight \ {x}
  /\ UNCHANGED <<increase, lost>>

Store(x) ==
  /\ inflight' = inflight \ {x}
  /\ increase' = [increase EXCEPT ![x.proc] = x.count + 1]
  /\ lost' = [lost EXCEPT ![x.proc] = @ \/ increase[x.proc] # x.count]

\* A reference that is too large is refused; otherwise the order goes out.
MakeOrder(x, k) ==
  LET r == IncreasePart(x.count + 1)
           + Base(k.custom, x.strategy, k.direction, k.offset, system[x.proc], Account)
  IN
  /\ Cardinality(sent) < MaxSent
  /\ Store(x)
  /\ sent' = IF r > MaxOrderRef THEN sent ELSE sent \cup
       {[id |-> Cardinality(sent) + 1, proc |-> x.proc, session |-> session[x.proc],
         strategy |-> x.strategy, kind |-> k, count |-> x.count + 1, ref |-> r]}
  /\ UNCHANGED <<system, online, session>>

\* A cancellation has a number of its own, too.
CancelOrder(x) ==
  /\ Store(x)
  /\ UNCHANGED <<system, online, session, sent>>

Next ==
  \/ \E p \in Process : Login(p) \/ Disconnect(p) \/ \E s \in Strategy : LoadIncrease(p, s)
  \/ \E x \in inflight : CancelOrder(x) \/ \E k \in Kind : MakeOrder(x, k)

Spec == Init /\ [][Next]_vars

\* The checks of OnTrade and OnOrder in process p, for what is read from r:
\* the system number and then the slot of the strategy array.
AcceptedBy(p, r) == SystemPart(r) = system[p]

-----------------------------------------------------------------------------
(* Properties *)

\* Every variable has its type.
TypeOK ==
  /\ system \in [Process -> SystemNumber] /\ online \in [Process -> BOOLEAN]
  /\ increase \in [Process -> Nat] /\ session \in [Process -> 0 .. MaxSession]
  /\ inflight \subseteq Load /\ sent \subseteq Order
  /\ lost \in [Process -> BOOLEAN]

\* Two orders of one session have different references although nothing
\* makes the increment of the counter atomic: only an order or cancellation
\* of another strategy that came and went between the load and the store of
\* an increment, or a wrap of the counter, makes them collide.
RefsDiffer ==
  \A o, u \in sent :
    o.id # u.id /\ o.proc = u.proc /\ o.session = session[o.proc] /\ u.session = o.session
      => o.ref # u.ref \/ lost[o.proc] \/ o.count - u.count >= HighSize
         \/ u.count - o.count >= HighSize

\* A reference gives back everything that was packed into it: the reports
\* are for the strategy, the direction and the offset of the order.
PartsComeBack ==
  \A o \in sent :
    /\ StrategyPart(o.ref) = o.strategy /\ CustomPart(o.ref) = o.kind.custom
    /\ DirectionPart(o.ref) = o.kind.direction /\ OffsetPart(o.ref) = o.kind.offset
    /\ AccountPart(o.ref) = Account

\* As long as the increase part stays in the lower half of its range and
\* the system numbers fit into their three bits, a report is accepted by the
\* process that placed the order and by no other, and names its strategy.
ReportsComeHome ==
  \A o \in sent :
    /\ o.ref < UIntSize \div 2
    /\ \A p \in Process : system[p] < 8
    => \A p \in Process : /\ AcceptedBy(p, Wire(o.ref)) <=> p = o.proc
                          /\ StrategyPart(Wire(o.ref)) = o.strategy

\* "The OrderRef is run out of MaxRoderRef": what goes out has a reference
\* that the exchange can give back.
WireKeepsRef == \A o \in sent : Wire(o.ref) = o.ref

\* "different thunder-trader process has different system_number": that is
\* enough to keep their reports apart.
OwnReportsOnly ==
  \A o \in sent : o.ref < UIntSize \div 2 =>
    \A p \in Process : AcceptedBy(p, Wire(o.ref)) <=> p = o.proc
===============================================================================
