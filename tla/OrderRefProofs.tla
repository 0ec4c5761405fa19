---------------------------- MODULE OrderRefProofs ----------------------------
(* Proofs about OrderRef, for all values of the parts and any number of    *)
(* processes and strategies.                                               *)
EXTENDS OrderRef, FiniteSetTheorems, TLAPS

-----------------------------------------------------------------------------
(* Arithmetic of the parts *)

\* The lowest part of a number that is composed of two.
LEMMA LowestPart ==
  ASSUME NEW q \in Nat, NEW s \in Nat
  PROVE  /\ s < 256 => (256 * q + s) % 256 = s
         /\ s < 16 => (16 * q + s) % 16 = s
         /\ s < 8 => (8 * q + s) % 8 = s
         /\ s < 4 => (4 * q + s) % 4 = s
         /\ s < 2 => (2 * q + s) % 2 = s
BY Z3

\* The sum of all parts below the increase part.
Packed(c, s, d, o, z, a) == c + s * 8 + d * 2048 + o * 4096 + z * 16384 + a * 131072

\* Parts that fit into their bits.
Fit(c, s, d, o, a) ==
  c \in 0 .. 7 /\ s \in 0 .. 255 /\ d \in 0 .. 1 /\ o \in 0 .. 3 /\ a \in 0 .. 15

\* Each part comes out of it.
LEMMA PartsOfSum ==
  ASSUME NEW c, NEW s, NEW d, NEW o, NEW z, NEW a, Fit(c, s, d, o, a), z \in 0 .. 7,
         NEW h \in Nat, NEW r, r = h * Low + Packed(c, s, d, o, z, a)
  PROVE  /\ CustomPart(r) = c /\ StrategyPart(r) = s /\ DirectionPart(r) = d
         /\ OffsetPart(r) = o /\ SystemPart(r) = z /\ AccountPart(r) = a
         /\ r \div Low = h
<1> USE DEF Fit
<1> DEFINE q4 == h * 16 + a
           q3 == q4 * 8 + z
           q2 == q3 * 4 + o
           q1 == q2 * 2 + d
           q0 == q1 * 256 + s
<1>0. q0 \in Nat /\ q1 \in Nat /\ q2 \in Nat /\ q3 \in Nat /\ q4 \in Nat
  BY Z3
<1>1. r = 8 * q0 + c
  BY Z3 DEF Low, Packed
<1>2. r \div 8 = 256 * q1 + s
  BY Z3 DEF Low, Packed
<1>3. r \div 2048 = 2 * q2 + d
  BY Z3 DEF Low, Packed
<1>4. r \div 4096 = 4 * q3 + o
  BY Z3 DEF Low, Packed
<1>5. r \div 16384 = 8 * q4 + z
  BY Z3 DEF Low, Packed
<1>6. r \div 131072 = 16 * h + a
  BY Z3 DEF Low, Packed
<1>7. r \div Low = h
  BY Z3 DEF Low, Packed
<1> HIDE DEF q0, q1, q2, q3, q4
<1>8. CustomPart(r) = c /\ StrategyPart(r) = s
  BY <1>0, <1>1, <1>2, LowestPart, Z3 DEF CustomPart, StrategyPart
<1>9. DirectionPart(r) = d /\ OffsetPart(r) = o
  BY <1>0, <1>3, <1>4, LowestPart, Z3 DEF DirectionPart, OffsetPart
<1>10. SystemPart(r) = z /\ AccountPart(r) = a
  BY <1>0, <1>5, <1>6, LowestPart, Z3 DEF SystemPart, AccountPart
<1> QED  BY <1>7, <1>8, <1>9, <1>10

\* The masks of _OrderRefBase change only a system number above 7.
LEMMA SystemMask == \A y \in 0 .. 15 : y % 8 \in 0 .. 7 /\ (y < 8 => y % 8 = y)
BY Z3

LEMMA BaseIsSum ==
  ASSUME NEW c, NEW s, NEW d, NEW o, NEW y, NEW a, Fit(c, s, d, o, a)
  PROVE  Base(c, s, d, o, y, a) = Packed(c, s, d, o, y % 8, a)
<1>1. c % 8 = c /\ s % 256 = s /\ d % 2 = d /\ o % 4 = o /\ a % 16 = a
  BY Z3 DEF Fit
<1> QED  BY <1>1, Z3 DEF Base, Packed

LEMMA LowIsNat == Low \in Nat
BY Z3 DEF Low

\* The base fills the bits below the increase part.
LEMMA PackedRange ==
  ASSUME NEW c, NEW s, NEW d, NEW o, NEW z, NEW a, Fit(c, s, d, o, a), z \in 0 .. 7
  PROVE  Packed(c, s, d, o, z, a) \in Nat /\ Packed(c, s, d, o, z, a) < Low
<1>1. Packed(c, s, d, o, z, a) \in Nat
  BY Z3 DEF Packed, Fit
<1>2. Packed(c, s, d, o, z, a) < Low
  BY Z3 DEF Low, Packed, Fit
<1> QED  BY <1>1, <1>2

\* An increase part and a base make a number of 32 bits.
LEMMA SumRange ==
  ASSUME NEW h \in Nat, NEW v \in Nat, v < h, NEW x \in Nat, x < Low
  PROVE  h * Low \in Nat /\ v * Low + x \in Nat /\ v * Low + x < h * Low
BY Z3 DEF Low

\* The counter of an order, reduced to the increase part.
LEMMA HighRange == \A n \in Nat : n % HighSize \in 0 .. HighSize - 1
BY RefAssumption, Z3

\* Division with remainder.
LEMMA Division ==
  ASSUME NEW n \in Int, NEW h \in Int, h > 0
  PROVE  n \div h \in Int /\ n = h * (n \div h) + (n % h)
BY Z3

\* Two numbers less than a whole range apart have different remainders.
LEMMA RemaindersDiffer ==
  ASSUME NEW m \in Int, NEW n \in Int, NEW h \in Int, m > n, m - n < h
  PROVE  m % h # n % h
<1> SUFFICES ASSUME m % h = n % h PROVE FALSE
  OBVIOUS
<1> DEFINE p == m \div h
           q == n \div h
           r == n % h
<1>1. h > 0 /\ p \in Int /\ q \in Int /\ r \in Int /\ m = h * p + r /\ n = h * q + r
  BY Division, Z3
<1> HIDE DEF p, q, r
<1>2. m - n = h * (p - q)
  BY <1>1, Z3
<1>3. CASE p > q
  <2>1. h * (p - q) >= h
    BY <1>1, <1>3, Z3
  <2> QED  BY <1>2, <2>1, Z3
<1>4. CASE p <= q
  <2>1. h * (p - q) <= 0
    BY <1>1, <1>4, Z3
  <2> QED  BY <1>2, <2>1, Z3
<1> QED  BY <1>1, <1>3, <1>4, Z3

\* Two counters with one increase part are equal or a whole range apart.
LEMMA HighDiffers ==
  ASSUME NEW m \in Nat, NEW n \in Nat, m # n, m - n < HighSize, n - m < HighSize
  PROVE  m % HighSize # n % HighSize
<1>1. m \in Int /\ n \in Int /\ HighSize \in Int
  BY RefAssumption, Z3
<1>2. CASE m > n
  BY <1>1, <1>2, RemaindersDiffer, Zenon
<1>3. CASE n > m
  BY <1>1, <1>3, RemaindersDiffer, Zenon
<1> QED  BY <1>1, <1>2, <1>3, Z3

-----------------------------------------------------------------------------
(* The inductive invariant *)

\* The reference of an order is made of its parts.
RefOf(o) == IncreasePart(o.count)
            + Base(o.kind.custom, o.strategy, o.kind.direction, o.kind.offset,
                   system[o.proc], Account)

RefsBuilt == \A o \in sent : o.ref = RefOf(o)

SystemsDiffer == \A p, q \in Process : system[p] = system[q] => p = q

\* In a session in which no store overwrote another the counters of the
\* orders grow, and sessions do.
CountsGrow ==
  \A o \in sent :
    /\ o.session <= session[o.proc]
    /\ o.session = session[o.proc] /\ ~lost[o.proc] =>
         /\ o.count <= increase[o.proc]
         /\ \A u \in sent : u.proc = o.proc /\ u.session = o.session /\ u.id # o.id
                              => u.count # o.count

IInv == TypeOK /\ IsFiniteSet(sent) /\ RefsBuilt /\ SystemsDiffer /\ CountsGrow

-----------------------------------------------------------------------------
\* The parts of a reference have their ranges.
LEMMA PartRanges ==
  ASSUME NEW s \in Strategy, NEW k \in Kind
  PROVE  Fit(k.custom, s, k.direction, k.offset, Account)
<1>1. k.custom \in 0 .. 7 /\ k.direction \in 0 .. 1 /\ k.offset \in 0 .. 3
  BY RefAssumption, Zenon
<1>2. s \in 0 .. 255 /\ Account \in 0 .. 15
  BY RefAssumption, Zenon
<1> QED  BY <1>1, <1>2, Zenon DEF Fit

LEMMA SystemRange ==
  ASSUME TypeOK, NEW p \in Process
  PROVE  system[p] \in 0 .. 15 /\ system[p] % 8 \in 0 .. 7
<1>1. system[p] \in SystemNumber
  BY DEF TypeOK
<1>2. system[p] \in 0 .. 15
  BY <1>1, RefAssumption, Zenon
<1> QED  BY <1>2, SystemMask, Zenon

LEMMA HighPart ==
  ASSUME NEW n \in Nat
  PROVE  n % HighSize \in Nat /\ n % HighSize < HighSize /\ HighSize \in Nat
BY HighRange, RefAssumption, Z3

\* A reference is a number of 32 bits.
LEMMA RefRange ==
  ASSUME TypeOK, NEW p \in Process, NEW s \in Strategy, NEW k \in Kind, NEW n \in Nat
  PROVE  IncreasePart(n) + Base(k.custom, s, k.direction, k.offset, system[p], Account)
           \in 0 .. UIntSize - 1
<1> DEFINE z == system[p] % 8
           b == Packed(k.custom, s, k.direction, k.offset, z, Account)
           v == n % HighSize
<1>1. b \in Nat /\ b < Low
  BY PartRanges, SystemRange, PackedRange, Zenon
<1>2. Base(k.custom, s, k.direction, k.offset, system[p], Account) = b
  BY PartRanges, BaseIsSum, Zenon
<1>3. v \in Nat /\ v < HighSize /\ HighSize \in Nat
  BY HighPart, Zenon
<1> HIDE DEF z, b, v
<1>4. UIntSize \in Nat /\ v * Low + b \in Nat /\ v * Low + b < UIntSize
  BY <1>1, <1>3, SumRange, Zenon DEF UIntSize
<1>5. v * Low + b \in 0 .. UIntSize - 1
  BY <1>4, Z3
<1>6. IncreasePart(n) = v * Low
  BY DEF v, IncreasePart
<1> QED  BY <1>2, <1>5, <1>6

\* A login sets the counter to a natural number.
LEMMA LoginCount ==
  ASSUME TypeOK, NEW r \in {0} \cup {Wire(o.ref) : o \in sent}
  PROVE  AfterLogin(r) \in Nat
<1>1. UIntSize \in Nat /\ UIntSize > 0
  BY RefAssumption, Z3 DEF UIntSize, Low
<1>2. r \in Int
  <2>1. \A o \in sent : o.ref \in Nat
    BY <1>1, Z3 DEF TypeOK, Order
  <2>2. \A n \in Nat : Wire(n) \in Int
    BY <1>1, Z3 DEF Wire
  <2> QED  BY <2>1, <2>2
<1>3. r % UIntSize \in Nat
  BY <1>1, <1>2, Z3
<1> HIDE DEF UIntSize
<1> QED  BY <1>3, Z3 DEF AfterLogin, Low

\* What MakeOrder sends is an order, and has the next number.
LEMMA NewOrder ==
  ASSUME TypeOK, IsFiniteSet(sent), NEW x \in inflight, NEW k \in Kind, MakeOrder(x, k),
         sent' # sent
  PROVE  \E n \in Order :
           /\ sent' = sent \cup {n} /\ n.proc = x.proc /\ n.session = session[x.proc]
           /\ n.count = x.count + 1 /\ n.ref = RefOf(n)
<1> DEFINE r == IncreasePart(x.count + 1)
                + Base(k.custom, x.strategy, k.direction, k.offset, system[x.proc], Account)
           n == [id |-> Cardinality(sent) + 1, proc |-> x.proc,
                 session |-> session[x.proc], strategy |-> x.strategy, kind |-> k,
                 count |-> x.count + 1, ref |-> r]
<1>1. x.proc \in Process /\ x.strategy \in Strategy /\ x.count \in 0 .. MaxIncrease - 1
  BY DEF TypeOK, Load
<1>2. Cardinality(sent) \in Nat
  BY FS_CardinalityType
<1>3. n.id \in 1 .. MaxSent
  BY <1>2, RefAssumption, SMT DEF MakeOrder
<1>4. x.count + 1 \in 1 .. MaxIncrease /\ x.count + 1 \in Nat
  BY <1>1, RefAssumption, SMT
<1>5. session[x.proc] \in 0 .. MaxSession
  BY <1>1 DEF TypeOK
<1>6. r \in 0 .. UIntSize - 1
  BY <1>1, <1>4, RefRange, Zenon
<1>7. sent' = sent \cup {n}
  BY DEF MakeOrder
<1>8. n.ref = RefOf(n)
  BY DEF RefOf
<1> HIDE DEF r
<1>9. n \in Order
  BY <1>1, <1>3, <1>4, <1>5, <1>6, SMT DEF Order
<1> QED  BY <1>7, <1>8, <1>9

\* Every variable keeps its type.
LEMMA TypeStep == TypeOK /\ IsFiniteSet(sent) /\ [Next]_vars => TypeOK' /\ IsFiniteSet(sent')
<1> SUFFICES ASSUME TypeOK, IsFiniteSet(sent), [Next]_vars
             PROVE  TypeOK' /\ IsFiniteSet(sent')
  OBVIOUS
<1>1. ASSUME NEW p \in Process, Login(p) PROVE TypeOK' /\ IsFiniteSet(sent')
  <2>1. PICK r \in {0} \cup {Wire(o.ref) : o \in sent} :
          increase' = [increase EXCEPT ![p] = AfterLogin(r)]
    BY <1>1 DEF Login
  <2>2. AfterLogin(r) \in Nat
    BY LoginCount
  <2>3. session[p] + 1 \in 0 .. MaxSession
    BY <1>1, RefAssumption, SMT DEF TypeOK, Login
  <2> QED  BY <1>1, <2>1, <2>2, <2>3 DEF TypeOK, Login
<1>2. ASSUME NEW p \in Process, Disconnect(p) PROVE TypeOK' /\ IsFiniteSet(sent')
  BY <1>2 DEF TypeOK, Disconnect
<1>3. ASSUME NEW p \in Process, NEW s \in Strategy, LoadIncrease(p, s)
      PROVE  TypeOK' /\ IsFiniteSet(sent')
  <2>1. increase[p] \in 0 .. MaxIncrease - 1
    BY <1>3, RefAssumption, SMT DEF TypeOK, LoadIncrease
  <2>2. [proc |-> p, strategy |-> s, count |-> increase[p]] \in Load
    BY <2>1 DEF Load
  <2> QED  BY <1>3, <2>2 DEF TypeOK, LoadIncrease
<1>4. ASSUME NEW x \in inflight, Store(x), UNCHANGED <<system, online, session>>
      PROVE  /\ inflight' \subseteq Load /\ increase' \in [Process -> Nat]
             /\ lost' \in [Process -> BOOLEAN] /\ system' \in [Process -> SystemNumber]
             /\ online' \in [Process -> BOOLEAN] /\ session' \in [Process -> 0 .. MaxSession]
  <2>1. x.proc \in Process /\ x.count + 1 \in Nat
    BY RefAssumption, SMT DEF TypeOK, Load
  <2>2. inflight' \subseteq Load
    BY <1>4 DEF TypeOK, Store
  <2>3. increase' \in [Process -> Nat] /\ lost' \in [Process -> BOOLEAN]
    BY <1>4, <2>1 DEF TypeOK, Store
  <2> QED  BY <1>4, <2>2, <2>3 DEF TypeOK
<1>5. ASSUME NEW x \in inflight, CancelOrder(x) PROVE TypeOK' /\ IsFiniteSet(sent')
  BY <1>4, <1>5 DEF TypeOK, CancelOrder
<1>6. ASSUME NEW x \in inflight, NEW k \in Kind, MakeOrder(x, k)
      PROVE  TypeOK' /\ IsFiniteSet(sent')
  <2>1. CASE sent' = sent
    BY <1>4, <1>6, <2>1 DEF TypeOK, MakeOrder
  <2>2. CASE sent' # sent
    <3>1. PICK n \in Order : sent' = sent \cup {n}
      BY <1>6, <2>2, NewOrder
    <3>2. IsFiniteSet(sent') /\ sent' \subseteq Order
      BY <3>1, FS_AddElement DEF TypeOK
    <3> QED  BY <1>4, <1>6, <3>2 DEF TypeOK, MakeOrder
  <2> QED  BY <2>1, <2>2
<1>7. CASE UNCHANGED vars
  BY <1>7 DEF TypeOK, vars
<1> QED  BY <1>1, <1>2, <1>3, <1>5, <1>6, <1>7 DEF Next

\* Only MakeOrder changes what was sent, and nothing changes the systems.
LEMMA OtherSteps ==
  ASSUME [Next]_vars
  PROVE  /\ system' = system
         /\ sent' = sent \/ \E x \in inflight, k \in Kind : MakeOrder(x, k)
BY DEF Next, vars, Login, Disconnect, LoadIncrease, CancelOrder, MakeOrder

\* An order keeps its reference, and a new one has the one of its parts.
LEMMA BuiltStep ==
  ASSUME IInv, [Next]_vars
  PROVE  RefsBuilt' /\ SystemsDiffer'
<1>1. system' = system
  BY OtherSteps
<1>2. SystemsDiffer'
  BY <1>1 DEF IInv, SystemsDiffer
<1>3. \A o : RefOf(o)' = RefOf(o)
  BY <1>1 DEF RefOf
<1>4. RefsBuilt'
  <2>1. CASE sent' = sent
    BY <1>3, <2>1 DEF IInv, RefsBuilt
  <2>2. CASE sent' # sent
    <3>1. PICK x \in inflight, k \in Kind : MakeOrder(x, k)
      BY <2>2, OtherSteps
    <3>2. PICK n \in Order : sent' = sent \cup {n} /\ n.ref = RefOf(n)
      BY <2>2, <3>1, NewOrder DEF IInv
    <3> QED  BY <1>3, <3>2 DEF IInv, RefsBuilt
  <2> QED  BY <2>1, <2>2
<1> QED  BY <1>2, <1>4

\* A store that overwrites nothing gives a counter that no order has.
LEMMA CountsStep ==
  ASSUME IInv, [Next]_vars
  PROVE  CountsGrow'
<1> USE DEF IInv, CountsGrow
<1>0. \A o \in sent : /\ o.proc \in Process /\ o.session \in Nat /\ o.count \in Nat
                      /\ session[o.proc] \in Nat /\ increase[o.proc] \in Nat
  BY RefAssumption, SMT DEF TypeOK, Order
<1>1. ASSUME NEW p \in Process, Login(p) PROVE CountsGrow'
  <2>1. ASSUME NEW o \in sent, o.proc = p PROVE o.session < session'[o.proc]
    BY <1>0, <1>1, <2>1, SMT DEF TypeOK, Login
  <2>2. ASSUME NEW o \in sent, o.proc # p
        PROVE  /\ session'[o.proc] = session[o.proc] /\ lost'[o.proc] = lost[o.proc]
               /\ increase'[o.proc] = increase[o.proc]
    BY <1>0, <1>1, <2>2 DEF TypeOK, Login
  <2>3. sent' = sent
    BY <1>1 DEF Login
  <2>4. ASSUME NEW o \in sent PROVE o.session <= session'[o.proc]
    BY <1>0, <2>1, <2>2, <1>1, SMT DEF TypeOK, Login
  <2>5. ASSUME NEW o \in sent, o.session = session'[o.proc] PROVE o.proc # p
    BY <1>0, <2>1, <2>5, SMT
  <2> QED  BY <2>2, <2>3, <2>4, <2>5
<1>2. ASSUME NEW p \in Process, Disconnect(p) PROVE CountsGrow'
  BY <1>2 DEF Disconnect
<1>3. ASSUME NEW p \in Process, NEW s \in Strategy, LoadIncrease(p, s) PROVE CountsGrow'
  BY <1>3 DEF LoadIncrease
<1>4. ASSUME NEW x \in inflight, Store(x), session' = session, NEW o \in sent,
             ~lost'[o.proc]
      PROVE  ~lost[o.proc] /\ increase[o.proc] <= increase'[o.proc]
  <2>1. x.proc \in Process /\ x.count \in Nat
    BY RefAssumption, SMT DEF TypeOK, Load
  <2>2. CASE o.proc = x.proc
    <3>1. increase'[o.proc] = x.count + 1
      BY <1>4, <2>1, <2>2 DEF TypeOK, Store
    <3>2. ~lost[o.proc] /\ increase[o.proc] = x.count
      BY <1>4, <2>1, <2>2 DEF TypeOK, Store
    <3> QED  BY <2>1, <3>1, <3>2, SMT
  <2>3. CASE o.proc # x.proc
    BY <1>0, <1>4, <2>1, <2>3, SMT DEF TypeOK, Store
  <2> QED  BY <2>2, <2>3
<1>5. ASSUME NEW x \in inflight, Store(x), session' = session, sent' = sent
      PROVE  CountsGrow'
  <2>1. \A p \in Process : increase'[p] \in Nat
    BY RefAssumption, SMT, <1>5 DEF TypeOK, Load, Store
  <2> QED  BY <1>0, <1>4, <1>5, <2>1, SMT
<1>6. ASSUME NEW x \in inflight, CancelOrder(x) PROVE CountsGrow'
  BY <1>5, <1>6 DEF CancelOrder
<1>7. ASSUME NEW x \in inflight, NEW k \in Kind, MakeOrder(x, k) PROVE CountsGrow'
  <2>1. Store(x) /\ session' = session
    BY <1>7 DEF MakeOrder
  <2>2. CASE sent' = sent
    BY <1>5, <2>1, <2>2
  <2>3. CASE sent' # sent
    <3>1. PICK n \in Order :
            /\ sent' = sent \cup {n} /\ n.proc = x.proc /\ n.session = session[x.proc]
            /\ n.count = x.count + 1
      BY <1>7, <2>3, NewOrder
    <3>2. x.proc \in Process /\ x.count \in Nat /\ session[x.proc] \in Nat
      BY RefAssumption, SMT DEF TypeOK, Load
    <3>3. increase'[x.proc] = n.count
      BY <2>1, <3>1, <3>2 DEF TypeOK, Store
    <3>4. ~lost'[x.proc] => ~lost[x.proc] /\ increase[x.proc] = x.count
      BY <2>1, <3>2 DEF TypeOK, Store
    <3>5. ASSUME NEW o \in sent, o.proc = x.proc, o.session = session[x.proc],
                 ~lost'[x.proc]
          PROVE  o.count < n.count
      BY <1>0, <3>1, <3>2, <3>4, <3>5, SMT
    <3>6. ASSUME NEW o \in sent, o.session = session[o.proc], ~lost'[o.proc]
          PROVE  /\ o.count <= increase'[o.proc]
                 /\ \A u \in sent' : u.proc = o.proc /\ u.session = o.session /\ u.id # o.id
                                       => u.count # o.count
      <4>1. ~lost[o.proc] /\ increase[o.proc] <= increase'[o.proc]
        BY <1>4, <2>1, <3>6
      <4>2. o.count <= increase'[o.proc]
        <5>1. increase'[o.proc] \in Nat
          BY <1>0, <2>1, <3>2, SMT DEF TypeOK, Store
        <5> QED  BY <1>0, <3>6, <4>1, <5>1, SMT
      <4>3. ASSUME NEW u \in sent', u.proc = o.proc, u.session = o.session, u.id # o.id
            PROVE  u.count # o.count
        <5>1. CASE u \in sent
          BY <3>6, <4>1, <4>3, <5>1
        <5>2. CASE u = n
          BY <1>0, <3>1, <3>5, <3>6, <4>3, <5>2, <3>2, SMT
        <5> QED  BY <3>1, <5>1, <5>2
      <4> QED  BY <4>2, <4>3
    <3>7. ASSUME ~lost'[n.proc]
          PROVE  /\ n.count <= increase'[n.proc]
                 /\ \A u \in sent' : u.proc = n.proc /\ u.session = n.session /\ u.id # n.id
                                       => u.count # n.count
      BY <1>0, <3>1, <3>2, <3>3, <3>5, <3>7, SMT
    <3>8. n.session <= session[n.proc]
      BY <3>1, <3>2, SMT
    <3> QED  BY <2>1, <3>1, <3>6, <3>7, <3>8
  <2> QED  BY <2>2, <2>3
<1>8. CASE UNCHANGED vars
  BY <1>8 DEF vars
<1> QED  BY <1>1, <1>2, <1>3, <1>6, <1>7, <1>8 DEF Next

LEMMA InitInv == Init => IInv
<1> SUFFICES ASSUME Init PROVE IInv
  OBVIOUS
<1>1. TypeOK
  BY RefAssumption, SMT DEF Init, TypeOK
<1>2. IsFiniteSet(sent)
  BY FS_EmptySet DEF Init
<1> QED  BY <1>1, <1>2 DEF Init, IInv, RefsBuilt, SystemsDiffer, CountsGrow

LEMMA StepInv == IInv /\ [Next]_vars => IInv'
<1> SUFFICES ASSUME IInv, [Next]_vars PROVE IInv'
  OBVIOUS
<1>1. TypeOK' /\ IsFiniteSet(sent')
  BY TypeStep DEF IInv
<1> QED  BY <1>1, BuiltStep, CountsStep DEF IInv

\* Every behaviour keeps the invariant.
THEOREM RefInvariant == Spec => []IInv
BY InitInv, StepInv, PTL DEF Spec

-----------------------------------------------------------------------------
(* What follows from it *)

\* The parts of the reference of an order are those it was made of, of the
\* system number its three lowest bits.
LEMMA PartsOfOrder ==
  ASSUME IInv, NEW o \in sent
  PROVE  /\ CustomPart(o.ref) = o.kind.custom /\ StrategyPart(o.ref) = o.strategy
         /\ DirectionPart(o.ref) = o.kind.direction /\ OffsetPart(o.ref) = o.kind.offset
         /\ SystemPart(o.ref) = system[o.proc] % 8 /\ AccountPart(o.ref) = Account
         /\ o.ref \div Low = o.count % HighSize
         /\ o.ref \in 0 .. UIntSize - 1
<1>1. /\ o.proc \in Process /\ o.strategy \in Strategy /\ o.kind \in Kind
      /\ o.count \in Nat /\ o.ref \in 0 .. UIntSize - 1
  <2> HIDE DEF UIntSize
  <2> QED  BY RefAssumption, SMT DEF IInv, TypeOK, Order
<1> DEFINE z == system[o.proc] % 8
           h == o.count % HighSize
           b == Packed(o.kind.custom, o.strategy, o.kind.direction, o.kind.offset, z, Account)
<1>2. Fit(o.kind.custom, o.strategy, o.kind.direction, o.kind.offset, Account)
  BY <1>1, PartRanges, Zenon
<1>3. z \in 0 .. 7 /\ h \in Nat
  BY <1>1, SystemRange, HighPart, Zenon DEF IInv
<1>4. o.ref = h * Low + b
  <2>1. Base(o.kind.custom, o.strategy, o.kind.direction, o.kind.offset, system[o.proc],
             Account) = b
    BY <1>2, BaseIsSum, Zenon
  <2>2. o.ref = RefOf(o)
    BY DEF IInv, RefsBuilt
  <2> QED  BY <2>1, <2>2, Zenon DEF RefOf, IncreasePart
<1> HIDE DEF z, h
<1>5. /\ CustomPart(o.ref) = o.kind.custom /\ StrategyPart(o.ref) = o.strategy
      /\ DirectionPart(o.ref) = o.kind.direction /\ OffsetPart(o.ref) = o.kind.offset
      /\ SystemPart(o.ref) = z /\ AccountPart(o.ref) = Account /\ o.ref \div Low = h
  BY <1>2, <1>3, <1>4, PartsOfSum
<1> QED  BY <1>1, <1>5, Zenon DEF z, h

\* The variables of OrderRef always have their types.
THEOREM RefsTyped == Spec => []TypeOK
BY RefInvariant, PTL DEF IInv

\* Whatever was packed into a reference comes out of it again.
THEOREM PartsAlwaysComeBack == Spec => []PartsComeBack
<1>1. IInv => PartsComeBack
  BY PartsOfOrder DEF PartsComeBack
<1> QED  BY <1>1, RefInvariant, PTL

\* References of one session differ unless an increment was lost or the
\* increase part wrapped.
THEOREM RefsAlwaysDiffer == Spec => []RefsDiffer
<1>1. ASSUME IInv PROVE RefsDiffer
  <2> SUFFICES ASSUME NEW o \in sent, NEW u \in sent, o.id # u.id, o.proc = u.proc,
                      o.session = session[o.proc], u.session = o.session,
                      o.ref = u.ref, ~lost[o.proc],
                      ~(o.count - u.count >= HighSize), ~(u.count - o.count >= HighSize)
               PROVE  FALSE
    BY DEF RefsDiffer
  <2>1. o.count \in Nat /\ u.count \in Nat
    BY <1>1, RefAssumption, SMT DEF IInv, TypeOK, Order
  <2>2. o.count # u.count
    BY <1>1 DEF IInv, CountsGrow
  <2>3. o.count % HighSize = u.count % HighSize
    BY <1>1, PartsOfOrder
  <2>4. o.count - u.count < HighSize /\ u.count - o.count < HighSize
    BY <2>1, RefAssumption, SMT
  <2> QED  BY <2>1, <2>2, <2>3, <2>4, HighDiffers
<1> QED  BY <1>1, RefInvariant, PTL

\* A report comes to the process and the strategy of its order, in the lower
\* half of the references and with system numbers below 8.
THEOREM ReportsAlwaysComeHome == Spec => []ReportsComeHome
<1>1. ASSUME IInv PROVE ReportsComeHome
  <2> SUFFICES ASSUME NEW o \in sent, o.ref < UIntSize \div 2, \A p \in Process : system[p] < 8,
                      NEW p \in Process
               PROVE  /\ AcceptedBy(p, Wire(o.ref)) <=> p = o.proc
                      /\ StrategyPart(Wire(o.ref)) = o.strategy
    BY DEF ReportsComeHome
  <2>1. Wire(o.ref) = o.ref
    BY DEF Wire
  <2>2. StrategyPart(o.ref) = o.strategy /\ SystemPart(o.ref) = system[o.proc] % 8
    BY <1>1, PartsOfOrder
  <2>3. o.proc \in Process
    BY <1>1 DEF IInv, TypeOK, Order
  <2>4. system[o.proc] % 8 = system[o.proc]
    BY <1>1, <2>3, SystemRange, SystemMask DEF IInv
  <2>5. system[p] = system[o.proc] <=> p = o.proc
    BY <1>1, <2>3 DEF IInv, SystemsDiffer
  <2> QED  BY <2>1, <2>2, <2>4, <2>5 DEF AcceptedBy
<1> QED  BY <1>1, RefInvariant, PTL
===============================================================================
