-------------------------- MODULE ArbitrageProofs ---------------------------
(* Proofs about Arbitrage, for any number of strategies, copies, orders and  *)
(* commands.                                                                 *)
EXTENDS Arbitrage, SequenceTheorems, FiniteSetTheorems, TLAPS

-----------------------------------------------------------------------------
(* Sums                                                                    *)

\* A family of subsets of a finite set has a least one.  This stands in for the
\* induction over finite sets.
LEMMA LeastSubset ==
  ASSUME NEW S, IsFiniteSet(S), NEW T, T \subseteq SUBSET S, T # {}
  PROVE  \E m \in T : \A n \in T : n \subseteq m => n = m
<1>1. IsWellFoundedOn(StrictSubsetOrdering(S), SUBSET S)
  BY FS_StrictSubsetOrderingWellFounded, FS_FiniteSubsetsOfFinite
<1>2. PICK m \in T : \A n \in T : ~(<<n, m>> \in StrictSubsetOrdering(S))
  BY <1>1, WFMin
<1> QED
  BY <1>2 DEF StrictSubsetOrdering

\* SumFunctionOnSet takes the elements of a set one by one.
First(s) == CHOOSE x \in s : TRUE
Rest(s) == s \ {First(s)}
Sums(f, S, g) == g = [s \in SUBSET S |-> IF s = {} THEN 0 ELSE f[First(s)] + g[Rest(s)]]

LEMMA FirstIn == ASSUME NEW s, s # {} PROVE First(s) \in s /\ Rest(s) \subseteq s /\ Rest(s) # s
BY DEF First, Rest

LEMMA SumIsLast == ASSUME NEW f, NEW S PROVE SumFunctionOnSet(f, S) = (CHOOSE g : Sums(f, S, g))[S]
BY DEF SumFunctionOnSet, FoldFunctionOnSet, MapThenFoldSet, Sums, First, Rest

LEMMA SumsAt ==
  ASSUME NEW f, NEW S, NEW g, Sums(f, S, g), NEW s \in SUBSET S
  PROVE  g[s] = IF s = {} THEN 0 ELSE f[First(s)] + g[Rest(s)]
<1> DEFINE h == [t \in SUBSET S |-> IF t = {} THEN 0 ELSE f[First(t)] + g[Rest(t)]]
<1>1. g = h
  BY DEF Sums
<1>2. h[s] = IF s = {} THEN 0 ELSE f[First(s)] + g[Rest(s)]
  OBVIOUS
<1> QED
  BY <1>1, <1>2

LEMMA SumsAgree ==
  ASSUME NEW f, NEW S, IsFiniteSet(S), NEW R \in SUBSET S, NEW g, Sums(f, S, g), NEW h, Sums(f, R, h)
  PROVE  \A s \in SUBSET R : g[s] = h[s]
<1> DEFINE T == {s \in SUBSET R : g[s] # h[s]}
<1> SUFFICES ASSUME T # {} PROVE FALSE
  OBVIOUS
<1>0. IsFiniteSet(R)
  BY FS_Subset
<1>1. PICK m \in T : \A n \in T : n \subseteq m => n = m
  <2>1. T \subseteq SUBSET R
    OBVIOUS
  <2> HIDE DEF T
  <2> QED
    BY <1>0, <2>1, LeastSubset
<1>3. /\ g[m] = IF m = {} THEN 0 ELSE f[First(m)] + g[Rest(m)]
      /\ h[m] = IF m = {} THEN 0 ELSE f[First(m)] + h[Rest(m)]
  BY SumsAt
<1>4. m # {}
  BY <1>3
<1>5. Rest(m) \subseteq m /\ Rest(m) # m
  BY <1>4, FirstIn
<1>6. Rest(m) \notin T
  BY <1>1, <1>5
<1>7. g[Rest(m)] = h[Rest(m)]
  BY <1>5, <1>6
<1> QED
  BY <1>3, <1>4, <1>7

LEMMA SumsExist ==
  ASSUME NEW f, NEW S, IsFiniteSet(S)
  PROVE  \E g : Sums(f, S, g)
<1> DEFINE T == {s \in SUBSET S : ~ \E g : Sums(f, s, g)}
<1> SUFFICES ASSUME T # {} PROVE FALSE
  OBVIOUS
<1>1. PICK m \in T : \A n \in T : n \subseteq m => n = m
  <2>1. T \subseteq SUBSET S
    OBVIOUS
  <2> HIDE DEF T
  <2> QED
    BY <2>1, LeastSubset
<1> DEFINE H(s) == CHOOSE g : Sums(f, s, g)
           G == [s \in SUBSET m |-> IF s = {} THEN 0 ELSE f[First(s)] + H(Rest(s))[Rest(s)]]
<1>2. ASSUME NEW s \in SUBSET m, s # m PROVE Sums(f, s, H(s))
  BY <1>1, <1>2
<1>3. \A s \in SUBSET m : G[s] = IF s = {} THEN 0 ELSE f[First(s)] + H(Rest(s))[Rest(s)]
  OBVIOUS
<1> HIDE DEF H, G
<1>4. ASSUME NEW s \in SUBSET m, s # m PROVE G[s] = H(s)[s]
  <2>1. H(s)[s] = IF s = {} THEN 0 ELSE f[First(s)] + H(s)[Rest(s)]
    BY <1>2, <1>4, SumsAt
  <2>2. s # {} => H(s)[Rest(s)] = H(Rest(s))[Rest(s)]
    <3> SUFFICES ASSUME s # {} PROVE H(s)[Rest(s)] = H(Rest(s))[Rest(s)]
      OBVIOUS
    <3>1. Rest(s) \in SUBSET s /\ Rest(s) # m /\ Rest(s) \in SUBSET m
      BY <1>4, FirstIn
    <3>2. Sums(f, s, H(s)) /\ Sums(f, Rest(s), H(Rest(s)))
      BY <1>2, <1>4, <3>1
    <3>3. IsFiniteSet(s)
      BY FS_Subset
    <3> QED
      BY <3>1, <3>2, <3>3, SumsAgree
  <2> QED
    BY <1>3, <2>1, <2>2
<1>5. \A s \in SUBSET m : G[s] = IF s = {} THEN 0 ELSE f[First(s)] + G[Rest(s)]
  <2> TAKE s \in SUBSET m
  <2>1. s # {} => Rest(s) \in SUBSET m /\ Rest(s) # m
    BY FirstIn
  <2> QED
    BY <1>3, <1>4, <2>1
<1>6. Sums(f, m, G)
  BY <1>5 DEF Sums, G
<1> QED
  BY <1>6

\* The sum over a set, by its first element.
LEMMA SumFirst ==
  ASSUME NEW f, NEW S, IsFiniteSet(S)
  PROVE  SumFunctionOnSet(f, S) =
           IF S = {} THEN 0 ELSE f[First(S)] + SumFunctionOnSet(f, Rest(S))
<1> DEFINE H(s) == CHOOSE g : Sums(f, s, g)
<1>1. Sums(f, S, H(S)) /\ SumFunctionOnSet(f, S) = H(S)[S]
  BY SumsExist, SumIsLast
<1> HIDE DEF H
<1>2. CASE S = {}
  BY <1>1, <1>2, SumsAt
<1>3. CASE S # {}
  <2>1. Rest(S) \subseteq S /\ IsFiniteSet(Rest(S))
    BY <1>3, FirstIn, FS_Subset
  <2>2. Sums(f, Rest(S), H(Rest(S))) /\ SumFunctionOnSet(f, Rest(S)) = H(Rest(S))[Rest(S)]
    BY <2>1, SumsExist, SumIsLast DEF H
  <2>3. H(S)[Rest(S)] = H(Rest(S))[Rest(S)]
    BY <1>1, <2>1, <2>2, SumsAgree
  <2>4. H(S)[S] = f[First(S)] + H(S)[Rest(S)]
    BY <1>1, <1>3, SumsAt
  <2> QED
    BY <1>1, <1>3, <2>2, <2>3, <2>4
<1> QED
  BY <1>2, <1>3

LEMMA SumNone == ASSUME NEW f PROVE SumFunctionOnSet(f, {}) = 0
BY SumFirst, FS_EmptySet

LEMMA SumIsInt ==
  ASSUME NEW f, NEW S, IsFiniteSet(S), \A x \in S : f[x] \in Int
  PROVE  SumFunctionOnSet(f, S) \in Int
<1> DEFINE T == {s \in SUBSET S : SumFunctionOnSet(f, s) \notin Int}
<1> SUFFICES ASSUME T # {} PROVE FALSE
  OBVIOUS
<1>1. PICK m \in T : \A n \in T : n \subseteq m => n = m
  <2>1. T \subseteq SUBSET S
    OBVIOUS
  <2> HIDE DEF T
  <2> QED
    BY <2>1, LeastSubset
<1>2. IsFiniteSet(m)
  BY FS_Subset
<1>3. m # {}
  BY SumNone
<1>4. First(m) \in m /\ Rest(m) \subseteq m /\ Rest(m) # m
  BY <1>3, FirstIn
<1>5. Rest(m) \notin T
  BY <1>1, <1>4
<1>6. SumFunctionOnSet(f, Rest(m)) \in Int /\ f[First(m)] \in Int
  BY <1>4, <1>5
<1> QED
  BY <1>2, <1>3, <1>6, SumFirst

\* The elements may be taken in any order.
LEMMA SumTake ==
  ASSUME NEW f, NEW S, IsFiniteSet(S), \A x \in S : f[x] \in Int, NEW x \in S
  PROVE  SumFunctionOnSet(f, S) = f[x] + SumFunctionOnSet(f, S \ {x})
<1> DEFINE Sum(s) == SumFunctionOnSet(f, s)
           T == {s \in SUBSET S : \E y \in s : Sum(s) # f[y] + Sum(s \ {y})}
<1>1. ASSUME NEW s \in SUBSET S
      PROVE  IsFiniteSet(s) /\ Sum(s) \in Int /\ (s # {} => Sum(s) = f[First(s)] + Sum(Rest(s)))
  BY FS_Subset, SumIsInt, SumFirst
<1> HIDE DEF Sum
<1>2. T = {}
  <2> SUFFICES ASSUME T # {} PROVE FALSE
    OBVIOUS
  <2>1. PICK m \in T : \A n \in T : n \subseteq m => n = m
    <3>1. T \subseteq SUBSET S
      OBVIOUS
    <3> HIDE DEF T
    <3> QED
      BY <3>1, LeastSubset
  <2>2. PICK y \in m : Sum(m) # f[y] + Sum(m \ {y})
    BY <2>1
  <2> DEFINE c == First(m)
  <2>3. /\ c \in m /\ Rest(m) = m \ {c} /\ Sum(m) = f[c] + Sum(m \ {c})
    BY <1>1, FirstIn DEF Rest
  <2> HIDE DEF c
  <2>4. y # c
    BY <2>2, <2>3
  <2>5. m \ {c} \notin T /\ m \ {y} \notin T
    BY <2>1, <2>2, <2>3
  <2>6. /\ Sum(m \ {c}) = f[y] + Sum((m \ {c}) \ {y})
        /\ Sum(m \ {y}) = f[c] + Sum((m \ {y}) \ {c})
    BY <2>2, <2>3, <2>4, <2>5
  <2>7. (m \ {c}) \ {y} = (m \ {y}) \ {c}
    OBVIOUS
  <2>8. /\ f[y] \in Int /\ f[c] \in Int /\ Sum((m \ {c}) \ {y}) \in Int
    BY <1>1, <2>2, <2>3
  <2> QED
    BY <2>2, <2>3, <2>6, <2>7, <2>8
<1> QED
  BY <1>2 DEF Sum

LEMMA SumSame ==
  ASSUME NEW f, NEW g, NEW S, IsFiniteSet(S), \A x \in S : f[x] = g[x]
  PROVE  SumFunctionOnSet(f, S) = SumFunctionOnSet(g, S)
<1> DEFINE T == {s \in SUBSET S : SumFunctionOnSet(f, s) # SumFunctionOnSet(g, s)}
<1> SUFFICES ASSUME T # {} PROVE FALSE
  OBVIOUS
<1>1. PICK m \in T : \A n \in T : n \subseteq m => n = m
  <2>1. T \subseteq SUBSET S
    OBVIOUS
  <2> HIDE DEF T
  <2> QED
    BY <2>1, LeastSubset
<1>2. IsFiniteSet(m) /\ m # {}
  BY FS_Subset, SumNone
<1>3. First(m) \in m /\ Rest(m) \subseteq m /\ Rest(m) # m
  BY <1>2, FirstIn
<1>4. Rest(m) \notin T
  BY <1>1, <1>3
<1>5. SumFunctionOnSet(f, Rest(m)) = SumFunctionOnSet(g, Rest(m)) /\ f[First(m)] = g[First(m)]
  BY <1>3, <1>4
<1> QED
  BY <1>2, <1>5, SumFirst

LEMMA SumAtMost ==
  ASSUME NEW f, NEW g, NEW S, IsFiniteSet(S),
         \A x \in S : f[x] \in Int /\ g[x] \in Int /\ f[x] <= g[x]
  PROVE  SumFunctionOnSet(f, S) <= SumFunctionOnSet(g, S)
<1> DEFINE F(s) == SumFunctionOnSet(f, s)
           G(s) == SumFunctionOnSet(g, s)
           T == {s \in SUBSET S : ~(F(s) <= G(s))}
<1>0. ASSUME NEW s \in SUBSET S PROVE IsFiniteSet(s) /\ F(s) \in Int /\ G(s) \in Int
  BY FS_Subset, SumIsInt
<1> SUFFICES ASSUME T # {} PROVE FALSE
  OBVIOUS
<1>1. PICK m \in T : \A n \in T : n \subseteq m => n = m
  <2>1. T \subseteq SUBSET S
    OBVIOUS
  <2> HIDE DEF T
  <2> QED
    BY <2>1, LeastSubset
<1>2. IsFiniteSet(m) /\ m # {}
  BY <1>0, SumNone
<1>3. First(m) \in m /\ Rest(m) \subseteq m /\ Rest(m) # m
  BY <1>2, FirstIn
<1>4. Rest(m) \notin T
  BY <1>1, <1>3
<1>5. F(m) = f[First(m)] + F(Rest(m)) /\ G(m) = g[First(m)] + G(Rest(m))
  BY <1>2, SumFirst
<1> HIDE DEF F, G
<1>6. F(Rest(m)) <= G(Rest(m)) /\ F(Rest(m)) \in Int /\ G(Rest(m)) \in Int
  BY <1>0, <1>3, <1>4
<1>7. f[First(m)] <= g[First(m)] /\ f[First(m)] \in Int /\ g[First(m)] \in Int
  BY <1>3
<1> QED
  BY <1>1, <1>5, <1>6, <1>7

\* A sum in which one term changes.
LEMMA SumChange ==
  ASSUME NEW f, NEW g, NEW S, IsFiniteSet(S), NEW c \in S,
         \A x \in S : f[x] \in Int /\ g[x] \in Int, \A x \in S : x # c => f[x] = g[x]
  PROVE  SumFunctionOnSet(g, S) = SumFunctionOnSet(f, S) - f[c] + g[c]
<1>1. /\ SumFunctionOnSet(f, S) = f[c] + SumFunctionOnSet(f, S \ {c})
      /\ SumFunctionOnSet(g, S) = g[c] + SumFunctionOnSet(g, S \ {c})
  BY SumTake
<1>2. IsFiniteSet(S \ {c})
  BY FS_Subset
<1>3. SumFunctionOnSet(f, S \ {c}) = SumFunctionOnSet(g, S \ {c})
  BY <1>2, SumSame
<1>4. SumFunctionOnSet(f, S \ {c}) \in Int /\ f[c] \in Int /\ g[c] \in Int
  BY <1>2, SumIsInt
<1> QED
  BY <1>1, <1>3, <1>4

LEMMA SumZero ==
  ASSUME NEW f, NEW S, IsFiniteSet(S), \A x \in S : f[x] = 0
  PROVE  SumFunctionOnSet(f, S) = 0
<1> DEFINE T == {s \in SUBSET S : SumFunctionOnSet(f, s) # 0}
<1> SUFFICES ASSUME T # {} PROVE FALSE
  OBVIOUS
<1>1. PICK m \in T : \A n \in T : n \subseteq m => n = m
  <2>1. T \subseteq SUBSET S
    OBVIOUS
  <2> HIDE DEF T
  <2> QED
    BY <2>1, LeastSubset
<1>2. IsFiniteSet(m) /\ m # {}
  BY FS_Subset, SumNone
<1>3. First(m) \in m /\ Rest(m) \subseteq m /\ Rest(m) # m
  BY <1>2, FirstIn
<1>4. Rest(m) \notin T
  BY <1>1, <1>3
<1> QED
  BY <1>2, <1>3, <1>4, SumFirst
LEMMA Upto ==
  ASSUME NEW n \in Nat
  PROVE  IsFiniteSet(1 .. n) /\ IsFiniteSet(1 .. n + 1)
<1>1. n + 1 \in Int /\ n \in Int /\ 1 \in Int
  OBVIOUS
<1> QED
  BY <1>1, FS_Interval

\* A sum does not depend on where its terms stand.
LEMMA SumShift ==
  ASSUME NEW n \in Nat, NEW f, NEW g, \A i \in 1 .. n : g[i] = f[i + 1] /\ f[i + 1] \in Int
  PROVE  SumFunctionOnSet(f, 2 .. n + 1) = SumFunctionOnSet(g, 1 .. n)
<1> DEFINE Up(s) == {i + 1 : i \in s}
           F(s) == SumFunctionOnSet(f, s)
           G(s) == SumFunctionOnSet(g, s)
           T == {s \in SUBSET (1 .. n) : F(Up(s)) # G(s)}
<1>1. IsFiniteSet(1 .. n) /\ IsFiniteSet(1 .. n + 1)
  BY Upto
<1>2. ASSUME NEW s \in SUBSET (1 .. n)
      PROVE  IsFiniteSet(s) /\ IsFiniteSet(Up(s))
  <2>1. Up(s) \subseteq 1 .. n + 1
    OBVIOUS
  <2>2. IsFiniteSet(s)
    BY <1>1, FS_Subset
  <2> HIDE DEF Up
  <2>3. IsFiniteSet(Up(s))
    BY <1>1, <2>1, FS_Subset
  <2> QED
    BY <2>2, <2>3
<1>3. ASSUME NEW s \in SUBSET (1 .. n), NEW x \in s
      PROVE  F(Up(s)) = f[x + 1] + F(Up(s \ {x})) /\ G(s) = g[x] + G(s \ {x})
  <2>1. Up(s) \ {x + 1} = Up(s \ {x}) /\ x + 1 \in Up(s) /\ \A y \in Up(s) : f[y] \in Int
    OBVIOUS
  <2>2. IsFiniteSet(s) /\ IsFiniteSet(Up(s))
    BY <1>2
  <2> HIDE DEF Up
  <2>3. F(Up(s)) = f[x + 1] + F(Up(s) \ {x + 1})
    BY <2>1, <2>2, SumTake
  <2>4. \A y \in s : g[y] \in Int
    OBVIOUS
  <2>6. \A S : IsFiniteSet(S) /\ (\A y \in S : g[y] \in Int) =>
                 \A y \in S : SumFunctionOnSet(g, S) = g[y] + SumFunctionOnSet(g, S \ {y})
    BY SumTake, Zenon
  <2>5. G(s) = g[x] + G(s \ {x})
    BY <2>2, <2>4, <2>6, Zenon
  <2> QED
    BY <2>1, <2>3, <2>5
<1>4. F(Up({})) = G({})
  <2>1. Up({}) = {}
    OBVIOUS
  <2> HIDE DEF Up
  <2> QED
    BY <2>1, SumNone
<1>5. T = {}
  <2> SUFFICES ASSUME T # {} PROVE FALSE
    OBVIOUS
  <2> HIDE DEF F, G, Up
  <2>0. T \subseteq SUBSET (1 .. n)
    OBVIOUS
  <2>1. PICK m \in T : \A k \in T : k \subseteq m => k = m
    <3> HIDE DEF T
    <3> DEFINE N == 1 .. n
    <3>1. IsFiniteSet(N) /\ T \subseteq SUBSET N
      BY <1>1, <2>0
    <3> HIDE DEF N
    <3> QED
      BY <3>1, LeastSubset
  <2>2. PICK x \in m : TRUE
    BY <1>4
  <2>3. m \ {x} \notin T
    BY <2>1, <2>2
  <2>4. F(Up(m \ {x})) = G(m \ {x})
    BY <2>2, <2>3
  <2>5. g[x] = f[x + 1]
    BY <2>2
  <2> QED
    BY <1>3, <2>2, <2>4, <2>5
<1>6. Up(1 .. n) = 2 .. n + 1
  <2>1. ASSUME NEW j \in 2 .. n + 1 PROVE j \in Up(1 .. n)
    <3>1. j - 1 \in 1 .. n /\ j = (j - 1) + 1
      OBVIOUS
    <3> QED
      BY <3>1
  <2> QED
    BY <2>1
<1>7. F(Up(1 .. n)) = G(1 .. n)
  <2> HIDE DEF F, G, Up
  <2> QED
    BY <1>5
<1> QED
  BY <1>6, <1>7
-----------------------------------------------------------------------------
(* The reports under way                                                   *)

LEMMA ReportFields ==
  ASSUME NEW m \in Report
  PROVE  /\ m.ref \in Nat /\ Bears(m) \in Nat
         /\ m.kind \in {"trade", "queueing", "canceled"}
         /\ m.kind = "trade" => m.volume \in Nat /\ Bears(m) = m.volume
         /\ m.kind = "canceled" => m.traded \in Nat /\ m.remain \in Nat /\ Bears(m) = m.remain
         /\ m.kind = "queueing" => Bears(m) = 0
         /\ \A r, kinds : Borne(m, r, kinds) \in Nat
BY DEF Report, Bears, Borne

\* The domain of a sequence, which is finite.
LEMMA Places ==
  ASSUME NEW S, NEW q \in Seq(S)
  PROVE  /\ Len(q) \in Nat /\ DOMAIN q = 1 .. Len(q) /\ IsFiniteSet(DOMAIN q)
         /\ \A i \in DOMAIN q : q[i] \in S
BY FS_Interval

LEMMA UnderwayIsNat ==
  ASSUME NEW q \in Seq(Report), NEW r, NEW kinds
  PROVE  Underway(q, r, kinds) \in Nat
<1> DEFINE f == [i \in DOMAIN q |-> Borne(q[i], r, kinds)]
           z == [i \in DOMAIN q |-> 0]
<1>1. IsFiniteSet(DOMAIN q) /\ \A i \in DOMAIN q : f[i] \in Nat /\ z[i] = 0
  BY Places, ReportFields
<1>2. DOMAIN f = DOMAIN q
  OBVIOUS
<1> HIDE DEF f, z
<1>3. SumFunctionOnSet(f, DOMAIN q) \in Int
  BY <1>1, SumIsInt
<1>4. SumFunctionOnSet(z, DOMAIN q) = 0 /\ SumFunctionOnSet(z, DOMAIN q) <= SumFunctionOnSet(f, DOMAIN q)
  BY <1>1, SumZero, SumAtMost
<1> QED
  BY <1>2, <1>3, <1>4 DEF Underway, SumFunction, f

\* A report that comes is under way.
LEMMA UnderwayAppend ==
  ASSUME NEW q \in Seq(Report), NEW m \in Report, NEW r, NEW kinds
  PROVE  Underway(Append(q, m), r, kinds) = Underway(q, r, kinds) + Borne(m, r, kinds)
<1> DEFINE n == Len(q)
           p == Append(q, m)
           f == [i \in DOMAIN q |-> Borne(q[i], r, kinds)]
           g == [i \in DOMAIN p |-> Borne(p[i], r, kinds)]
<1>1. p \in Seq(Report) /\ Len(p) = n + 1 /\ p[n + 1] = m /\ \A i \in 1 .. n : p[i] = q[i]
  BY AppendProperties
<1>2. n \in Nat /\ DOMAIN q = 1 .. n /\ DOMAIN p = 1 .. n + 1
  BY <1>1, Places
<1>3. /\ DOMAIN f = 1 .. n /\ DOMAIN g = 1 .. n + 1
      /\ \A i \in 1 .. n + 1 : g[i] \in Int
      /\ \A i \in 1 .. n : f[i] = g[i]
      /\ g[n + 1] = Borne(m, r, kinds)
  <2>1. \A i \in 1 .. n + 1 : p[i] \in Report
    BY <1>1, <1>2, Places
  <2> HIDE DEF p
  <2> QED
    BY <1>1, <1>2, <2>1, ReportFields
<1>4. Underway(q, r, kinds) = SumFunctionOnSet(f, DOMAIN f)
      /\ Underway(p, r, kinds) = SumFunctionOnSet(g, DOMAIN g)
  BY DEF Underway, SumFunction
<1> HIDE DEF f, g, p, n
<1>5. IsFiniteSet(1 .. n + 1) /\ IsFiniteSet(1 .. n)
  BY <1>2, Upto
<1>9. n + 1 \in 1 .. n + 1 /\ (1 .. n + 1) \ {n + 1} = 1 .. n
  BY <1>2
<1>6. SumFunctionOnSet(g, 1 .. n + 1) = g[n + 1] + SumFunctionOnSet(g, (1 .. n + 1) \ {n + 1})
  BY <1>3, <1>5, <1>9, SumTake
<1>7. SumFunctionOnSet(f, 1 .. n) = SumFunctionOnSet(g, 1 .. n)
  <2> DEFINE N == 1 .. n
  <2>1. IsFiniteSet(N) /\ \A i \in N : f[i] = g[i]
    BY <1>3, <1>5
  <2> HIDE DEF N
  <2>2. SumFunctionOnSet(f, N) = SumFunctionOnSet(g, N)
    BY <2>1, SumSame
  <2> QED
    BY <2>2 DEF N
<1>8. Underway(q, r, kinds) \in Nat /\ Borne(m, r, kinds) \in Nat
  BY UnderwayIsNat, ReportFields
<1> QED
  <2>1. Underway(p, r, kinds) = Borne(m, r, kinds) + Underway(q, r, kinds)
    BY <1>3, <1>4, <1>9, <1>6, <1>7
  <2> QED
    BY <2>1, <1>8 DEF p

\* A report that is handled is not under way any more.
LEMMA UnderwayTail ==
  ASSUME NEW q \in Seq(Report), q # << >>, NEW r, NEW kinds
  PROVE  Underway(q, r, kinds) = Borne(Head(q), r, kinds) + Underway(Tail(q), r, kinds)
<1> DEFINE p == Tail(q)
           n == Len(p)
           f == [i \in DOMAIN q |-> Borne(q[i], r, kinds)]
           g == [i \in DOMAIN p |-> Borne(p[i], r, kinds)]
<1>1. p \in Seq(Report) /\ Len(q) = n + 1 /\ \A i \in 1 .. n : p[i] = q[i + 1]
  BY HeadTailProperties, Places
<1>2. n \in Nat /\ DOMAIN q = 1 .. n + 1 /\ DOMAIN p = 1 .. n /\ Head(q) = q[1]
  BY <1>1, Places
<1>3. /\ DOMAIN f = 1 .. n + 1 /\ DOMAIN g = 1 .. n
      /\ \A i \in 1 .. n + 1 : f[i] \in Int
      /\ \A i \in 1 .. n : g[i] = f[i + 1] /\ f[i + 1] \in Int
      /\ f[1] = Borne(Head(q), r, kinds)
  <2>1. \A i \in 1 .. n + 1 : q[i] \in Report
    BY <1>1, <1>2, Places
  <2> HIDE DEF p, n
  <2> QED
    BY <1>1, <1>2, <2>1, ReportFields
<1>4. Underway(q, r, kinds) = SumFunctionOnSet(f, DOMAIN f)
      /\ Underway(p, r, kinds) = SumFunctionOnSet(g, DOMAIN g)
  BY DEF Underway, SumFunction
<1> HIDE DEF f, g, p, n
<1>5. IsFiniteSet(1 .. n + 1)
  BY <1>2, Upto
<1>8. 1 \in 1 .. n + 1 /\ (1 .. n + 1) \ {1} = 2 .. n + 1
  BY <1>2
<1>6. SumFunctionOnSet(f, 1 .. n + 1) = f[1] + SumFunctionOnSet(f, (1 .. n + 1) \ {1})
  <2> DEFINE N == 1 .. n + 1
  <2>1. IsFiniteSet(N) /\ 1 \in N /\ \A i \in N : f[i] \in Int
    BY <1>3, <1>5, <1>8
  <2> HIDE DEF N
  <2>2. SumFunctionOnSet(f, N) = f[1] + SumFunctionOnSet(f, N \ {1})
    BY <2>1, SumTake
  <2> QED
    BY <2>2 DEF N
<1>7. SumFunctionOnSet(f, 2 .. n + 1) = SumFunctionOnSet(g, 1 .. n)
  BY <1>2, <1>3, SumShift
<1> QED
  BY <1>3, <1>4, <1>6, <1>7, <1>8 DEF p

LEMMA UnderwayNone ==
  ASSUME NEW q \in Seq(Report), NEW r, NEW kinds, \A i \in DOMAIN q : Borne(q[i], r, kinds) = 0
  PROVE  Underway(q, r, kinds) = 0
<1> DEFINE f == [i \in DOMAIN q |-> Borne(q[i], r, kinds)]
<1>1. IsFiniteSet(DOMAIN q) /\ DOMAIN f = DOMAIN q /\ \A i \in DOMAIN q : f[i] = 0
  BY Places
<1> HIDE DEF f
<1>2. SumFunctionOnSet(f, DOMAIN f) = 0
  BY <1>1, SumZero
<1> QED
  BY <1>2 DEF Underway, SumFunction, f

\* The trades are a part of what is under way.
LEMMA UnderwayTrades ==
  ASSUME NEW q \in Seq(Report), NEW r
  PROVE  Underway(q, r, {"trade"}) <= Underway(q, r, {"trade", "canceled"})
<1> DEFINE f == [i \in DOMAIN q |-> Borne(q[i], r, {"trade"})]
           g == [i \in DOMAIN q |-> Borne(q[i], r, {"trade", "canceled"})]
<1>1. \A i \in DOMAIN q : f[i] \in Int /\ g[i] \in Int /\ f[i] <= g[i]
  <2> TAKE i \in DOMAIN q
  <2>1. q[i] \in Report
    BY Places
  <2>2. Bears(q[i]) \in Nat
    BY <2>1, ReportFields
  <2> QED
    BY <2>2 DEF Borne
<1>2. IsFiniteSet(DOMAIN q) /\ DOMAIN f = DOMAIN q /\ DOMAIN g = DOMAIN q
  BY Places
<1>3. Underway(q, r, {"trade"}) = SumFunctionOnSet(f, DOMAIN f)
      /\ Underway(q, r, {"trade", "canceled"}) = SumFunctionOnSet(g, DOMAIN g)
  BY DEF Underway, SumFunction
<1> HIDE DEF f, g
<1> QED
  BY <1>1, <1>2, <1>3, SumAtMost

-----------------------------------------------------------------------------
(* The orders at the exchange                                              *)

LEMMA OrderFields ==
  ASSUME NEW b \in Seq(Order), NEW r \in DOMAIN b
  PROVE  /\ r \in Nat \ {0} /\ b[r] \in Order /\ b[r].vol \in Nat /\ b[r].traded \in Nat
         /\ b[r].leg \in Legs /\ b[r].half \in Half /\ r \in OrdersOf(b, b[r].leg, b[r].half)
<1>1. b[r] \in Order /\ r \in Nat \ {0}
  BY Places
<1>2. r \in OrdersOf(b, b[r].leg, b[r].half)
  BY DEF OrdersOf
<1> QED
  BY <1>1, <1>2 DEF Order

LEMMA OrdersFinite ==
  ASSUME NEW b \in Seq(Order), NEW l, NEW h
  PROVE  IsFiniteSet(OrdersOf(b, l, h)) /\ OrdersOf(b, l, h) \subseteq DOMAIN b
<1>1. OrdersOf(b, l, h) \subseteq DOMAIN b
  BY DEF OrdersOf
<1>2. IsFiniteSet(DOMAIN b)
  BY Places
<1> QED
  BY <1>1, <1>2, FS_Subset

LEMMA TradedIsInt ==
  ASSUME NEW b \in Seq(Order), NEW l, NEW h
  PROVE  TradedOf(b, l, h) \in Int
<1> DEFINE f == [r \in DOMAIN b |-> b[r].traded]
<1>1. IsFiniteSet(OrdersOf(b, l, h)) /\ OrdersOf(b, l, h) \subseteq DOMAIN b
  BY OrdersFinite
<1>2. \A r \in OrdersOf(b, l, h) : f[r] \in Int
  BY <1>1, OrderFields
<1> HIDE DEF f
<1>3. SumFunctionOnSet(f, OrdersOf(b, l, h)) \in Int
  BY <1>1, <1>2, SumIsInt
<1> QED
  BY <1>3 DEF TradedOf, f

LEMMA TradedSame ==
  ASSUME NEW b \in Seq(Order), NEW b2 \in Seq(Order), NEW l, NEW h,
         OrdersOf(b2, l, h) = OrdersOf(b, l, h),
         \A r \in OrdersOf(b, l, h) : b2[r].traded = b[r].traded
  PROVE  TradedOf(b2, l, h) = TradedOf(b, l, h)
<1> DEFINE f == [r \in DOMAIN b |-> b[r].traded]
           g == [r \in DOMAIN b2 |-> b2[r].traded]
           S == OrdersOf(b, l, h)
<1>1. IsFiniteSet(S) /\ S \subseteq DOMAIN b /\ S \subseteq DOMAIN b2
  BY OrdersFinite
<1>2. \A r \in S : f[r] = g[r]
  BY <1>1
<1> HIDE DEF f, g, S
<1>3. SumFunctionOnSet(f, S) = SumFunctionOnSet(g, S)
  BY <1>1, <1>2, SumSame
<1> QED
  BY <1>3 DEF TradedOf, f, g, S

LEMMA TradedMore ==
  ASSUME NEW b \in Seq(Order), NEW b2 \in Seq(Order), NEW l, NEW h,
         OrdersOf(b2, l, h) = OrdersOf(b, l, h), NEW x \in OrdersOf(b, l, h), NEW v \in Nat,
         b2[x].traded = b[x].traded + v,
         \A r \in OrdersOf(b, l, h) : r # x => b2[r].traded = b[r].traded
  PROVE  TradedOf(b2, l, h) = TradedOf(b, l, h) + v
<1> DEFINE f == [r \in DOMAIN b |-> b[r].traded]
           g == [r \in DOMAIN b2 |-> b2[r].traded]
           S == OrdersOf(b, l, h)
<1>1. IsFiniteSet(S) /\ S \subseteq DOMAIN b /\ S \subseteq DOMAIN b2
  BY OrdersFinite
<1>2. /\ \A r \in S : f[r] \in Int /\ g[r] \in Int
      /\ \A r \in S : r # x => f[r] = g[r]
      /\ x \in S /\ g[x] = f[x] + v
  BY <1>1, OrderFields
<1>4. TradedOf(b, l, h) \in Int
  BY TradedIsInt
<1> HIDE DEF f, g, S
<1>3. SumFunctionOnSet(g, S) = SumFunctionOnSet(f, S) - f[x] + g[x]
  BY <1>1, <1>2, SumChange
<1>5. TradedOf(b, l, h) = SumFunctionOnSet(f, S) /\ TradedOf(b2, l, h) = SumFunctionOnSet(g, S)
  BY DEF TradedOf, f, g, S
<1>6. f[x] \in Int
  BY <1>2
<1> QED
  BY <1>2, <1>3, <1>4, <1>5, <1>6

\* What is to come of an order, in numbers.
LEMMA ComingIs ==
  ASSUME NEW b \in Seq(Order), NEW q \in Seq(Report), NEW r
  PROVE  /\ Underway(q, r, {"trade", "canceled"}) \in Nat
         /\ Underway(q, r, {"trade"}) \in Nat
         /\ Coming(b, q, r) = (IF Living(b, r) THEN b[r].vol - b[r].traded ELSE 0)
                              + Underway(q, r, {"trade", "canceled"})
         /\ Coming(b, q, r) \in Int
<1>1. Underway(q, r, {"trade", "canceled"}) \in Nat /\ Underway(q, r, {"trade"}) \in Nat
  BY UnderwayIsNat
<1>2. Coming(b, q, r) = (IF Living(b, r) THEN b[r].vol - b[r].traded ELSE 0)
                              + Underway(q, r, {"trade", "canceled"})
  BY DEF Coming, Left, Living
<1>3. Living(b, r) => b[r].vol - b[r].traded \in Int
  BY OrderFields DEF Living
<1> QED
  BY <1>1, <1>2, <1>3

\* An order that does not exist brings nothing, and a living one something.
LEMMA ComingBounds ==
  ASSUME NEW b \in Seq(Order), NEW q \in Seq(Report), ReportsInv(b, q), NEW r
  PROVE  /\ Coming(b, q, r) \in Nat /\ Underway(q, r, {"trade"}) <= Coming(b, q, r)
         /\ Living(b, r) => Coming(b, q, r) > 0
         /\ r \notin DOMAIN b => Coming(b, q, r) = 0 /\ Underway(q, r, {"trade"}) = 0
<1>1. /\ Underway(q, r, {"trade", "canceled"}) \in Nat /\ Underway(q, r, {"trade"}) \in Nat
      /\ Underway(q, r, {"trade"}) <= Underway(q, r, {"trade", "canceled"})
      /\ Coming(b, q, r) = (IF Living(b, r) THEN b[r].vol - b[r].traded ELSE 0)
                              + Underway(q, r, {"trade", "canceled"})
  BY ComingIs, UnderwayTrades
<1>2. Living(b, r) => b[r].vol \in Nat /\ b[r].traded \in Nat /\ b[r].traded < b[r].vol
  BY OrderFields DEF Living, ReportsInv
<1>3. r \notin DOMAIN b => Underway(q, r, {"trade", "canceled"}) = 0
  <2> SUFFICES ASSUME r \notin DOMAIN b PROVE Underway(q, r, {"trade", "canceled"}) = 0
    OBVIOUS
  <2>1. \A i \in DOMAIN q : Borne(q[i], r, {"trade", "canceled"}) = 0
    BY DEF Borne, ReportsInv, Agrees
  <2> QED
    BY <2>1, UnderwayNone
<1>4. r \notin DOMAIN b => ~Living(b, r)
  BY DEF Living
<1> QED
  BY <1>1, <1>2, <1>3, <1>4

-----------------------------------------------------------------------------
(* What the exchange does                                                  *)

\* A step of the exchange brings no more than was to come.
Exchanged(b, q, b2, q2) ==
  /\ b2 \in Seq(Order) /\ q2 \in Seq(Report) /\ ReportsInv(b2, q2)
  /\ \A l, h : OrdersOf(b2, l, h) = OrdersOf(b, l, h)
  /\ \A r : Coming(b2, q2, r) <= Coming(b, q, r)
  /\ \A l, h, r : Only(b, q, l, h, r) => Known(b2, q2, l, h, r) = Known(b, q, l, h, r)

\* An order at the exchange keeps its leg and its volume, and does not live again.
SameOrders(b, b2) ==
  /\ DOMAIN b2 = DOMAIN b
  /\ \A r \in DOMAIN b :
       /\ b2[r].leg = b[r].leg /\ b2[r].half = b[r].half /\ b2[r].vol = b[r].vol
       /\ Living(b2, r) => Living(b, r)

LEMMA SameOrdersOf ==
  ASSUME NEW b, NEW b2, SameOrders(b, b2)
  PROVE  \A l, h : OrdersOf(b2, l, h) = OrdersOf(b, l, h)
BY DEF SameOrders, OrdersOf

\* A step that trades nothing.
LEMMA QuietStep ==
  ASSUME NEW b \in Seq(Order), NEW q \in Seq(Report), ReportsInv(b, q),
         NEW b2 \in Seq(Order), NEW q2 \in Seq(Report), SameOrders(b, b2),
         \A r \in DOMAIN b : b2[r].traded = b[r].traded,
         ReportsInv(b2, q2),
         \A r : Coming(b2, q2, r) <= Coming(b, q, r),
         \A r : Underway(q2, r, {"trade"}) = Underway(q, r, {"trade"})
  PROVE  Exchanged(b, q, b2, q2)
<1>1. \A l, h : OrdersOf(b2, l, h) = OrdersOf(b, l, h)
  BY SameOrdersOf
<1>2. ASSUME NEW l, NEW h PROVE TradedOf(b2, l, h) = TradedOf(b, l, h)
  <2>1. \A r \in OrdersOf(b, l, h) : b2[r].traded = b[r].traded
    BY OrdersFinite
  <2> QED
    BY <1>1, <2>1, TradedSame
<1>3. \A l, h, r : Known(b2, q2, l, h, r) = Known(b, q, l, h, r)
  BY <1>2 DEF Known
<1> QED
  BY <1>1, <1>3 DEF Exchanged

\* An order of a book, changed.
LEMMA OrderChanged ==
  ASSUME NEW b \in Seq(Order), NEW x \in DOMAIN b, NEW o \in Order, NEW b2, b2 = [b EXCEPT ![x] = o]
  PROVE  /\ b2 \in Seq(Order) /\ DOMAIN b2 = DOMAIN b
         /\ b2[x] = o /\ \A r \in DOMAIN b : r # x => b2[r] = b[r]
<1>1. DOMAIN b = 1 .. Len(b) /\ Len(b) \in Nat /\ \A r \in DOMAIN b : b[r] \in Order
  BY Places
<1>2. b2 \in [1 .. Len(b) -> Order]
  BY <1>1
<1> QED
  BY <1>1, <1>2

\* The book in which an order has a new status, or a new trade.
WithStatus(b, x, st) == [b EXCEPT ![x].status = st]

WithTrade(b, x, v) ==
  [b EXCEPT ![x].traded = @ + v,
            ![x].status = IF b[x].traded + v = b[x].vol THEN "ended" ELSE @]

LEMMA StatusIs ==
  ASSUME NEW b \in Seq(Order), NEW x \in DOMAIN b, NEW st \in {"sent", "live", "ended"}
  PROVE  /\ WithStatus(b, x, st) \in Seq(Order) /\ DOMAIN WithStatus(b, x, st) = DOMAIN b
         /\ \A r \in DOMAIN b : r # x => WithStatus(b, x, st)[r] = b[r]
         /\ WithStatus(b, x, st)[x].vol = b[x].vol /\ WithStatus(b, x, st)[x].traded = b[x].traded
         /\ WithStatus(b, x, st)[x].leg = b[x].leg /\ WithStatus(b, x, st)[x].half = b[x].half
         /\ WithStatus(b, x, st)[x].status = st
<1> DEFINE o == [b[x] EXCEPT !.status = st]
           b2 == [b EXCEPT ![x] = o]
<1>1. b[x] \in Order
  BY OrderFields
<1>2. o \in Order /\ o.vol = b[x].vol /\ o.traded = b[x].traded /\ o.leg = b[x].leg
      /\ o.half = b[x].half /\ o.status = st
  BY <1>1 DEF Order
<1>3. WithStatus(b, x, st) = b2
  BY DEF WithStatus
<1> HIDE DEF o
<1>4. b2 \in Seq(Order) /\ DOMAIN b2 = DOMAIN b /\ b2[x] = o /\ \A r \in DOMAIN b : r # x => b2[r] = b[r]
  BY <1>2, OrderChanged
<1> HIDE DEF b2
<1> QED
  BY <1>2, <1>3, <1>4

LEMMA TradeIs ==
  ASSUME NEW b \in Seq(Order), NEW x \in DOMAIN b, NEW v \in Nat, b[x].status = "live"
  PROVE  /\ WithTrade(b, x, v) \in Seq(Order) /\ DOMAIN WithTrade(b, x, v) = DOMAIN b
         /\ \A r \in DOMAIN b : r # x => WithTrade(b, x, v)[r] = b[r]
         /\ WithTrade(b, x, v)[x].vol = b[x].vol /\ WithTrade(b, x, v)[x].traded = b[x].traded + v
         /\ WithTrade(b, x, v)[x].leg = b[x].leg /\ WithTrade(b, x, v)[x].half = b[x].half
         /\ WithTrade(b, x, v)[x].status = IF b[x].traded + v = b[x].vol THEN "ended" ELSE "live"
<1> DEFINE t == b[x].traded + v
           st == IF b[x].traded + v = b[x].vol THEN "ended" ELSE "live"
           o == [b[x] EXCEPT !.traded = t, !.status = st]
           b2 == [b EXCEPT ![x] = o]
<1>1. b[x] \in Order /\ t \in Nat /\ st \in {"sent", "live", "ended"}
  BY OrderFields
<1>3. WithTrade(b, x, v) = b2
  BY DEF WithTrade
<1> HIDE DEF t, st
<1>2. o \in Order /\ o.vol = b[x].vol /\ o.traded = t /\ o.leg = b[x].leg
      /\ o.half = b[x].half /\ o.status = st
  BY <1>1 DEF Order
<1> HIDE DEF o
<1>4. b2 \in Seq(Order) /\ DOMAIN b2 = DOMAIN b /\ b2[x] = o /\ \A r \in DOMAIN b : r # x => b2[r] = b[r]
  BY <1>2, OrderChanged
<1> HIDE DEF b2
<1>5. o.status = (IF b[x].traded + v = b[x].vol THEN "ended" ELSE "live") /\ o.traded = b[x].traded + v
  BY <1>2 DEF t, st
<1> QED
  BY <1>2, <1>3, <1>4, <1>5

\* The reports still agree after a step that brings no more than was to come.
LEMMA ReportsKept ==
  ASSUME NEW b \in Seq(Order), NEW q \in Seq(Report), ReportsInv(b, q),
         NEW b2 \in Seq(Order), NEW q2 \in Seq(Report), SameOrders(b, b2),
         \A r \in DOMAIN b : /\ b2[r].traded <= b2[r].vol
                             /\ Living(b2, r) => b2[r].traded < b2[r].vol,
         \A r : Coming(b2, q2, r) <= Coming(b, q, r),
         \A i \in DOMAIN q2 : (\E j \in DOMAIN q : q2[i] = q[j]) \/ Agrees(b2, q2[i])
  PROVE  ReportsInv(b2, q2)
<1>1. ASSUME NEW r \in DOMAIN b2
      PROVE  /\ b2[r].traded <= b2[r].vol /\ Coming(b2, q2, r) <= b2[r].vol
             /\ Living(b2, r) => b2[r].traded < b2[r].vol
  <2>1. r \in DOMAIN b /\ b2[r].vol = b[r].vol
    BY DEF SameOrders
  <2>2. Coming(b2, q2, r) <= Coming(b, q, r) /\ Coming(b, q, r) <= b[r].vol
    BY <2>1 DEF ReportsInv
  <2>3. Coming(b2, q2, r) \in Int /\ Coming(b, q, r) \in Int /\ b[r].vol \in Nat
    BY <2>1, ComingIs, OrderFields
  <2> QED
    BY <2>1, <2>2, <2>3
<1>2. ASSUME NEW i \in DOMAIN q2 PROVE Agrees(b2, q2[i])
  <2>1. CASE Agrees(b2, q2[i])
    BY <2>1
  <2>2. ASSUME NEW j \in DOMAIN q, q2[i] = q[j] PROVE Agrees(b2, q2[i])
    <3>1. Agrees(b, q[j])
      BY DEF ReportsInv
    <3> QED
      BY <2>2, <3>1 DEF Agrees, SameOrders
  <2> QED
    BY <2>1, <2>2
<1> QED
  BY <1>1, <1>2 DEF ReportsInv

\* A report that comes is the last one.
LEMMA Appended ==
  ASSUME NEW q \in Seq(Report), NEW m \in Report
  PROVE  /\ Append(q, m) \in Seq(Report) /\ DOMAIN Append(q, m) = DOMAIN q \cup {Len(q) + 1}
         /\ \A i \in DOMAIN q : Append(q, m)[i] = q[i] /\ i < Len(q) + 1
         /\ Append(q, m)[Len(q) + 1] = m
         /\ \A i \in DOMAIN Append(q, m) : (\E j \in DOMAIN q : Append(q, m)[i] = q[j])
                                           \/ Append(q, m)[i] = m
<1>1. /\ Append(q, m) \in Seq(Report) /\ Len(Append(q, m)) = Len(q) + 1
      /\ \A i \in 1 .. Len(q) : Append(q, m)[i] = q[i]
      /\ Append(q, m)[Len(q) + 1] = m
  BY AppendProperties
<1>2. Len(q) \in Nat /\ DOMAIN q = 1 .. Len(q) /\ DOMAIN Append(q, m) = 1 .. Len(q) + 1
  BY <1>1, Places
<1>3. DOMAIN Append(q, m) = DOMAIN q \cup {Len(q) + 1}
  BY <1>2
<1> QED
  BY <1>1, <1>2, <1>3

\* No report follows the end of its order, because a living order has not ended.
LEMMA EndStaysLast ==
  ASSUME NEW b \in Seq(Order), NEW q \in Seq(Report), ReportsInv(b, q), EndIsLast(q),
         NEW m \in Report, Living(b, m.ref)
  PROVE  EndIsLast(Append(q, m))
<1> DEFINE p == Append(q, m)
<1>1. /\ DOMAIN p = DOMAIN q \cup {Len(q) + 1} /\ \A i \in DOMAIN q : p[i] = q[i] /\ i < Len(q) + 1
      /\ p[Len(q) + 1] = m /\ Len(q) \in Nat /\ DOMAIN q \subseteq Nat
  BY Appended, Places
<1>2. SUFFICES ASSUME NEW i \in DOMAIN p, NEW j \in DOMAIN p, i < j, p[i].kind = "canceled"
               PROVE  p[j].ref # p[i].ref
  BY DEF EndIsLast
<1> HIDE DEF p
<1>3. i \in DOMAIN q
  BY <1>1, <1>2
<1>4. p[i] = q[i] /\ ~Living(b, q[i].ref)
  BY <1>1, <1>2, <1>3 DEF ReportsInv, Agrees
<1>5. CASE j \in DOMAIN q
  BY <1>1, <1>2, <1>3, <1>5 DEF EndIsLast
<1>6. CASE j = Len(q) + 1
  BY <1>1, <1>4, <1>6
<1> QED
  BY <1>1, <1>5, <1>6

\* The steps of the exchange.
LEMMA AcceptStep ==
  ASSUME NEW b \in Seq(Order), NEW q \in Seq(Report), ReportsInv(b, q),
         NEW x \in DOMAIN b, b[x].status = "sent"
  PROVE  Exchanged(b, q, WithStatus(b, x, "live"), Append(q, [kind |-> "queueing", ref |-> x]))
<1> DEFINE b2 == WithStatus(b, x, "live")
           m == [kind |-> "queueing", ref |-> x]
           q2 == Append(q, m)
<1>2. m \in Report /\ m.ref = x /\ m.kind = "queueing"
  BY OrderFields DEF Report
<1> HIDE DEF m
<1>4. /\ b2 \in Seq(Order) /\ DOMAIN b2 = DOMAIN b /\ \A r \in DOMAIN b : r # x => b2[r] = b[r]
      /\ b2[x].vol = b[x].vol /\ b2[x].traded = b[x].traded /\ b2[x].leg = b[x].leg
      /\ b2[x].half = b[x].half /\ b2[x].status = "live"
  BY StatusIs
<1> HIDE DEF b2
<1>5. \A r : Living(b2, r) <=> Living(b, r)
  BY <1>4 DEF Living
<1>6. SameOrders(b, b2) /\ \A r \in DOMAIN b : b2[r].traded = b[r].traded
  BY <1>4, <1>5 DEF SameOrders
<1>7. q2 \in Seq(Report) /\ \A i \in DOMAIN q2 : (\E j \in DOMAIN q : q2[i] = q[j]) \/ q2[i] = m
  BY <1>2, Appended
<1>8. \A r, kinds : Underway(q2, r, kinds) = Underway(q, r, kinds)
  <2> TAKE r, kinds
  <2>1. Underway(q2, r, kinds) = Underway(q, r, kinds) + Borne(m, r, kinds)
    BY <1>2, UnderwayAppend
  <2>2. Borne(m, r, kinds) = 0 /\ Underway(q, r, kinds) \in Nat
    BY <1>2, UnderwayIsNat DEF Borne, Bears
  <2> QED
    BY <2>1, <2>2
<1> HIDE DEF q2
<1>9. \A r : Coming(b2, q2, r) <= Coming(b, q, r)
  <2> TAKE r
  <2>1. Coming(b, q, r) = (IF Living(b, r) THEN b[r].vol - b[r].traded ELSE 0)
                              + Underway(q, r, {"trade", "canceled"})
        /\ Coming(b, q, r) \in Int
    BY ComingIs
  <2>2. Coming(b2, q2, r) = (IF Living(b2, r) THEN b2[r].vol - b2[r].traded ELSE 0)
                              + Underway(q2, r, {"trade", "canceled"})
    BY <1>4, <1>7, ComingIs
  <2>3. Living(b, r) => b2[r].vol = b[r].vol /\ b2[r].traded = b[r].traded
    BY <1>6 DEF SameOrders, Living
  <2>4. Coming(b2, q2, r) = Coming(b, q, r)
    BY <2>1, <2>2, <2>3, <1>5, <1>8
  <2> QED
    BY <2>1, <2>4
<1>10. Agrees(b2, m)
  BY <1>2, <1>4 DEF Agrees
<1>11. \A r \in DOMAIN b : b2[r].traded <= b2[r].vol /\ (Living(b2, r) => b2[r].traded < b2[r].vol)
  BY <1>5, <1>6 DEF ReportsInv, SameOrders
<1>12. ReportsInv(b2, q2)
  BY <1>4, <1>6, <1>7, <1>9, <1>10, <1>11, ReportsKept
<1>13. Exchanged(b, q, b2, q2)
  BY <1>4, <1>6, <1>7, <1>8, <1>9, <1>12, QuietStep
<1> QED
  BY <1>13 DEF b2, q2, m

LEMMA OrderEnds ==
  ASSUME NEW b \in Seq(Order), NEW q \in Seq(Report), ReportsInv(b, q), NEW x \in DOMAIN b
  PROVE  /\ WithStatus(b, x, "ended") \in Seq(Order) /\ SameOrders(b, WithStatus(b, x, "ended"))
         /\ WithStatus(b, x, "ended")[x].vol = b[x].vol /\ ~Living(WithStatus(b, x, "ended"), x)
         /\ \A r : r # x => (Living(WithStatus(b, x, "ended"), r) <=> Living(b, r))
         /\ \A r \in DOMAIN b :
              /\ WithStatus(b, x, "ended")[r].traded = b[r].traded
              /\ WithStatus(b, x, "ended")[r].traded <= WithStatus(b, x, "ended")[r].vol
              /\ Living(WithStatus(b, x, "ended"), r) =>
                   WithStatus(b, x, "ended")[r].traded < WithStatus(b, x, "ended")[r].vol
<1> DEFINE b2 == WithStatus(b, x, "ended")
<1>1. /\ b2 \in Seq(Order) /\ DOMAIN b2 = DOMAIN b /\ \A r \in DOMAIN b : r # x => b2[r] = b[r]
      /\ b2[x].vol = b[x].vol /\ b2[x].traded = b[x].traded /\ b2[x].leg = b[x].leg
      /\ b2[x].half = b[x].half /\ b2[x].status = "ended"
  BY StatusIs
<1> HIDE DEF b2
<1>4. ~Living(b2, x) /\ \A r : r # x => (Living(b2, r) <=> Living(b, r))
  BY <1>1 DEF Living
<1>5. SameOrders(b, b2) /\ \A r \in DOMAIN b : b2[r].traded = b[r].traded /\ b2[r].vol = b[r].vol
  BY <1>1, <1>4 DEF SameOrders
<1>6. \A r \in DOMAIN b : b2[r].traded <= b2[r].vol /\ (Living(b2, r) => b2[r].traded < b2[r].vol)
  BY <1>4, <1>5 DEF ReportsInv
<1> QED
  BY <1>1, <1>4, <1>5, <1>6 DEF b2

LEMMA RefuseStep ==
  ASSUME NEW b \in Seq(Order), NEW q \in Seq(Report), ReportsInv(b, q), NEW x \in DOMAIN b
  PROVE  Exchanged(b, q, WithStatus(b, x, "ended"), q)
<1> DEFINE b2 == WithStatus(b, x, "ended")
<1>1. /\ b2 \in Seq(Order) /\ SameOrders(b, b2) /\ ~Living(b2, x)
      /\ \A r : r # x => (Living(b2, r) <=> Living(b, r))
      /\ \A r \in DOMAIN b : /\ b2[r].traded = b[r].traded /\ b2[r].traded <= b2[r].vol
                             /\ Living(b2, r) => b2[r].traded < b2[r].vol
  BY OrderEnds
<1> HIDE DEF b2
<1>2. \A r : Coming(b2, q, r) <= Coming(b, q, r)
  <2> TAKE r
  <2>1. /\ Coming(b, q, r) = (IF Living(b, r) THEN b[r].vol - b[r].traded ELSE 0)
                              + Underway(q, r, {"trade", "canceled"})
        /\ Coming(b, q, r) \in Int
        /\ Underway(q, r, {"trade", "canceled"}) \in Nat
    BY ComingIs
  <2>2. Coming(b2, q, r) = (IF Living(b2, r) THEN b2[r].vol - b2[r].traded ELSE 0)
                              + Underway(q, r, {"trade", "canceled"})
    BY <1>1, ComingIs
  <2>3. Living(b, r) => b2[r].vol = b[r].vol /\ b2[r].traded = b[r].traded
    BY <1>1 DEF SameOrders, Living
  <2>4. Living(b, r) => b[r].vol \in Nat /\ b[r].traded \in Nat /\ b[r].traded <= b[r].vol
    BY OrderFields DEF Living, ReportsInv
  <2>5. Living(b2, r) => Living(b, r)
    BY <1>1
  <2> QED
    BY <2>1, <2>2, <2>3, <2>4, <2>5
<1>3. ReportsInv(b2, q)
  BY <1>1, <1>2, ReportsKept
<1>4. Exchanged(b, q, b2, q)
  BY <1>1, <1>2, <1>3, QuietStep
<1> QED
  BY <1>4 DEF b2

LEMMA CancelStep ==
  ASSUME NEW b \in Seq(Order), NEW q \in Seq(Report), ReportsInv(b, q),
         NEW x \in DOMAIN b, Living(b, x)
  PROVE  Exchanged(b, q, WithStatus(b, x, "ended"),
           Append(q, [kind |-> "canceled", ref |-> x, traded |-> b[x].traded,
                      remain |-> b[x].vol - b[x].traded]))
<1> DEFINE b2 == WithStatus(b, x, "ended")
           m == [kind |-> "canceled", ref |-> x, traded |-> b[x].traded,
                 remain |-> b[x].vol - b[x].traded]
           q2 == Append(q, m)
<1>1. /\ b2 \in Seq(Order) /\ SameOrders(b, b2) /\ ~Living(b2, x) /\ b2[x].vol = b[x].vol
      /\ \A r : r # x => (Living(b2, r) <=> Living(b, r))
      /\ \A r \in DOMAIN b : /\ b2[r].traded = b[r].traded /\ b2[r].traded <= b2[r].vol
                             /\ Living(b2, r) => b2[r].traded < b2[r].vol
  BY OrderEnds
<1> HIDE DEF b2
<1>2. b[x].vol \in Nat /\ b[x].traded \in Nat /\ b[x].traded < b[x].vol /\ x \in Nat
  BY OrderFields DEF ReportsInv
<1>3. /\ m \in Report /\ m.ref = x /\ m.kind = "canceled" /\ Bears(m) = b[x].vol - b[x].traded
      /\ m.traded + m.remain = b[x].vol /\ Bears(m) > 0
  BY <1>2 DEF Report, Bears
<1> HIDE DEF m
<1>4. q2 \in Seq(Report) /\ \A i \in DOMAIN q2 : (\E j \in DOMAIN q : q2[i] = q[j]) \/ q2[i] = m
  BY <1>3, Appended
<1>5. \A r, kinds : Underway(q2, r, kinds) = Underway(q, r, kinds) + Borne(m, r, kinds)
  BY <1>3, UnderwayAppend
<1>6. \A r : Underway(q2, r, {"trade"}) = Underway(q, r, {"trade"})
  <2> TAKE r
  <2>1. Borne(m, r, {"trade"}) = 0 /\ Underway(q, r, {"trade"}) \in Nat
    BY <1>3, UnderwayIsNat DEF Borne
  <2> QED
    BY <1>5, <2>1
<1> HIDE DEF q2
<1>7. \A r : Coming(b2, q2, r) <= Coming(b, q, r)
  <2> TAKE r
  <2>1. /\ Coming(b, q, r) = (IF Living(b, r) THEN b[r].vol - b[r].traded ELSE 0)
                              + Underway(q, r, {"trade", "canceled"})
        /\ Coming(b, q, r) \in Int /\ Underway(q, r, {"trade", "canceled"}) \in Nat
    BY ComingIs
  <2>2. Coming(b2, q2, r) = (IF Living(b2, r) THEN b2[r].vol - b2[r].traded ELSE 0)
                              + Underway(q2, r, {"trade", "canceled"})
    BY <1>1, <1>4, ComingIs
  <2>3. Borne(m, r, {"trade", "canceled"}) = IF r = x THEN b[x].vol - b[x].traded ELSE 0
    BY <1>3 DEF Borne
  <2>4. Living(b, r) => b2[r].vol = b[r].vol /\ b2[r].traded = b[r].traded
    BY <1>1 DEF SameOrders, Living
  <2>5. CASE r = x
    <3>1. Coming(b2, q2, r) = Underway(q, r, {"trade", "canceled"}) + (b[x].vol - b[x].traded)
      BY <1>1, <1>5, <2>1, <2>2, <2>3, <2>5, <1>2
    <3>2. Coming(b, q, r) = (b[x].vol - b[x].traded) + Underway(q, r, {"trade", "canceled"})
      BY <2>1, <2>5
    <3> QED
      BY <3>1, <3>2, <2>1, <1>2
  <2>6. CASE r # x
    <3>1. Underway(q2, r, {"trade", "canceled"}) = Underway(q, r, {"trade", "canceled"})
      BY <1>5, <2>1, <2>3, <2>6
    <3>2. Coming(b2, q2, r) = Coming(b, q, r)
      BY <1>1, <2>1, <2>2, <2>4, <2>6, <3>1
    <3> QED
      BY <2>1, <3>2
  <2> QED
    BY <2>5, <2>6
<1>8. Agrees(b2, m)
  BY <1>1, <1>3 DEF Agrees, SameOrders
<1>9. ReportsInv(b2, q2)
  BY <1>1, <1>4, <1>7, <1>8, ReportsKept
<1>10. Exchanged(b, q, b2, q2)
  BY <1>1, <1>4, <1>6, <1>7, <1>9, QuietStep
<1> QED
  BY <1>10 DEF b2, q2, m

LEMMA FillStep ==
  ASSUME NEW b \in Seq(Order), NEW q \in Seq(Report), ReportsInv(b, q),
         NEW x \in DOMAIN b, b[x].status = "live", NEW v \in Nat, v > 0,
         b[x].traded + v <= b[x].vol
  PROVE  Exchanged(b, q,
           WithTrade(b, x, v), Append(q, [kind |-> "trade", ref |-> x, volume |-> v]))
<1> DEFINE b2 == WithTrade(b, x, v)
           m == [kind |-> "trade", ref |-> x, volume |-> v]
           q2 == Append(q, m)
<1>2. b[x].vol \in Nat /\ b[x].traded \in Nat /\ x \in Nat /\ Living(b, x)
  BY OrderFields DEF Living
<1>3. m \in Report /\ m.ref = x /\ m.kind = "trade" /\ Bears(m) = v
  BY <1>2 DEF Report, Bears
<1> HIDE DEF m
<1>5. /\ b2 \in Seq(Order) /\ DOMAIN b2 = DOMAIN b /\ \A r \in DOMAIN b : r # x => b2[r] = b[r]
      /\ b2[x].vol = b[x].vol /\ b2[x].traded = b[x].traded + v /\ b2[x].leg = b[x].leg
      /\ b2[x].half = b[x].half
      /\ b2[x].status = IF b[x].traded + v = b[x].vol THEN "ended" ELSE "live"
  BY TradeIs
<1> HIDE DEF b2
<1>6. /\ Living(b2, x) <=> b[x].traded + v # b[x].vol
      /\ \A r : r # x => (Living(b2, r) <=> Living(b, r))
  BY <1>5 DEF Living
<1>7. SameOrders(b, b2)
  BY <1>2, <1>5, <1>6 DEF SameOrders
<1>8. q2 \in Seq(Report) /\ \A i \in DOMAIN q2 : (\E j \in DOMAIN q : q2[i] = q[j]) \/ q2[i] = m
  BY <1>3, Appended
<1>9. \A r, kinds : Underway(q2, r, kinds) = Underway(q, r, kinds) + Borne(m, r, kinds)
  BY <1>3, UnderwayAppend
<1> HIDE DEF q2
<1>10. \A r : Coming(b2, q2, r) <= Coming(b, q, r)
  <2> TAKE r
  <2>1. /\ Coming(b, q, r) = (IF Living(b, r) THEN b[r].vol - b[r].traded ELSE 0)
                              + Underway(q, r, {"trade", "canceled"})
        /\ Coming(b, q, r) \in Int /\ Underway(q, r, {"trade", "canceled"}) \in Nat
    BY ComingIs
  <2>2. Coming(b2, q2, r) = (IF Living(b2, r) THEN b2[r].vol - b2[r].traded ELSE 0)
                              + Underway(q2, r, {"trade", "canceled"})
    BY <1>5, <1>8, ComingIs
  <2>3. Borne(m, r, {"trade", "canceled"}) = IF r = x THEN v ELSE 0
    BY <1>3 DEF Borne
  <2>5. CASE r = x
    <3>1. Coming(b2, q2, r) = (IF b[x].traded + v # b[x].vol THEN b[x].vol - (b[x].traded + v) ELSE 0)
                               + (Underway(q, r, {"trade", "canceled"}) + v)
      BY <1>5, <1>6, <1>9, <2>2, <2>3, <2>5
    <3>2. Coming(b, q, r) = (b[x].vol - b[x].traded) + Underway(q, r, {"trade", "canceled"})
      BY <1>2, <2>1, <2>5
    <3> QED
      BY <3>1, <3>2, <2>1, <1>2
  <2>6. CASE r # x
    <3>1. Underway(q2, r, {"trade", "canceled"}) = Underway(q, r, {"trade", "canceled"})
      BY <1>9, <2>1, <2>3, <2>6
    <3>2. Living(b, r) => b2[r] = b[r]
      BY <1>5, <2>6 DEF Living
    <3>3. Coming(b2, q2, r) = Coming(b, q, r)
      BY <1>6, <2>1, <2>2, <2>6, <3>1, <3>2
    <3> QED
      BY <2>1, <3>3
  <2> QED
    BY <2>5, <2>6
<1>11. Agrees(b2, m)
  BY <1>3, <1>5 DEF Agrees
<1>12. \A r \in DOMAIN b : b2[r].traded <= b2[r].vol /\ (Living(b2, r) => b2[r].traded < b2[r].vol)
  <2> TAKE r \in DOMAIN b
  <2>1. CASE r = x
    <3>1. b2[x].traded = b[x].traded + v /\ b2[x].vol = b[x].vol /\ b[x].traded + v \in Nat
      BY <1>2, <1>5
    <3>2. Living(b2, x) => b[x].traded + v < b[x].vol
      BY <1>2, <1>6, <3>1
    <3> QED
      BY <2>1, <3>1, <3>2
  <2>2. CASE r # x
    BY <1>5, <1>6, <2>2 DEF ReportsInv
  <2> QED
    BY <2>1, <2>2
<1>13. ReportsInv(b2, q2)
  BY <1>5, <1>7, <1>8, <1>10, <1>11, <1>12, ReportsKept
<1>14. \A l, h : OrdersOf(b2, l, h) = OrdersOf(b, l, h)
  BY <1>7, SameOrdersOf
<1>15. ASSUME NEW l, NEW h, NEW r, Only(b, q, l, h, r)
       PROVE  Known(b2, q2, l, h, r) = Known(b, q, l, h, r)
  <2>1. CASE x \in OrdersOf(b, l, h)
    <3>1. r = x
      <4>1. Coming(b, q, x) > 0 /\ Coming(b, q, x) \in Nat
        BY <1>2, ComingBounds
      <4> QED
        BY <1>15, <2>1, <4>1 DEF Only
    <3>2. TradedOf(b2, l, h) = TradedOf(b, l, h) + v
      <4>1. b2[x].traded = b[x].traded + v
        BY <1>5
      <4>2. \A y \in OrdersOf(b, l, h) : y # x => b2[y].traded = b[y].traded
        BY <1>5, OrdersFinite
      <4> QED
        BY <1>5, <1>14, <2>1, <4>1, <4>2, TradedMore
    <3>3. Underway(q2, r, {"trade"}) = Underway(q, r, {"trade"}) + v
      <4>1. Borne(m, r, {"trade"}) = v
        BY <1>3, <3>1 DEF Borne
      <4> QED
        BY <1>9, <4>1
    <3>4. TradedOf(b, l, h) \in Int /\ Underway(q, r, {"trade"}) \in Nat
      BY TradedIsInt, UnderwayIsNat
    <3> QED
      BY <3>2, <3>3, <3>4 DEF Known
  <2>2. CASE x \notin OrdersOf(b, l, h)
    <3>1. TradedOf(b2, l, h) = TradedOf(b, l, h)
      <4>1. \A y \in OrdersOf(b, l, h) : b2[y].traded = b[y].traded
        BY <1>5, <2>2, OrdersFinite
      <4> QED
        BY <1>5, <1>14, <4>1, TradedSame
    <3>2. r # x
      BY <1>2, <1>15, <2>2, OrderFields DEF Only, NullRef
    <3>3. Borne(m, r, {"trade"}) = 0 /\ Underway(q, r, {"trade"}) \in Nat
      BY <1>3, <3>2, UnderwayIsNat DEF Borne
    <3>4. Underway(q2, r, {"trade"}) = Underway(q, r, {"trade"})
      BY <1>9, <3>3
    <3> QED
      BY <3>1, <3>4 DEF Known
  <2> QED
    BY <2>1, <2>2
<1> QED
  BY <1>5, <1>8, <1>10, <1>13, <1>14, <1>15 DEF Exchanged, b2, q2, m

\* OnTick asks for cancellations, which changes nothing else of the orders.
LEMMA AskStep ==
  ASSUME NEW b \in Seq(Order), NEW q \in Seq(Report), ReportsInv(b, q), NEW asked,
         NEW b2, b2 = [r \in DOMAIN b |-> [b[r] EXCEPT !.cancel = @ \/ r \in asked]]
  PROVE  Exchanged(b, q, b2, q)
<1>1. \A r \in DOMAIN b : b[r] \in Order
  BY Places
<1>2. /\ b2 \in Seq(Order) /\ DOMAIN b2 = DOMAIN b
      /\ \A r \in DOMAIN b : /\ b2[r].leg = b[r].leg /\ b2[r].half = b[r].half
                             /\ b2[r].vol = b[r].vol /\ b2[r].traded = b[r].traded
                             /\ b2[r].status = b[r].status
  <2>1. \A r \in DOMAIN b : b2[r] = [b[r] EXCEPT !.cancel = @ \/ r \in asked]
    OBVIOUS
  <2>2. ASSUME NEW r \in DOMAIN b
        PROVE  /\ b2[r] \in Order /\ b2[r].leg = b[r].leg /\ b2[r].half = b[r].half
               /\ b2[r].vol = b[r].vol /\ b2[r].traded = b[r].traded
               /\ b2[r].status = b[r].status
    <3> DEFINE c == b[r].cancel \/ r \in asked
    <3>1. b[r] \in Order /\ b2[r] = [b[r] EXCEPT !.cancel = c] /\ c \in BOOLEAN
      BY <1>1, <2>1
    <3> HIDE DEF c
    <3> QED
      BY <3>1 DEF Order
  <2>3. DOMAIN b2 = DOMAIN b /\ DOMAIN b = 1 .. Len(b) /\ Len(b) \in Nat
    BY Places
  <2>4. b2 \in [1 .. Len(b) -> Order]
    BY <2>2, <2>3
  <2>5. b2 \in Seq(Order)
    BY <2>3, <2>4
  <2> QED
    BY <2>2, <2>3, <2>5
<1>3. \A r : Living(b2, r) <=> Living(b, r)
  BY <1>2 DEF Living
<1>4. SameOrders(b, b2)
  BY <1>2, <1>3 DEF SameOrders
<1>5. \A r : Coming(b2, q, r) <= Coming(b, q, r)
  <2> TAKE r
  <2>1. Coming(b, q, r) = (IF Living(b, r) THEN b[r].vol - b[r].traded ELSE 0)
                              + Underway(q, r, {"trade", "canceled"})
        /\ Coming(b, q, r) \in Int
    BY ComingIs
  <2>2. Coming(b2, q, r) = (IF Living(b2, r) THEN b2[r].vol - b2[r].traded ELSE 0)
                              + Underway(q, r, {"trade", "canceled"})
    BY <1>2, ComingIs
  <2>3. Living(b, r) => b2[r].vol = b[r].vol /\ b2[r].traded = b[r].traded
    BY <1>2 DEF Living
  <2>4. Coming(b2, q, r) = Coming(b, q, r)
    BY <1>3, <2>1, <2>2, <2>3
  <2> QED
    BY <2>1, <2>4
<1>6. \A r \in DOMAIN b : b2[r].traded <= b2[r].vol /\ (Living(b2, r) => b2[r].traded < b2[r].vol)
  BY <1>2, <1>3 DEF ReportsInv
<1>7. ReportsInv(b2, q)
  BY <1>2, <1>4, <1>5, <1>6, ReportsKept
<1> QED
  BY <1>2, <1>4, <1>5, <1>7, QuietStep

\* Two reports change places.
LEMMA SwapStep ==
  ASSUME NEW b \in Seq(Order), NEW q \in Seq(Report), ReportsInv(b, q), Len(q) = 2
  PROVE  Exchanged(b, q, b, <<q[2], q[1]>>)
<1> DEFINE m == q[1]
           n == q[2]
           e == << >>
           p == Append(e, m)
           k == Append(e, n)
           q2 == <<n, m>>
<1>1. DOMAIN q = {1, 2} /\ m \in Report /\ n \in Report
  BY Places
<1>2. q = Append(p, n)
  OBVIOUS
<1>3. q2 = Append(k, m)
  OBVIOUS
<1>4. e \in Seq(Report)
  OBVIOUS
<1>8. q2 \in Seq(Report) /\ \A i \in DOMAIN q2 : \E j \in DOMAIN q : q2[i] = q[j]
  BY <1>1 DEF m, n
<1> HIDE DEF m, n, e, q2
<1>5. p \in Seq(Report) /\ k \in Seq(Report)
  BY <1>1, <1>4, AppendProperties
<1>6. \A r, kinds : Underway(p, r, kinds) = Underway(e, r, kinds) + Borne(m, r, kinds)
                 /\ Underway(k, r, kinds) = Underway(e, r, kinds) + Borne(n, r, kinds)
  BY <1>1, <1>4, UnderwayAppend
<1> HIDE DEF p, k
<1>9. \A r, kinds : Underway(q2, r, kinds) = Underway(q, r, kinds)
  <2> TAKE r, kinds
  <2>1. Underway(q, r, kinds) = Underway(p, r, kinds) + Borne(n, r, kinds)
    BY <1>1, <1>2, <1>5, UnderwayAppend
  <2>2. Underway(Append(k, m), r, kinds) = Underway(k, r, kinds) + Borne(m, r, kinds)
    BY <1>1, <1>5, UnderwayAppend
  <2>3. Borne(m, r, kinds) \in Nat /\ Borne(n, r, kinds) \in Nat /\ Underway(e, r, kinds) \in Nat
    BY <1>1, <1>4, ReportFields, UnderwayIsNat
  <2> QED
    BY <1>3, <1>6, <2>1, <2>2, <2>3
<1>10. \A r : Coming(b, q2, r) <= Coming(b, q, r)
  <2> TAKE r
  <2>1. Coming(b, q2, r) = Coming(b, q, r)
    BY <1>9 DEF Coming
  <2> QED
    BY <2>1, ComingIs
<1>11. SameOrders(b, b)
  BY DEF SameOrders
<1>12. \A r \in DOMAIN b : b[r].traded <= b[r].vol /\ (Living(b, r) => b[r].traded < b[r].vol)
  BY DEF ReportsInv
<1>13. ReportsInv(b, q2)
  BY <1>8, <1>10, <1>11, <1>12, ReportsKept
<1>14. Exchanged(b, q, b, q2)
  BY <1>8, <1>9, <1>10, <1>11, <1>13, QuietStep
<1> QED
  BY <1>14 DEF q2, m, n

-----------------------------------------------------------------------------
(* What a strategy does                                                    *)

NewOrder(l, h, vol) ==
  [leg |-> l, half |-> h, vol |-> vol, traded |-> 0, status |-> "sent", cancel |-> FALSE]

\* A book with a new order, of which everything is to come.
Placed(b, q, b2, l, h, vol) ==
  LET n == Len(b) + 1
  IN /\ b2 \in Seq(Order) /\ ReportsInv(b2, q)
     /\ n # NullRef /\ n \notin DOMAIN b /\ n \in OrdersOf(b2, l, h)
     /\ \A x, y : OrdersOf(b, x, y) \subseteq OrdersOf(b2, x, y)
     /\ \A x, y : OrdersOf(b2, x, y) \subseteq OrdersOf(b, x, y) \cup {n}
     /\ \A x, y : n \in OrdersOf(b2, x, y) => x = l /\ y = h
     /\ \A x, y : TradedOf(b2, x, y) = TradedOf(b, x, y)
     /\ \A r : r # n => Coming(b2, q, r) = Coming(b, q, r)
     /\ Coming(b2, q, n) = vol /\ Underway(q, n, {"trade"}) = 0

LEMMA PlaceStep ==
  ASSUME NEW b \in Seq(Order), NEW q \in Seq(Report), ReportsInv(b, q),
         NEW l \in Legs, NEW h \in Half, NEW vol \in Nat \ {0}
  PROVE  Placed(b, q, Append(b, NewOrder(l, h, vol)), l, h, vol)
<1> DEFINE n == Len(b) + 1
           o == NewOrder(l, h, vol)
           b2 == Append(b, o)
<1>1. /\ o \in Order /\ o.leg = l /\ o.half = h /\ o.vol = vol /\ o.traded = 0 /\ o.status = "sent"
  BY DEF NewOrder, Order
<1>2. /\ b2 \in Seq(Order) /\ Len(b2) = n /\ b2[n] = o /\ \A r \in 1 .. Len(b) : b2[r] = b[r]
  BY <1>1, AppendProperties
<1>3. /\ Len(b) \in Nat /\ DOMAIN b = 1 .. Len(b) /\ DOMAIN b2 = 1 .. n
      /\ n \notin DOMAIN b /\ n # 0 /\ DOMAIN b2 = DOMAIN b \cup {n}
  BY <1>2, Places
<1> HIDE DEF n, o, b2
<1>4. /\ n \in OrdersOf(b2, l, h)
      /\ \A x, y : OrdersOf(b, x, y) \subseteq OrdersOf(b2, x, y)
      /\ \A x, y : OrdersOf(b2, x, y) \subseteq OrdersOf(b, x, y) \cup {n}
      /\ \A x, y : n \in OrdersOf(b2, x, y) => x = l /\ y = h
  BY <1>1, <1>2, <1>3 DEF OrdersOf
<1>5. Living(b2, n) /\ \A r : r # n => (Living(b2, r) <=> Living(b, r))
  BY <1>1, <1>2, <1>3 DEF Living
<1>6. ASSUME NEW x, NEW y PROVE TradedOf(b2, x, y) = TradedOf(b, x, y)
  <2> DEFINE f == [r \in DOMAIN b |-> b[r].traded]
             g == [r \in DOMAIN b2 |-> b2[r].traded]
             S == OrdersOf(b, x, y)
             T == OrdersOf(b2, x, y)
  <2>1. IsFiniteSet(S) /\ IsFiniteSet(T) /\ S \subseteq DOMAIN b /\ T \subseteq DOMAIN b2
    BY <1>2, OrdersFinite
  <2>2. S = T \ {n}
    BY <1>3, <1>4, <2>1
  <2>3. \A r \in T : g[r] \in Int
    BY <1>2, <2>1, OrderFields
  <2>4. \A r \in S : f[r] = g[r]
    BY <1>2, <1>3, <2>1
  <2>5. n \in T => g[n] = 0
    BY <1>1, <1>2, <2>1
  <2>6. TradedOf(b, x, y) \in Int
    BY TradedIsInt
  <2>7. TradedOf(b, x, y) = SumFunctionOnSet(f, S) /\ TradedOf(b2, x, y) = SumFunctionOnSet(g, T)
    BY DEF TradedOf
  <2> HIDE DEF f, g, S, T
  <2>8. SumFunctionOnSet(f, S) = SumFunctionOnSet(g, S)
    BY <2>1, <2>4, SumSame
  <2>9. CASE n \in T
    <3>1. SumFunctionOnSet(g, T) = g[n] + SumFunctionOnSet(g, T \ {n})
      BY <2>1, <2>3, <2>9, SumTake
    <3> QED
      BY <2>2, <2>5, <2>6, <2>7, <2>8, <2>9, <3>1
  <2>10. CASE n \notin T
    <3>1. S = T
      BY <2>2, <2>10
    <3> QED
      BY <2>7, <2>8, <3>1
  <2> QED
    BY <2>9, <2>10
<1>7. Underway(q, n, {"trade", "canceled"}) = 0 /\ Underway(q, n, {"trade"}) = 0
  <2>1. \A i \in DOMAIN q : q[i].ref # n
    BY <1>3 DEF ReportsInv, Agrees
  <2>2. \A i \in DOMAIN q : Borne(q[i], n, {"trade", "canceled"}) = 0 /\ Borne(q[i], n, {"trade"}) = 0
    BY <2>1 DEF Borne
  <2> QED
    BY <2>2, UnderwayNone
<1>8. Coming(b2, q, n) = vol
  <2>1. Coming(b2, q, n) = (IF Living(b2, n) THEN b2[n].vol - b2[n].traded ELSE 0)
                              + Underway(q, n, {"trade", "canceled"})
    BY <1>2, ComingIs
  <2> QED
    BY <1>1, <1>2, <1>5, <1>7, <2>1
<1>9. \A r : r # n => Coming(b2, q, r) = Coming(b, q, r)
  <2> TAKE r
  <2>1. Coming(b, q, r) = (IF Living(b, r) THEN b[r].vol - b[r].traded ELSE 0)
                              + Underway(q, r, {"trade", "canceled"})
    BY ComingIs
  <2>2. Coming(b2, q, r) = (IF Living(b2, r) THEN b2[r].vol - b2[r].traded ELSE 0)
                              + Underway(q, r, {"trade", "canceled"})
    BY <1>2, ComingIs
  <2>3. Living(b, r) => b2[r] = b[r]
    BY <1>2, <1>3 DEF Living
  <2> QED
    BY <1>5, <2>1, <2>2, <2>3
<1>10. ReportsInv(b2, q)
  <2>1. ASSUME NEW r \in DOMAIN b2
        PROVE  /\ b2[r].traded <= b2[r].vol /\ Coming(b2, q, r) <= b2[r].vol
               /\ Living(b2, r) => b2[r].traded < b2[r].vol
    <3>1. CASE r = n
      BY <1>1, <1>2, <1>8, <3>1
    <3>2. CASE r # n
      <4>1. r \in DOMAIN b /\ b2[r] = b[r]
        BY <1>2, <1>3, <3>2
      <4> QED
        BY <1>5, <1>9, <3>2, <4>1 DEF ReportsInv
    <3> QED
      BY <3>1, <3>2
  <2>2. ASSUME NEW i \in DOMAIN q PROVE Agrees(b2, q[i])
    <3>1. Agrees(b, q[i])
      BY DEF ReportsInv
    <3>2. q[i].ref \in DOMAIN b
      BY <3>1 DEF Agrees
    <3>3. q[i].ref # n /\ q[i].ref \in DOMAIN b2 /\ b2[q[i].ref] = b[q[i].ref]
      BY <1>2, <1>3, <3>2
    <3>4. Living(b2, q[i].ref) <=> Living(b, q[i].ref)
      BY <1>5, <3>3
    <3> QED
      BY <3>1, <3>3, <3>4 DEF Agrees
  <2> QED
    BY <2>1, <2>2 DEF ReportsInv
<1> QED
  BY <1>2, <1>3, <1>4, <1>6, <1>7, <1>8, <1>9, <1>10 DEF Placed, NullRef, n, o, b2

\* A report is handled.
LEMMA HandledStep ==
  ASSUME NEW b \in Seq(Order), NEW q \in Seq(Report), ReportsInv(b, q), q # << >>
  PROVE  /\ Head(q) \in Report /\ Agrees(b, Head(q))
         /\ Tail(q) \in Seq(Report) /\ ReportsInv(b, Tail(q))
         /\ EndIsLast(q) => EndIsLast(Tail(q))
         /\ EndIsLast(q) /\ Head(q).kind = "canceled" => Coming(b, Tail(q), Head(q).ref) = 0
         /\ \A r : /\ Coming(b, q, r) = Coming(b, Tail(q), r) + Borne(Head(q), r, {"trade", "canceled"})
                   /\ Underway(q, r, {"trade"}) = Underway(Tail(q), r, {"trade"})
                                                  + Borne(Head(q), r, {"trade"})
<1> DEFINE p == Tail(q)
           m == Head(q)
<1>1. p \in Seq(Report) /\ m \in Report /\ Len(q) = Len(p) + 1
      /\ \A i \in 1 .. Len(p) : p[i] = q[i + 1]
  BY HeadTailProperties, Places
<1>2. Len(p) \in Nat /\ DOMAIN q = 1 .. Len(p) + 1 /\ DOMAIN p = 1 .. Len(p) /\ m = q[1]
  BY <1>1, Places
<1>3. \A r, kinds : Underway(q, r, kinds) = Borne(m, r, kinds) + Underway(p, r, kinds)
  BY UnderwayTail
<1> HIDE DEF p, m
<1>4. ASSUME NEW r
      PROVE  /\ Coming(b, q, r) = Coming(b, p, r) + Borne(m, r, {"trade", "canceled"})
             /\ Underway(q, r, {"trade"}) = Underway(p, r, {"trade"}) + Borne(m, r, {"trade"})
             /\ Coming(b, p, r) <= Coming(b, q, r) /\ Coming(b, p, r) \in Int
  <2>1. /\ Coming(b, q, r) = (IF Living(b, r) THEN b[r].vol - b[r].traded ELSE 0)
                              + Underway(q, r, {"trade", "canceled"})
        /\ Coming(b, q, r) \in Int
        /\ Coming(b, p, r) = (IF Living(b, r) THEN b[r].vol - b[r].traded ELSE 0)
                              + Underway(p, r, {"trade", "canceled"})
        /\ Coming(b, p, r) \in Int /\ Underway(p, r, {"trade", "canceled"}) \in Nat
        /\ Underway(p, r, {"trade"}) \in Nat
    BY <1>1, ComingIs
  <2>2. Borne(m, r, {"trade", "canceled"}) \in Nat /\ Borne(m, r, {"trade"}) \in Nat
    BY <1>1, ReportFields
  <2>3. Living(b, r) => b[r].vol - b[r].traded \in Int
    BY OrderFields DEF Living
  <2> QED
    BY <1>3, <2>1, <2>2, <2>3
<1>5. ReportsInv(b, p)
  <2>1. SameOrders(b, b)
    BY DEF SameOrders
  <2>2. \A r \in DOMAIN b : b[r].traded <= b[r].vol /\ (Living(b, r) => b[r].traded < b[r].vol)
    BY DEF ReportsInv
  <2>3. \A i \in DOMAIN p : \E j \in DOMAIN q : p[i] = q[j]
    <3> TAKE i \in DOMAIN p
    <3>1. i + 1 \in DOMAIN q /\ p[i] = q[i + 1]
      BY <1>1, <1>2
    <3> QED
      BY <3>1
  <2> QED
    BY <1>1, <1>4, <2>1, <2>2, <2>3, ReportsKept
<1>6. Agrees(b, m)
  BY <1>2 DEF ReportsInv
<1>7. ASSUME EndIsLast(q) PROVE EndIsLast(p)
  <2> SUFFICES ASSUME NEW i \in DOMAIN p, NEW j \in DOMAIN p, i < j, p[i].kind = "canceled"
               PROVE  p[j].ref # p[i].ref
    BY DEF EndIsLast
  <2>1. i + 1 \in DOMAIN q /\ j + 1 \in DOMAIN q /\ i + 1 < j + 1 /\ p[i] = q[i + 1] /\ p[j] = q[j + 1]
    BY <1>1, <1>2
  <2> QED
    BY <1>7, <2>1 DEF EndIsLast
<1>8. ASSUME EndIsLast(q), m.kind = "canceled" PROVE Coming(b, p, m.ref) = 0
  <2>1. \A i \in DOMAIN p : p[i].ref # m.ref
    <3> TAKE i \in DOMAIN p
    <3>1. 1 \in DOMAIN q /\ i + 1 \in DOMAIN q /\ 1 < i + 1 /\ p[i] = q[i + 1]
      BY <1>1, <1>2
    <3> QED
      BY <1>2, <1>8, <3>1 DEF EndIsLast
  <2>2. \A i \in DOMAIN p : Borne(p[i], m.ref, {"trade", "canceled"}) = 0
    BY <2>1 DEF Borne
  <2>3. Underway(p, m.ref, {"trade", "canceled"}) = 0
    BY <1>1, <2>2, UnderwayNone
  <2>4. ~Living(b, m.ref)
    BY <1>6, <1>8 DEF Agrees
  <2> QED
    BY <1>1, <2>3, <2>4, ComingIs
<1> QED
  BY <1>1, <1>4, <1>5, <1>6, <1>7, <1>8 DEF p, m

\* The order that a strategy asks for gets the reference n, or is not placed.
Asked(b, q, b2, l, h, vol, n) ==
  \/ n = NullRef /\ b2 = b
  \/ n = Len(b) + 1 /\ Placed(b, q, b2, l, h, vol)

\* Either way the book has what it had, and maybe an order n.
Grown(b, q, b2, l, h, vol, n) ==
  /\ b2 \in Seq(Order) /\ ReportsInv(b2, q) /\ n \in Nat /\ n \notin DOMAIN b
  /\ n # NullRef => n \in OrdersOf(b2, l, h)
  /\ \A x, y : OrdersOf(b, x, y) \subseteq OrdersOf(b2, x, y)
  /\ \A x, y, r : r \in OrdersOf(b2, x, y) =>
       r \in OrdersOf(b, x, y) \/ (r = n /\ n # NullRef /\ x = l /\ y = h)
  /\ \A x, y : TradedOf(b2, x, y) = TradedOf(b, x, y)
  /\ \A r \in DOMAIN b \cup {NullRef} : Coming(b2, q, r) = Coming(b, q, r)
  /\ Coming(b2, q, n) \in Nat /\ Coming(b2, q, n) <= vol /\ Underway(q, n, {"trade"}) = 0

LEMMA AskedIs ==
  ASSUME NEW b \in Seq(Order), NEW q \in Seq(Report), ReportsInv(b, q),
         NEW b2, NEW l, NEW h, NEW vol \in Nat, NEW n, Asked(b, q, b2, l, h, vol, n)
  PROVE  Grown(b, q, b2, l, h, vol, n)
<1>1. NullRef \notin DOMAIN b /\ NullRef \in Nat /\ Len(b) \in Nat
  BY Places DEF NullRef
<1>2. CASE n = NullRef /\ b2 = b
  <2>1. Coming(b, q, NullRef) = 0 /\ Underway(q, NullRef, {"trade"}) = 0
    BY <1>1, ComingBounds
  <2> QED
    BY <1>1, <1>2, <2>1 DEF Grown
<1>3. CASE n = Len(b) + 1 /\ Placed(b, q, b2, l, h, vol)
  BY <1>1, <1>3 DEF Placed, Grown
<1> QED
  BY <1>2, <1>3 DEF Asked

-----------------------------------------------------------------------------
(* The legs                                                                *)

\* The states of a leg are different ones.
LEMMA StatesDiffer ==
  /\ \A h \in Half : /\ Ini[h] # "T_INI" /\ Waiting[h] # "T_INI" /\ Finished[h] # "T_INI"
                     /\ Ini[h] \in TradeState /\ Waiting[h] \in TradeState
                     /\ Finished[h] \in TradeState
  /\ \A h \in Half, k \in Half : /\ Ini[h] # Waiting[k] /\ Ini[h] # Finished[k]
                                 /\ Waiting[h] # Finished[k]
                                 /\ h # k => /\ Ini[h] # Ini[k] /\ Waiting[h] # Waiting[k]
                                             /\ Finished[h] # Finished[k]
  /\ "T_INI" \in TradeState /\ "in" \in Half /\ "out" \in Half /\ "in" # "out"
  /\ \A h \in Half : h # "in" => h = "out"
  /\ "Minuend" \in Legs /\ "Subtrahend" \in Legs /\ "Minuend" # "Subtrahend"
  /\ \A l \in Legs : l # "Minuend" => l = "Subtrahend"
BY DEF Half, Ini, Waiting, Finished, TradeState, Legs

LEMMA LegFields ==
  ASSUME NEW g \in [Legs -> Leg], NEW l \in Legs
  PROVE  /\ g[l].state \in TradeState /\ g[l].vol \in Nat /\ g[l].deal \in Nat
         /\ g[l].pos \in 0 .. UIntSize - 1 /\ g[l].pos \in Nat
         /\ \A h \in Half : g[l].ref[h] \in Nat /\ g[l].sys[h] \in Nat
<1>1. g[l] \in Leg
  OBVIOUS
<1>2. UIntSize \in Nat
  BY ArbitrageAssumption
<1> QED
  BY <1>1, <1>2 DEF Leg

\* The reference of a leg belongs to no other half.
LEMMA RefIsOne ==
  ASSUME NEW g, NEW b \in Seq(Order), RefsInv(g, b), NEW l \in Legs, NEW h \in Half
  PROVE  /\ g[l].ref[h] \in OrdersOf(b, l, h) \cup {NullRef}
         /\ g[l].ref[h] \in DOMAIN b \cup {NullRef}
         /\ \A x \in Legs, y \in Half :
              g[x].ref[y] = g[l].ref[h] /\ g[l].ref[h] # NullRef => x = l /\ y = h
<1>1. g[l].ref[h] # NullRef => g[l].ref[h] \in OrdersOf(b, l, h)
  BY DEF RefsInv
<1>2. OrdersOf(b, l, h) \subseteq DOMAIN b
  BY OrdersFinite
<1>3. \A x \in Legs, y \in Half :
        g[x].ref[y] = g[l].ref[h] /\ g[l].ref[h] # NullRef => x = l /\ y = h
  BY <1>1 DEF RefsInv, OrdersOf
<1> QED
  BY <1>1, <1>2, <1>3

\* The references are kept, and a sysID is that of the order or is forgotten.
LEMMA RefsSame ==
  ASSUME NEW g, NEW g2, NEW b, RefsInv(g, b),
         \A l \in Legs, h \in Half : /\ g2[l].ref[h] = g[l].ref[h]
                                     /\ g2[l].sys[h] \in {NullRef, g[l].ref[h], g[l].sys[h]}
  PROVE  RefsInv(g2, b)
BY DEF RefsInv

\* One reference is a new one.
NewRef(g, g2, l, h, n) ==
  \A x \in Legs, y \in Half :
    IF x = l /\ y = h THEN g2[x].ref[y] = n /\ g2[x].sys[y] = NullRef
                      ELSE g2[x].ref[y] = g[x].ref[y] /\ g2[x].sys[y] = g[x].sys[y]

LEMMA RefsAsked ==
  ASSUME NEW g, NEW g2, NEW b \in Seq(Order), NEW q \in Seq(Report), ReportsInv(b, q), RefsInv(g, b),
         NEW b2, NEW l, NEW h, NEW vol \in Nat, NEW n, Asked(b, q, b2, l, h, vol, n),
         NewRef(g, g2, l, h, n)
  PROVE  RefsInv(g2, b2)
<1>0. Grown(b, q, b2, l, h, vol, n)
  BY AskedIs
<1>1. n # NullRef => n \in OrdersOf(b2, l, h)
  BY <1>0 DEF Grown
<1>2. \A x, y : OrdersOf(b, x, y) \subseteq OrdersOf(b2, x, y)
  BY <1>0 DEF Grown
<1> SUFFICES ASSUME NEW x \in Legs, NEW y \in Half
             PROVE  /\ g2[x].ref[y] # NullRef => g2[x].ref[y] \in OrdersOf(b2, x, y)
                    /\ g2[x].sys[y] \in {NullRef, g2[x].ref[y]}
  BY DEF RefsInv
<1>3. CASE x = l /\ y = h
  BY <1>1, <1>3 DEF NewRef
<1>4. CASE ~(x = l /\ y = h)
  <2>1. g2[x].ref[y] = g[x].ref[y] /\ g2[x].sys[y] = g[x].sys[y]
    BY <1>4 DEF NewRef
  <2>2. /\ g[x].ref[y] # NullRef => g[x].ref[y] \in OrdersOf(b, x, y)
        /\ g[x].sys[y] \in {NullRef, g[x].ref[y]}
    BY DEF RefsInv
  <2> QED
    BY <1>2, <2>1, <2>2
<1> QED
  BY <1>3, <1>4

\* Of the orders of each half only that of the reference may bring something.
OnlyRefs(g, b, q) == \A x \in Legs, y \in Half : Only(b, q, x, y, g[x].ref[y])

\* Each leg knows what it knew.
KnownSame(g, b, q, g2, b2, q2) ==
  \A x \in Legs, y \in Half :
    Known(b2, q2, x, y, g2[x].ref[y]) = Known(b, q, x, y, g[x].ref[y])

\* What a leg knows is not changed by a new order, if the order before it brings
\* nothing any more.
LEMMA CleanAsked ==
  ASSUME NEW g, NEW g2, NEW b \in Seq(Order), NEW q \in Seq(Report), ReportsInv(b, q), RefsInv(g, b),
         NEW b2, NEW l \in Legs, NEW h \in Half, NEW vol \in Nat, NEW n, Asked(b, q, b2, l, h, vol, n),
         NewRef(g, g2, l, h, n), Coming(b, q, g[l].ref[h]) = 0, OnlyRefs(g, b, q)
  PROVE  OnlyRefs(g2, b2, q) /\ KnownSame(g, b, q, g2, b2, q)
<1>0. Grown(b, q, b2, l, h, vol, n)
  BY AskedIs
<1>1. /\ n # NullRef => n \in OrdersOf(b2, l, h)
      /\ \A x, y : OrdersOf(b, x, y) \subseteq OrdersOf(b2, x, y)
      /\ \A x, y, r : r \in OrdersOf(b2, x, y) =>
              r \in OrdersOf(b, x, y) \/ (r = n /\ n # NullRef /\ x = l /\ y = h)
      /\ \A x, y : TradedOf(b2, x, y) = TradedOf(b, x, y)
      /\ \A r \in DOMAIN b \cup {NullRef} : Coming(b2, q, r) = Coming(b, q, r)
      /\ Underway(q, n, {"trade"}) = 0
  BY <1>0 DEF Grown
<1>2. SUFFICES ASSUME NEW x \in Legs, NEW y \in Half
               PROVE  /\ Only(b2, q, x, y, g2[x].ref[y])
                      /\ Known(b2, q, x, y, g2[x].ref[y]) = Known(b, q, x, y, g[x].ref[y])
  BY DEF OnlyRefs, KnownSame
<1>3. Only(b, q, x, y, g[x].ref[y])
  BY DEF OnlyRefs
<1>4. \A r \in OrdersOf(b, x, y) : r \in DOMAIN b
  BY OrdersFinite
<1>5. CASE x = l /\ y = h
  <2>1. g2[x].ref[y] = n
    BY <1>5 DEF NewRef
  <2>2. \A r \in OrdersOf(b, x, y) : Coming(b, q, r) = 0
    BY <1>3, <1>5 DEF Only
  <2>3. Only(b2, q, x, y, n)
    BY <1>1, <1>4, <1>5, <2>2 DEF Only
  <2>4. Underway(q, g[x].ref[y], {"trade"}) = 0
    <3>1. Underway(q, g[x].ref[y], {"trade"}) <= Coming(b, q, g[x].ref[y])
      BY ComingBounds
    <3>2. Underway(q, g[x].ref[y], {"trade"}) \in Nat
      BY UnderwayIsNat
    <3> QED
      BY <1>5, <3>1, <3>2
  <2> QED
    BY <1>1, <2>1, <2>3, <2>4 DEF Known
<1>6. CASE ~(x = l /\ y = h)
  <2>1. g2[x].ref[y] = g[x].ref[y]
    BY <1>6 DEF NewRef
  <2>2. Only(b2, q, x, y, g[x].ref[y])
    BY <1>1, <1>3, <1>4, <1>6 DEF Only
  <2> QED
    BY <1>1, <2>1, <2>2 DEF Known
<1> QED
  BY <1>5, <1>6

\* Handling a report takes what it bears from what is under way.
LEMMA CleanHandled ==
  ASSUME NEW g, NEW b \in Seq(Order), NEW q \in Seq(Report), ReportsInv(b, q), q # << >>,
         NEW l \in Legs, NEW h \in Half, Only(b, q, l, h, g[l].ref[h])
  PROVE  /\ Only(b, Tail(q), l, h, g[l].ref[h])
         /\ Known(b, Tail(q), l, h, g[l].ref[h])
              = Known(b, q, l, h, g[l].ref[h]) + Borne(Head(q), g[l].ref[h], {"trade"})
<1> DEFINE m == Head(q)
           p == Tail(q)
<1>1. /\ p \in Seq(Report) /\ ReportsInv(b, p) /\ m \in Report
      /\ \A r : /\ Coming(b, q, r) = Coming(b, p, r) + Borne(m, r, {"trade", "canceled"})
                /\ Underway(q, r, {"trade"}) = Underway(p, r, {"trade"}) + Borne(m, r, {"trade"})
  BY HandledStep
<1> HIDE DEF p, m
<1>2. \A r : Coming(b, p, r) \in Nat /\ Borne(m, r, {"trade", "canceled"}) \in Nat
  BY <1>1, ComingBounds, ReportFields
<1>3. \A r : Coming(b, q, r) = 0 => Coming(b, p, r) = 0
  <2> TAKE r
  <2>1. Coming(b, q, r) = Coming(b, p, r) + Borne(m, r, {"trade", "canceled"})
    BY <1>1
  <2>2. Coming(b, p, r) \in Nat /\ Borne(m, r, {"trade", "canceled"}) \in Nat
    BY <1>2
  <2> QED
    BY <2>1, <2>2
<1>4. Only(b, p, l, h, g[l].ref[h])
  BY <1>3 DEF Only
<1>5. Underway(p, g[l].ref[h], {"trade"}) \in Nat /\ Borne(m, g[l].ref[h], {"trade"}) \in Nat
      /\ TradedOf(b, l, h) \in Int
  BY <1>1, UnderwayIsNat, ReportFields, TradedIsInt
<1>6. Known(b, p, l, h, g[l].ref[h]) = Known(b, q, l, h, g[l].ref[h]) + Borne(m, g[l].ref[h], {"trade"})
  <2>1. Underway(q, g[l].ref[h], {"trade"})
          = Underway(p, g[l].ref[h], {"trade"}) + Borne(m, g[l].ref[h], {"trade"})
    BY <1>1
  <2> QED
    BY <1>5, <2>1 DEF Known
<1> QED
  BY <1>4, <1>6 DEF p, m

\* A half of a leg that stays as it is, while no more is to come of its order.
LEMMA HalfLess ==
  ASSUME NEW g \in [Legs -> Leg], NEW g2 \in [Legs -> Leg], NEW b, NEW q, NEW b2, NEW q2,
         NEW l \in Legs, NEW h \in Half, HalfInv(g, b, q, l, h),
         g2[l].state = g[l].state, g2[l].deal = g[l].deal, g2[l].vol = g[l].vol,
         g2[l].ref[h] = g[l].ref[h],
         Coming(b, q, g[l].ref[h]) \in Nat, Coming(b2, q2, g[l].ref[h]) \in Nat,
         Coming(b2, q2, g[l].ref[h]) <= Coming(b, q, g[l].ref[h])
  PROVE  HalfInv(g2, b2, q2, l, h)
<1>1. g[l].deal \in Nat /\ g[l].vol \in Nat
  BY LegFields
<1>2. Works(g2, l, h) <=> Works(g, l, h)
  BY DEF Works
<1> QED
  BY <1>1, <1>2 DEF HalfInv

LEMMA ExchangeKeeps ==
  ASSUME NEW g \in [Legs -> Leg], NEW b \in Seq(Order), NEW q \in Seq(Report), ReportsInv(b, q),
         NEW b2, NEW q2, Exchanged(b, q, b2, q2), RefsInv(g, b)
  PROVE  /\ RefsInv(g, b2)
         /\ \A p : StageInv(g, b, q, p) => StageInv(g, b2, q2, p)
         /\ \A k, c : EndIsLast(q2) /\ CleanInv(g, b, q, k, c) => CleanInv(g, b2, q2, k, c)
<1>1. /\ b2 \in Seq(Order) /\ q2 \in Seq(Report) /\ ReportsInv(b2, q2)
      /\ \A l, h : OrdersOf(b2, l, h) = OrdersOf(b, l, h)
      /\ \A l, h, r : Only(b, q, l, h, r) => Known(b2, q2, l, h, r) = Known(b, q, l, h, r)
  BY DEF Exchanged
<1>2. \A r : /\ Coming(b2, q2, r) \in Nat /\ Coming(b, q, r) \in Nat
             /\ Coming(b2, q2, r) <= Coming(b, q, r)
  BY <1>1, ComingBounds DEF Exchanged
<1>3. RefsInv(g, b2)
  BY <1>1 DEF RefsInv
<1>4. ASSUME NEW p, StageInv(g, b, q, p) PROVE StageInv(g, b2, q2, p)
  <2>1. \A l \in Legs, h \in Half : HalfInv(g, b2, q2, l, h)
    <3> TAKE l \in Legs, h \in Half
    <3>1. HalfInv(g, b, q, l, h)
      BY <1>4 DEF StageInv
    <3> QED
      BY <1>2, <3>1, HalfLess
  <2> QED
    BY <1>4, <2>1 DEF StageInv
<1>5. \A l, h, r : Only(b, q, l, h, r) => Only(b2, q2, l, h, r)
  <2> TAKE l, h, r
  <2>1. \A x : Coming(b, q, x) = 0 => Coming(b2, q2, x) = 0
    <3> TAKE x
    <3>1. Coming(b2, q2, x) \in Nat /\ Coming(b2, q2, x) <= Coming(b, q, x)
      BY <1>2
    <3> QED
      BY <3>1
  <2> QED
    BY <1>1, <2>1 DEF Only
<1>6. ASSUME NEW k, NEW c, EndIsLast(q2), CleanInv(g, b, q, k, c) PROVE CleanInv(g, b2, q2, k, c)
  <2>1. \A l \in Legs, h \in Half : Only(b, q, l, h, g[l].ref[h])
    BY <1>6 DEF CleanInv
  <2>2. \A l \in Legs, h \in Half : Only(b2, q2, l, h, g[l].ref[h])
    BY <1>5, <2>1
  <2>3. \A l \in Legs, h \in Half :
          Known(b2, q2, l, h, g[l].ref[h]) = Known(b, q, l, h, g[l].ref[h])
    BY <1>1, <2>1
  <2> QED
    BY <1>6, <2>2, <2>3, StatesDiffer DEF CleanInv
<1> QED
  BY <1>3, <1>4, <1>6

-----------------------------------------------------------------------------
(* The handlers, on the legs of a strategy                                 *)

\* Nothing is to come of a half that does not wait.
LEMMA NoneToCome ==
  ASSUME NEW g \in [Legs -> Leg], NEW b \in Seq(Order), NEW q \in Seq(Report), ReportsInv(b, q),
         NEW l \in Legs, NEW h \in Half, HalfInv(g, b, q, l, h), g[l].state # Waiting[h]
  PROVE  Coming(b, q, g[l].ref[h]) = 0
<1>1. Coming(b, q, g[l].ref[h]) \in Nat /\ g[l].deal \in Nat /\ g[l].vol \in Nat
  BY ComingBounds, LegFields
<1> QED
  BY <1>1 DEF HalfInv, Works

\* The two legs when the order n of the Minuend was placed for c copies.
Begun(g, g2, h, n, c) ==
  /\ \A l \in Legs : g2[l].pos = g[l].pos /\ g2[l].vol = c /\ g2[l].deal = 0
  /\ g2["Minuend"].state = Waiting[h] /\ g2["Subtrahend"].state = Ini[h]
  /\ NewRef(g, g2, "Minuend", h, n)

MayBegin(g, h) == \A l \in Legs : IF h = "in" THEN g[l].pos = 0 ELSE g[l].pos # 0

\* An opening takes copies, a closing has them.
Takes(g, g2, h) == \A k : Claim(g2, k) = k /\ Claim(g, k) = IF h = "in" THEN 0 ELSE k

LEMMA BeginStage ==
  ASSUME NEW g \in [Legs -> Leg], NEW g2 \in [Legs -> Leg], NEW h \in Half,
         NEW b \in Seq(Order), NEW q \in Seq(Report), ReportsInv(b, q), RefsInv(g, b),
         NEW b2, NEW c \in 1 .. UIntSize - 1, NEW n, Asked(b, q, b2, "Minuend", h, c, n),
         Begun(g, g2, h, n, c), Both(g, "T_INI"), MayBegin(g, h), NEW p, StageInv(g, b, q, p)
  PROVE  /\ StageInv(g2, b2, q, TRUE) /\ MinuendInv(g2)
         /\ Takes(g, g2, h)
<1> USE StatesDiffer
<1>0. c \in Nat /\ Grown(b, q, b2, "Minuend", h, c, n)
  <2>1. c \in Nat
    BY ArbitrageAssumption
  <2> QED
    BY <2>1, AskedIs
<1>1. \A l \in Legs, y \in Half : Coming(b, q, g[l].ref[y]) = 0 /\ Coming(b2, q, g[l].ref[y]) = 0
  <2> TAKE l \in Legs, y \in Half
  <2>1. HalfInv(g, b, q, l, y) /\ g[l].state # Waiting[y]
    BY DEF StageInv, Both
  <2>2. Coming(b, q, g[l].ref[y]) = 0
    BY <2>1, NoneToCome
  <2>3. g[l].ref[y] \in DOMAIN b \cup {NullRef}
    BY RefIsOne
  <2> QED
    BY <1>0, <2>2, <2>3 DEF Grown
<1>2. \A l \in Legs, y \in Half : HalfInv(g2, b2, q, l, y)
  <2> TAKE l \in Legs, y \in Half
  <2>1. g2[l].deal = 0 /\ g2[l].vol = c
    BY DEF Begun
  <2>2. CASE l = "Minuend" /\ y = h
    <3>1. g2[l].ref[y] = n /\ g2[l].state = Waiting[h]
      BY <2>2 DEF Begun, NewRef
    <3>2. Coming(b2, q, n) \in Nat /\ Coming(b2, q, n) <= c
      BY <1>0 DEF Grown
    <3> QED
      BY <1>0, <2>1, <2>2, <3>1, <3>2 DEF HalfInv, Works
  <2>3. CASE ~(l = "Minuend" /\ y = h)
    <3>1. g2[l].ref[y] = g[l].ref[y]
      BY <2>3 DEF Begun, NewRef
    <3>2. g2[l].state # Waiting[y] /\ \A z \in Half : g2[l].state # Finished[z]
      BY <2>3 DEF Begun
    <3> QED
      BY <1>1, <2>1, <3>1, <3>2 DEF HalfInv, Works
  <2> QED
    BY <2>2, <2>3
<1>3. Stage(g2)
  BY DEF Begun, Stage, Works
<1>4. StageInv(g2, b2, q, TRUE)
  BY <1>2, <1>3 DEF StageInv, Begun
<1>5. MinuendInv(g2)
  BY DEF MinuendInv, Begun, MayBegin, Works
<1>6. ASSUME NEW k PROVE Claim(g2, k) = k
  BY DEF Claim, Begun, Works
<1>7. ASSUME NEW k PROVE Claim(g, k) = IF h = "in" THEN 0 ELSE k
  BY DEF Claim, Both, MayBegin, Works
<1> QED
  BY <1>4, <1>5, <1>6, <1>7 DEF Takes

LEMMA BeginClean ==
  ASSUME NEW g \in [Legs -> Leg], NEW g2 \in [Legs -> Leg], NEW h \in Half,
         NEW b \in Seq(Order), NEW q \in Seq(Report), ReportsInv(b, q), RefsInv(g, b),
         NEW b2, NEW c \in 1 .. UIntSize - 1, NEW n, Asked(b, q, b2, "Minuend", h, c, n),
         Begun(g, g2, h, n, c), Both(g, "T_INI"), MayBegin(g, h), NEW p, StageInv(g, b, q, p),
         NEW k, NEW k2, CleanInv(g, b, q, k, c), k2 = IF h = "in" THEN c ELSE k
  PROVE  CleanInv(g2, b2, q, k2, c)
<1>0. c \in Nat /\ "Minuend" \in Legs
  BY ArbitrageAssumption, StatesDiffer
<1>1. Coming(b, q, g["Minuend"].ref[h]) = 0
  <2>1. HalfInv(g, b, q, "Minuend", h) /\ g["Minuend"].state # Waiting[h]
    BY StatesDiffer DEF StageInv, Both
  <2> QED
    BY <1>0, <2>1, NoneToCome
<1>2. OnlyRefs(g, b, q)
  BY DEF CleanInv, OnlyRefs
<1>3. NewRef(g, g2, "Minuend", h, n)
  BY DEF Begun
<1>4. OnlyRefs(g2, b2, q) /\ KnownSame(g, b, q, g2, b2, q)
  BY <1>0, <1>1, <1>2, <1>3, CleanAsked
<1> USE StatesDiffer
<1>5. CopiesInv(g2, k2, c)
  <2>1. ~Both(g2, "T_INI")
    BY DEF Both, Begun
  <2>2. \A l \in Legs : g2[l].pos = g[l].pos /\ g2[l].vol = c /\ g2[l].deal = 0 /\ g[l].pos \in Nat
    BY LegFields DEF Begun
  <2>3. (\A l \in Legs : g[l].pos = 0) \/ (k = c /\ \A l \in Legs : g[l].pos = c)
    BY DEF CleanInv, CopiesInv
  <2>4. CASE h = "in"
    <3>1. \A l \in Legs : g2[l].state = Ini["in"] \/ Works(g2, l, "in")
      BY <2>4 DEF Begun, Works
    <3> QED
      BY <2>1, <2>2, <2>4, <3>1 DEF CopiesInv, MayBegin
  <2>5. CASE h # "in"
    <3>1. \A l \in Legs : g2[l].state = Ini["out"] \/ Works(g2, l, "out")
      BY <2>5 DEF Begun, Works
    <3>2. k = c /\ \A l \in Legs : g[l].pos = c
      BY <2>3, <2>5 DEF MayBegin
    <3>3. \A l \in Legs : g2[l].pos + g2[l].deal = c
      BY <1>0, <2>2, <3>2
    <3> QED
      BY <2>1, <2>2, <2>5, <3>1, <3>2, <3>3 DEF CopiesInv
  <2> QED
    BY <2>4, <2>5
<1>6. \A l \in Legs : g2[l].pos = g[l].pos
  BY DEF Begun
<1> QED
  BY <1>4, <1>5, <1>6 DEF CleanInv, OnlyRefs, KnownSame

\* The order of the Minuend got no reference.
Refused(g, g2, c) ==
  \A l \in Legs : /\ g2[l].state = g[l].state /\ g2[l].pos = g[l].pos
                  /\ g2[l].vol = c /\ g2[l].deal = 0
                  /\ \A h \in Half : g2[l].ref[h] = g[l].ref[h] /\ g2[l].sys[h] = g[l].sys[h]

LEMMA RefusedStage ==
  ASSUME NEW g \in [Legs -> Leg], NEW g2 \in [Legs -> Leg],
         NEW b \in Seq(Order), NEW q \in Seq(Report), ReportsInv(b, q),
         NEW c \in 1 .. UIntSize - 1, Refused(g, g2, c), Both(g, "T_INI"),
         NEW p, StageInv(g, b, q, p)
  PROVE  /\ StageInv(g2, b, q, TRUE) /\ MinuendInv(g2)
         /\ \A k : Claim(g2, k) = Claim(g, k)
<1> USE StatesDiffer
<1>1. Both(g2, "T_INI")
  BY DEF Both, Refused
<1>2. \A l \in Legs, y \in Half : HalfInv(g2, b, q, l, y)
  <2> TAKE l \in Legs, y \in Half
  <2>1. HalfInv(g, b, q, l, y) /\ g[l].state # Waiting[y]
    BY DEF StageInv, Both
  <2>2. Coming(b, q, g2[l].ref[y]) = 0
    BY <2>1, NoneToCome DEF Refused
  <2> QED
    BY <1>1, <2>2 DEF HalfInv, Works, Both
<1>3. StageInv(g2, b, q, TRUE)
  BY <1>1, <1>2 DEF StageInv, Stage, Refused
<1>4. MinuendInv(g2)
  BY <1>1 DEF MinuendInv, Both, Works
<1>5. ASSUME NEW k PROVE Claim(g2, k) = Claim(g, k)
  BY DEF Claim, Refused, Works
<1> QED
  BY <1>3, <1>4, <1>5

LEMMA RefusedClean ==
  ASSUME NEW g, NEW g2, NEW b, NEW q,
         NEW c, Refused(g, g2, c), Both(g, "T_INI"),
         NEW k, NEW k2, CleanInv(g, b, q, k, c), k2 = k \/ \A l \in Legs : g[l].pos = 0
  PROVE  CleanInv(g2, b, q, k2, c)
<1>1. Both(g2, "T_INI") /\ \A l \in Legs : g2[l].pos = g[l].pos
  BY DEF Both, Refused
<1>2. CopiesInv(g2, k2, c)
  BY <1>1 DEF CleanInv, CopiesInv
<1>3. \A l \in Legs, h \in Half : g2[l].ref[h] = g[l].ref[h]
  BY DEF Refused
<1> QED
  BY <1>1, <1>2, <1>3, StatesDiffer DEF CleanInv

\* The legs rest after an operation: the opening ended, or was cancelled, or the
\* closing ended.
Rested(g, g2) ==
  \A l \in Legs : /\ g2[l].state = "T_INI" /\ g2[l].vol = g[l].vol /\ g2[l].deal = g[l].deal
                  /\ \A h \in Half : g2[l].ref[h] = g[l].ref[h] /\ g2[l].sys[h] \in {NullRef, g[l].sys[h]}
                  /\ g2[l].pos = IF g[l].state = Finished["out"] THEN 0 ELSE g[l].pos

LEMMA RestStage ==
  ASSUME NEW g \in [Legs -> Leg], NEW g2 \in [Legs -> Leg],
         NEW b \in Seq(Order), NEW q \in Seq(Report), ReportsInv(b, q), Rested(g, g2),
         NEW p, StageInv(g, b, q, p), MinuendInv(g),
         \E h \in Half : Both(g, Ini[h]) \/ Both(g, Finished[h])
  PROVE  /\ StageInv(g2, b, q, FALSE) /\ MinuendInv(g2)
         /\ \A k \in Nat : Claim(g, k) = Claim(g2, k) + IF Both(g, Finished["out"]) THEN k ELSE 0
<1> SUFFICES ASSUME NEW k \in Nat
             PROVE  /\ StageInv(g2, b, q, FALSE) /\ MinuendInv(g2)
                    /\ Claim(g, k) = Claim(g2, k) + IF Both(g, Finished["out"]) THEN k ELSE 0
  OBVIOUS
<1> USE StatesDiffer
<1>1. Both(g2, "T_INI")
  BY DEF Both, Rested
<1>2. \A l \in Legs, y \in Half : HalfInv(g2, b, q, l, y)
  <2> TAKE l \in Legs, y \in Half
  <2>1. HalfInv(g, b, q, l, y) /\ g[l].state # Waiting[y]
    BY DEF StageInv, Both
  <2>2. Coming(b, q, g2[l].ref[y]) = 0
    BY <2>1, NoneToCome DEF Rested
  <2> QED
    BY <1>1, <2>2 DEF HalfInv, Works, Both
<1>3. StageInv(g2, b, q, FALSE)
  BY <1>1, <1>2 DEF StageInv, Stage, Rested
<1>4. MinuendInv(g2)
  BY <1>1 DEF MinuendInv, Both, Works
<1>5. Claim(g, k) = Claim(g2, k) + IF Both(g, Finished["out"]) THEN k ELSE 0
  <2> DEFINE m == g["Minuend"]
             m2 == g2["Minuend"]
  <2>1. m2.state = "T_INI" /\ m.deal \in Nat /\ m.vol \in 1 .. UIntSize - 1 /\ UIntSize \in Nat
    BY LegFields, ArbitrageAssumption DEF Rested, StageInv
  <2>2. Claim(g2, k) = IF m2.pos # 0 THEN k ELSE 0
    BY <2>1 DEF Claim, Works
  <2>3. PICK h \in Half : Both(g, Ini[h]) \/ Both(g, Finished[h])
    OBVIOUS
  <2>4. CASE Both(g, Ini[h])
    <3>1. m.state = Ini[h] /\ m2.pos = m.pos
      BY <2>4 DEF Both, Rested
    <3>2. HalfInv(g, b, q, "Minuend", h)
      BY DEF StageInv
    <3>3. ~Both(g, Finished["out"]) /\ (\A y \in Half : ~Works(g, "Minuend", y))
      BY <3>1 DEF Both, Works
    <3>4. CASE h = "in"
      BY <2>2, <3>1, <3>2, <3>3, <3>4 DEF HalfInv, MinuendInv, Claim
    <3>5. CASE h = "out"
      BY <2>2, <3>1, <3>3, <3>5 DEF MinuendInv, Claim
    <3> QED
      BY <3>4, <3>5
  <2>5. CASE Both(g, Finished[h])
    <3>1. m.state = Finished[h] /\ Works(g, "Minuend", h)
      BY <2>5 DEF Both, Works
    <3>2. Claim(g, k) = k
      BY <3>1 DEF Claim
    <3>3. CASE h = "in"
      <4>1. ~Both(g, Finished["out"]) /\ m2.pos = m.pos
        BY <3>1, <3>3 DEF Both, Rested
      <4>2. m.pos = m.deal
        BY <3>1, <3>3 DEF MinuendInv
      <4>3. HalfInv(g, b, q, "Minuend", h)
        BY DEF StageInv
      <4>4. m.deal >= m.vol
        BY <3>1, <4>3 DEF HalfInv
      <4> QED
        BY <2>1, <2>2, <3>2, <4>1, <4>2, <4>4
    <3>4. CASE h = "out"
      BY <2>2, <2>5, <3>1, <3>2, <3>4 DEF Rested
    <3> QED
      BY <3>3, <3>4
  <2> QED
    BY <2>3, <2>4, <2>5
<1> QED
  BY <1>3, <1>4, <1>5

LEMMA RestClean ==
  ASSUME NEW g \in [Legs -> Leg], NEW g2 \in [Legs -> Leg],
         NEW b \in Seq(Order), NEW q \in Seq(Report), ReportsInv(b, q), Rested(g, g2),
         NEW p, StageInv(g, b, q, p),
         \E h \in Half : Both(g, Ini[h]) \/ Both(g, Finished[h]),
         NEW k, NEW c \in Nat, CleanInv(g, b, q, k, c)
  PROVE  CleanInv(g2, b, q, k, c)
<1> USE StatesDiffer
<1>1. Both(g2, "T_INI") /\ ~Both(g, "T_INI")
  BY DEF Both, Rested
<1>2. PICK h \in Half : Both(g, Ini[h]) \/ Both(g, Finished[h])
  OBVIOUS
<1>3. k = c /\ \A l \in Legs :
        /\ g[l].vol = c
        /\ \/ g[l].pos = g[l].deal /\ (g[l].state = Ini["in"] \/ Works(g, l, "in"))
           \/ g[l].pos + g[l].deal = c /\ (g[l].state = Ini["out"] \/ Works(g, l, "out"))
  BY <1>1 DEF CleanInv, CopiesInv
<1>4. ASSUME NEW l \in Legs
      PROVE  /\ g2[l].pos = g[l].pos
             /\ g[l].pos = IF Both(g, Ini["out"]) \/ Both(g, Finished["in"]) THEN c ELSE 0
  <2>1. g[l].pos \in Nat /\ g[l].deal \in Nat /\ Coming(b, q, g[l].ref[h]) \in Nat
    BY LegFields, ComingBounds
  <2>2. HalfInv(g, b, q, l, h)
    BY DEF StageInv
  <2>3. CASE Both(g, Ini[h])
    <3>1. g[l].state = Ini[h] /\ g[l].deal = 0 /\ g2[l].pos = g[l].pos
      BY <2>2, <2>3 DEF Both, HalfInv, Rested
    <3>2. IF h = "in" THEN g[l].pos = g[l].deal ELSE g[l].pos + g[l].deal = c
      BY <1>3, <3>1 DEF Works
    <3>3. (Both(g, Ini["out"]) \/ Both(g, Finished["in"])) <=> h = "out"
      BY <2>3 DEF Both
    <3> QED
      BY <2>1, <3>1, <3>2, <3>3
  <2>4. CASE Both(g, Finished[h])
    <3>1. g[l].state = Finished[h] /\ g[l].deal = c
      <4>1. g[l].state = Finished[h] /\ Works(g, l, h) /\ g[l].vol = c
        BY <1>3, <2>4 DEF Both, Works
      <4>2. g[l].deal >= c /\ g[l].deal + Coming(b, q, g[l].ref[h]) <= c
        BY <2>2, <4>1 DEF HalfInv
      <4> QED
        BY <2>1, <4>1, <4>2
    <3>2. IF h = "in" THEN g[l].pos = g[l].deal ELSE g[l].pos + g[l].deal = c
      BY <1>3, <3>1 DEF Works
    <3>3. (Both(g, Ini["out"]) \/ Both(g, Finished["in"])) <=> h = "in"
      BY <2>4 DEF Both
    <3>4. g2[l].pos = IF h = "out" THEN 0 ELSE g[l].pos
      BY <3>1 DEF Rested
    <3> QED
      BY <2>1, <3>1, <3>2, <3>3, <3>4
  <2> QED
    BY <1>2, <2>3, <2>4
<1>5. CopiesInv(g2, k, c)
  BY <1>1, <1>3, <1>4 DEF CopiesInv
<1>6. \A l \in Legs, y \in Half : g2[l].ref[y] = g[l].ref[y]
  BY DEF Rested
<1> QED
  BY <1>4, <1>5, <1>6 DEF CleanInv

\* A half of a leg that is as it was, when a report is handled.
LEMMA HalfHandled ==
  ASSUME NEW g \in [Legs -> Leg], NEW g2 \in [Legs -> Leg],
         NEW b \in Seq(Order), NEW q \in Seq(Report), ReportsInv(b, q), q # << >>,
         NEW l \in Legs, NEW h \in Half, HalfInv(g, b, q, l, h),
         g2[l].state = g[l].state, g2[l].deal = g[l].deal, g2[l].vol = g[l].vol,
         g2[l].ref[h] = g[l].ref[h]
  PROVE  HalfInv(g2, b, Tail(q), l, h)
<1> DEFINE r == g[l].ref[h]
<1>1. Tail(q) \in Seq(Report) /\ ReportsInv(b, Tail(q)) /\ Head(q) \in Report
      /\ Coming(b, q, r) = Coming(b, Tail(q), r) + Borne(Head(q), r, {"trade", "canceled"})
  BY HandledStep
<1>2. Coming(b, q, r) \in Nat /\ Coming(b, Tail(q), r) \in Nat
      /\ Borne(Head(q), r, {"trade", "canceled"}) \in Nat
  BY <1>1, ComingBounds, ReportFields
<1>3. Coming(b, Tail(q), r) <= Coming(b, q, r)
  BY <1>1, <1>2
<1> QED
  BY <1>2, <1>3, HalfLess

\* A half whose order is reported on works, and has room for what the report bears.
LEMMA HalfOfReport ==
  ASSUME NEW g \in [Legs -> Leg],
         NEW b \in Seq(Order), NEW q \in Seq(Report), ReportsInv(b, q), q # << >>,
         NEW l \in Legs, NEW h \in Half, HalfInv(g, b, q, l, h),
         g[l].ref[h] = Head(q).ref, Head(q).kind # "queueing"
  PROVE  /\ g[l].state = Waiting[h] /\ Works(g, l, h)
         /\ Bears(Head(q)) \in Nat /\ Bears(Head(q)) > 0
         /\ g[l].deal + Bears(Head(q)) + Coming(b, Tail(q), g[l].ref[h]) <= g[l].vol
         /\ Coming(b, Tail(q), g[l].ref[h]) \in Nat /\ g[l].ref[h] # NullRef
<1> DEFINE r == g[l].ref[h]
<1>1. Tail(q) \in Seq(Report) /\ ReportsInv(b, Tail(q)) /\ Head(q) \in Report /\ Agrees(b, Head(q))
      /\ Coming(b, q, r) = Coming(b, Tail(q), r) + Borne(Head(q), r, {"trade", "canceled"})
  BY HandledStep
<1>2. Coming(b, q, r) \in Nat /\ Coming(b, Tail(q), r) \in Nat /\ Bears(Head(q)) \in Nat
      /\ Head(q).kind \in {"trade", "queueing", "canceled"}
  BY <1>1, ComingBounds, ReportFields
<1>3. Bears(Head(q)) > 0 /\ Borne(Head(q), r, {"trade", "canceled"}) = Bears(Head(q))
  BY <1>1, <1>2 DEF Agrees, Borne
<1>4. g[l].deal \in Nat /\ g[l].vol \in Nat
  BY LegFields
<1>5. Works(g, l, h) /\ g[l].deal + Coming(b, q, r) <= g[l].vol
  BY <1>1, <1>2, <1>3 DEF HalfInv
<1>6. g[l].state # Finished[h]
  BY <1>1, <1>2, <1>3, <1>4, <1>5 DEF HalfInv
<1>7. r # NullRef
  <2>1. NullRef \notin DOMAIN b
    BY Places DEF NullRef
  <2> QED
    BY <1>1, <2>1 DEF Agrees
<1> QED
  BY <1>1, <1>2, <1>3, <1>4, <1>5, <1>6, <1>7 DEF Works

\* The legs after a trade of one half of one of them.
AfterTrade(g, g2, l, h, v) ==
  /\ \A x \in Legs : x # l => g2[x] = g[x]
  /\ g2[l].deal = g[l].deal + v /\ g2[l].vol = g[l].vol
  /\ g2[l].pos = (IF h = "in" THEN g[l].pos + v ELSE g[l].pos - v) % UIntSize
  /\ g2[l].state = IF g[l].deal + v >= g[l].vol THEN Finished[h] ELSE g[l].state
  /\ \A y \in Half : g2[l].ref[y] = g[l].ref[y] /\ g2[l].sys[y] = g[l].sys[y]

LEMMA TradeHalves ==
  ASSUME NEW g \in [Legs -> Leg], NEW g2 \in [Legs -> Leg],
         NEW b \in Seq(Order), NEW q \in Seq(Report), ReportsInv(b, q), q # << >>,
         NEW l \in Legs, NEW h \in Half, g[l].ref[h] = Head(q).ref, Head(q).kind = "trade",
         AfterTrade(g, g2, l, h, Bears(Head(q))), NEW p, StageInv(g, b, q, p)
  PROVE  /\ \A x \in Legs, y \in Half : HalfInv(g2, b, Tail(q), x, y)
         /\ Works(g2, l, h) /\ g2[l].deal > 0 /\ g2[l].deal <= g2[l].vol
<1> USE StatesDiffer
<1> DEFINE v == Bears(Head(q))
           came == Coming(b, Tail(q), g[l].ref[h])
<1>1. /\ g[l].state = Waiting[h] /\ v \in Nat /\ v > 0
      /\ g[l].deal + v + came <= g[l].vol /\ came \in Nat
  <2>1. HalfInv(g, b, q, l, h)
    BY DEF StageInv
  <2> QED
    BY <2>1, HalfOfReport
<1>2. g[l].deal \in Nat /\ g[l].vol \in Nat
  BY LegFields
<1>3. g2[l].state = (IF g[l].deal + v >= g[l].vol THEN Finished[h] ELSE Waiting[h])
      /\ g2[l].deal = g[l].deal + v /\ g2[l].vol = g[l].vol /\ g2[l].ref = g2[l].ref
      /\ \A y \in Half : g2[l].ref[y] = g[l].ref[y]
  BY <1>1 DEF AfterTrade
<1>4. HalfInv(g2, b, Tail(q), l, h)
  BY <1>1, <1>2, <1>3 DEF HalfInv, Works
<1>5. ASSUME NEW y \in Half, y # h PROVE HalfInv(g2, b, Tail(q), l, y)
  <2>1. HalfInv(g, b, q, l, y) /\ g[l].state # Waiting[y]
    BY <1>1, <1>5 DEF StageInv
  <2>2. HalfInv(g, b, Tail(q), l, y)
    BY <2>1, HalfHandled
  <2>3. ~Works(g, l, y) /\ ~Works(g2, l, y) /\ g2[l].state # Ini[y] /\ g2[l].state # Finished[y]
    BY <1>1, <1>3, <1>5 DEF Works
  <2> QED
    BY <1>3, <2>2, <2>3 DEF HalfInv
<1>6. ASSUME NEW x \in Legs, NEW y \in Half, x # l PROVE HalfInv(g2, b, Tail(q), x, y)
  <2>1. HalfInv(g, b, q, x, y) /\ g2[x] = g[x]
    BY <1>6 DEF StageInv, AfterTrade
  <2> QED
    BY <2>1, HalfHandled
<1>7. \A x \in Legs, y \in Half : HalfInv(g2, b, Tail(q), x, y)
  BY <1>4, <1>5, <1>6
<1>8. Works(g2, l, h) /\ g2[l].deal > 0 /\ g2[l].deal <= g2[l].vol
  BY <1>1, <1>2, <1>3 DEF Works
<1> QED
  BY <1>7, <1>8

\* A number that fits does not wrap.
LEMMA Wraps == ASSUME NEW x \in 0 .. UIntSize - 1 PROVE x % UIntSize = x
BY ArbitrageAssumption

\* A half of the Minuend that is traded was placed, and has the copies.
LEMMA TradeMinuend ==
  ASSUME NEW g \in [Legs -> Leg], NEW g2 \in [Legs -> Leg], NEW h \in Half,
         NEW b \in Seq(Order), NEW q \in Seq(Report), ReportsInv(b, q), q # << >>,
         NEW l \in Legs, g[l].ref[h] = Head(q).ref, Head(q).kind = "trade",
         AfterTrade(g, g2, l, h, Bears(Head(q))), NEW p, StageInv(g, b, q, p), MinuendInv(g)
  PROVE  /\ MinuendInv(g2) /\ \A k : Claim(g2, k) = Claim(g, k)
         /\ \A x \in Legs : g2[x].vol \in 1 .. UIntSize - 1
<1> USE StatesDiffer
<1> DEFINE v == Bears(Head(q))
<1>1. Works(g2, l, h) /\ g2[l].deal > 0 /\ g2[l].deal <= g2[l].vol
  BY TradeHalves
<1>2. g[l].state = Waiting[h] /\ Works(g, l, h) /\ v \in Nat
  <2>1. HalfInv(g, b, q, l, h)
    BY DEF StageInv
  <2> QED
    BY <2>1, HalfOfReport
<1>3. \A x \in Legs : g2[x].vol \in 1 .. UIntSize - 1
  BY DEF StageInv, AfterTrade
<1>4. CASE l = "Minuend"
  <2>1. UIntSize \in Nat /\ g[l].deal \in Nat /\ g2[l].vol \in 1 .. UIntSize - 1
        /\ g2[l].deal = g[l].deal + v
    BY <1>3, LegFields, ArbitrageAssumption DEF AfterTrade
  <2>2. ASSUME h = "in" PROVE g2[l].pos = g2[l].deal
    <3>1. g[l].pos = g[l].deal
      BY <1>2, <1>4, <2>2 DEF MinuendInv
    <3>2. g2[l].pos = g2[l].deal % UIntSize
      BY <2>1, <2>2, <3>1 DEF AfterTrade
    <3>3. g2[l].deal \in 0 .. UIntSize - 1
      BY <1>1, <1>2, <2>1
    <3> QED
      BY <3>2, <3>3, Wraps
  <2>3. g2[l].state \in {Waiting[h], Finished[h]} /\ g2[l].deal # 0
    BY <1>1, <1>2, <2>1 DEF Works
  <2>4. MinuendInv(g2)
    BY <1>4, <2>2, <2>3 DEF MinuendInv, Works
  <2>5. ASSUME NEW k PROVE Claim(g2, k) = k /\ Claim(g, k) = k
    BY <1>1, <1>2, <1>4 DEF Claim
  <2> QED
    BY <1>3, <2>4, <2>5
<1>5. CASE l # "Minuend"
  <2>1. g2["Minuend"] = g["Minuend"]
    BY <1>5 DEF AfterTrade
  <2> QED
    BY <1>3, <2>1 DEF MinuendInv, Claim, Works
<1> QED
  BY <1>4, <1>5

\* A trade that sends no other order.
LEMMA TradeStage ==
  ASSUME NEW g \in [Legs -> Leg], NEW g2 \in [Legs -> Leg],
         NEW b \in Seq(Order), NEW q \in Seq(Report), ReportsInv(b, q), q # << >>,
         NEW l \in Legs, NEW h \in Half, g[l].ref[h] = Head(q).ref, Head(q).kind = "trade",
         AfterTrade(g, g2, l, h, Bears(Head(q))), NEW p, StageInv(g, b, q, p), MinuendInv(g),
         l = "Minuend" => g["Subtrahend"].state # Ini[h]
  PROVE  StageInv(g2, b, Tail(q), p)
<1> USE StatesDiffer
<1>1. /\ \A x \in Legs, y \in Half : HalfInv(g2, b, Tail(q), x, y)
      /\ Works(g2, l, h) /\ g2[l].deal > 0 /\ g2[l].deal <= g2[l].vol
  BY TradeHalves
<1>2. Works(g, l, h) /\ g[l].state = Waiting[h]
  <2>1. HalfInv(g, b, q, l, h)
    BY DEF StageInv
  <2> QED
    BY <2>1, HalfOfReport
<1>3. \A x \in Legs : g2[x].vol \in 1 .. UIntSize - 1
  BY DEF StageInv, AfterTrade
<1>4. p
  BY <1>2 DEF StageInv, Both
<1>5. Works(g, "Minuend", h) /\ Works(g, "Subtrahend", h) /\ g["Minuend"].deal # 0
  BY <1>2 DEF StageInv, Stage, Both, Works
<1>6. Works(g2, "Minuend", h) /\ Works(g2, "Subtrahend", h) /\ g2["Minuend"].deal # 0
  BY <1>1, <1>5 DEF AfterTrade, Works
<1>7. Stage(g2)
  BY <1>6 DEF Stage
<1> QED
  BY <1>1, <1>3, <1>4, <1>7 DEF StageInv

\* Only the traded half learns of the trade, and its position does not wrap.
LEMMA TradeClean ==
  ASSUME NEW g \in [Legs -> Leg], NEW g2 \in [Legs -> Leg],
         NEW b \in Seq(Order), NEW q \in Seq(Report), ReportsInv(b, q), q # << >>, RefsInv(g, b),
         NEW l \in Legs, NEW h \in Half, g[l].ref[h] = Head(q).ref, Head(q).kind = "trade",
         AfterTrade(g, g2, l, h, Bears(Head(q))), NEW p, StageInv(g, b, q, p),
         NEW k, NEW c \in Nat, CleanInv(g, b, q, k, c)
  PROVE  CleanInv(g2, b, Tail(q), k, c)
<1> USE StatesDiffer
<1> DEFINE v == Bears(Head(q))
           p2 == Tail(q)
           m == Head(q)
<1>1. /\ g[l].state = Waiting[h] /\ v \in Nat /\ v > 0 /\ Works(g, l, h)
      /\ g[l].deal + v <= g[l].vol /\ g[l].ref[h] # NullRef /\ g[l].deal \in Nat /\ g[l].vol \in Nat
  <2>1. HalfInv(g, b, q, l, h)
    BY DEF StageInv
  <2>2. g[l].deal \in Nat /\ g[l].vol \in Nat
    BY LegFields
  <2> QED
    BY <2>1, <2>2, HalfOfReport
<1>2. Works(g2, l, h)
  BY TradeHalves
<1>3. EndIsLast(p2) /\ p2 \in Seq(Report)
  BY HandledStep DEF CleanInv
<1>4. ASSUME NEW x \in Legs, NEW y \in Half
      PROVE  /\ Only(b, p2, x, y, g2[x].ref[y])
             /\ Known(b, p2, x, y, g2[x].ref[y])
                  = Known(b, q, x, y, g[x].ref[y]) + IF x = l /\ y = h THEN v ELSE 0
             /\ Known(b, q, x, y, g[x].ref[y]) \in Int
  <2>1. Only(b, q, x, y, g[x].ref[y])
    BY DEF CleanInv
  <2>2. /\ Only(b, p2, x, y, g[x].ref[y])
        /\ Known(b, p2, x, y, g[x].ref[y]) = Known(b, q, x, y, g[x].ref[y]) + Borne(m, g[x].ref[y], {"trade"})
    BY <2>1, CleanHandled
  <2>3. Borne(m, g[x].ref[y], {"trade"}) = IF x = l /\ y = h THEN v ELSE 0
    <3>1. g[x].ref[y] = m.ref <=> x = l /\ y = h
      BY <1>1, RefIsOne
    <3> QED
      BY <3>1 DEF Borne
  <2>4. g2[x].ref[y] = g[x].ref[y]
    BY DEF AfterTrade
  <2>5. Known(b, q, x, y, g[x].ref[y]) \in Int
    BY TradedIsInt, UnderwayIsNat DEF Known
  <2> QED
    BY <2>2, <2>3, <2>4, <2>5
<1>5. k = c /\ ~Both(g, "T_INI") /\ ~Both(g2, "T_INI")
      /\ \A x \in Legs :
        /\ g[x].vol = c
        /\ \/ g[x].pos = g[x].deal /\ (g[x].state = Ini["in"] \/ Works(g, x, "in"))
           \/ g[x].pos + g[x].deal = c /\ (g[x].state = Ini["out"] \/ Works(g, x, "out"))
  <2>1. ~Both(g, "T_INI") /\ ~Both(g2, "T_INI")
    BY <1>1, <1>2 DEF Both, Works
  <2> QED
    BY <2>1 DEF CleanInv, CopiesInv
<1>6. g2[l].pos = (IF h = "in" THEN g[l].pos + v ELSE g[l].pos - v)
      /\ IF h = "in" THEN g2[l].pos = g2[l].deal ELSE g2[l].pos + g2[l].deal = c
  <2>1. g[l].vol = c /\ g[l].vol \in 1 .. UIntSize - 1
    BY <1>5 DEF StageInv
  <2>2. c \in 1 .. UIntSize - 1 /\ UIntSize \in Nat /\ g[l].pos \in Nat
    BY <2>1, LegFields, ArbitrageAssumption
  <2>3. g2[l].deal = g[l].deal + v /\ g2[l].pos = (IF h = "in" THEN g[l].pos + v ELSE g[l].pos - v) % UIntSize
    BY DEF AfterTrade
  <2>4. IF h = "in" THEN g[l].pos = g[l].deal ELSE g[l].pos + g[l].deal = c
    <3>1. ~(g[l].state = Ini["in"] \/ Works(g, l, "in")) \/ h = "in"
      BY <1>1 DEF Works
    <3>2. ~(g[l].state = Ini["out"] \/ Works(g, l, "out")) \/ h # "in"
      BY <1>1 DEF Works
    <3> QED
      BY <1>5, <3>1, <3>2
  <2> DEFINE n == IF h = "in" THEN g[l].pos + v ELSE g[l].pos - v
  <2>5. n \in 0 .. UIntSize - 1 /\ IF h = "in" THEN n = g[l].deal + v ELSE n + (g[l].deal + v) = c
    BY <1>1, <2>1, <2>2, <2>4
  <2>6. n % UIntSize = n
    BY <2>5, Wraps
  <2> QED
    BY <2>3, <2>5, <2>6
<1>7. CopiesInv(g2, k, c)
  <2> SUFFICES ASSUME NEW x \in Legs
               PROVE  /\ g2[x].vol = c
                      /\ \/ g2[x].pos = g2[x].deal /\ (g2[x].state = Ini["in"] \/ Works(g2, x, "in"))
                         \/ g2[x].pos + g2[x].deal = c
                            /\ (g2[x].state = Ini["out"] \/ Works(g2, x, "out"))
    BY <1>5 DEF CopiesInv
  <2>1. CASE x = l
    BY <1>2, <1>5, <1>6, <2>1 DEF AfterTrade
  <2>2. CASE x # l
    BY <1>5, <2>2 DEF AfterTrade, Works
  <2> QED
    BY <2>1, <2>2
<1>8. \A x \in Legs : g2[x].pos = Known(b, p2, x, "in", g2[x].ref["in"])
                                  - Known(b, p2, x, "out", g2[x].ref["out"])
  <2> TAKE x \in Legs
  <2> DEFINE a == Known(b, q, x, "in", g[x].ref["in"])
             z == Known(b, q, x, "out", g[x].ref["out"])
  <2>1. g[x].pos = a - z
    BY DEF CleanInv
  <2>2. a \in Int /\ z \in Int
    BY <1>4
  <2>3. /\ Known(b, p2, x, "in", g2[x].ref["in"]) = a + IF x = l /\ h = "in" THEN v ELSE 0
        /\ Known(b, p2, x, "out", g2[x].ref["out"]) = z + IF x = l /\ h = "out" THEN v ELSE 0
    BY <1>4
  <2> HIDE DEF a, z
  <2>4. g2[x].pos = g[x].pos + (IF x = l THEN (IF h = "in" THEN v ELSE - v) ELSE 0)
    <3>1. CASE x = l
      BY <1>1, <1>6, <2>1, <2>2, <3>1
    <3>2. CASE x # l
      BY <2>1, <2>2, <3>2 DEF AfterTrade
    <3> QED
      BY <3>1, <3>2
  <2> QED
    BY <1>1, <2>1, <2>2, <2>3, <2>4
<1> QED
  BY <1>3, <1>4, <1>7, <1>8 DEF CleanInv

\* The order of the Subtrahend is placed with the first trade of the Minuend.
Followed(g, g2, h, n) ==
  /\ \A l \in Legs : g2[l].pos = g[l].pos /\ g2[l].vol = g[l].vol /\ g2[l].deal = g[l].deal
  /\ g2["Minuend"].state = g["Minuend"].state /\ g2["Subtrahend"].state = Waiting[h]
  /\ NewRef(g, g2, "Subtrahend", h, n)

LEMMA FollowStage ==
  ASSUME NEW g \in [Legs -> Leg], NEW g2 \in [Legs -> Leg], NEW h \in Half,
         NEW b \in Seq(Order), NEW q \in Seq(Report), ReportsInv(b, q), RefsInv(g, b),
         NEW b2, NEW n, Asked(b, q, b2, "Subtrahend", h, g["Subtrahend"].vol, n),
         Followed(g, g2, h, n),
         \A x \in Legs : g[x].vol \in 1 .. UIntSize - 1,
         \A x \in Legs, y \in Half : HalfInv(g, b, q, x, y),
         g["Subtrahend"].state = Ini[h], Works(g, "Minuend", h), g["Minuend"].deal > 0
  PROVE  /\ StageInv(g2, b2, q, TRUE)
         /\ MinuendInv(g) => MinuendInv(g2)
         /\ \A k : Claim(g2, k) = Claim(g, k)
<1> USE StatesDiffer
<1> DEFINE vol == g["Subtrahend"].vol
<1>0. Grown(b, q, b2, "Subtrahend", h, vol, n) /\ vol \in Nat
  <2>1. vol \in Nat
    BY LegFields
  <2> QED
    BY <2>1, AskedIs
<1>1. ASSUME NEW x \in Legs, NEW y \in Half, ~(x = "Subtrahend" /\ y = h), x = "Minuend"
      PROVE  HalfInv(g2, b2, q, x, y)
  <2>1. g[x].ref[y] \in DOMAIN b \cup {NullRef} /\ Coming(b, q, g[x].ref[y]) \in Nat
    BY RefIsOne, ComingBounds
  <2>2. Coming(b2, q, g[x].ref[y]) = Coming(b, q, g[x].ref[y])
    BY <1>0, <2>1 DEF Grown
  <2>3. g2[x].ref[y] = g[x].ref[y] /\ g2[x].state = g[x].state /\ g2[x].deal = g[x].deal
        /\ g2[x].vol = g[x].vol
    BY <1>1 DEF Followed, NewRef
  <2>4. HalfInv(g, b, q, x, y)
    OBVIOUS
  <2>5. Coming(b2, q, g[x].ref[y]) \in Nat /\ Coming(b2, q, g[x].ref[y]) <= Coming(b, q, g[x].ref[y])
    BY <2>1, <2>2
  <2> QED
    BY <2>1, <2>3, <2>4, <2>5, HalfLess
<1>2. ASSUME NEW y \in Half, y # h PROVE HalfInv(g2, b2, q, "Subtrahend", y)
  <2>1. g["Subtrahend"].ref[y] \in DOMAIN b \cup {NullRef}
    BY RefIsOne
  <2>2. Coming(b2, q, g["Subtrahend"].ref[y]) = Coming(b, q, g["Subtrahend"].ref[y])
    BY <1>0, <2>1 DEF Grown
  <2>3. HalfInv(g, b, q, "Subtrahend", y) /\ ~Works(g, "Subtrahend", y)
    BY DEF Works
  <2>4. Coming(b, q, g["Subtrahend"].ref[y]) = 0
    BY <2>3 DEF HalfInv
  <2>5. g2["Subtrahend"].ref[y] = g["Subtrahend"].ref[y] /\ g2["Subtrahend"].state = Waiting[h]
    BY <1>2 DEF Followed, NewRef
  <2> QED
    BY <1>2, <2>2, <2>4, <2>5 DEF HalfInv, Works
<1>3. HalfInv(g2, b2, q, "Subtrahend", h)
  <2>1. g["Subtrahend"].deal = 0
    <3>1. HalfInv(g, b, q, "Subtrahend", h)
      OBVIOUS
    <3> QED
      BY <3>1 DEF HalfInv
  <2>2. g2["Subtrahend"].ref[h] = n /\ g2["Subtrahend"].state = Waiting[h]
        /\ g2["Subtrahend"].deal = 0 /\ g2["Subtrahend"].vol = vol
    BY <2>1 DEF Followed, NewRef
  <2>3. Coming(b2, q, n) \in Nat /\ Coming(b2, q, n) <= vol
    BY <1>0 DEF Grown
  <2>4. Works(g2, "Subtrahend", h)
    BY <2>2 DEF Works
  <2> HIDE DEF vol
  <2> QED
    BY <1>0, <2>2, <2>3, <2>4 DEF HalfInv
<1>4. \A x \in Legs, y \in Half : HalfInv(g2, b2, q, x, y)
  BY <1>1, <1>2, <1>3
<1>5. Works(g2, "Minuend", h) /\ Works(g2, "Subtrahend", h) /\ g2["Minuend"].deal # 0
  BY DEF Followed, Works
<1>6. StageInv(g2, b2, q, TRUE)
  <2>1. Stage(g2)
    BY <1>5 DEF Stage
  <2>2. \A x \in Legs : g2[x].vol \in 1 .. UIntSize - 1
    BY DEF Followed
  <2> QED
    BY <1>4, <2>1, <2>2 DEF StageInv
<1>7. MinuendInv(g) => MinuendInv(g2)
  BY DEF MinuendInv, Followed, Works
<1>8. ASSUME NEW k PROVE Claim(g2, k) = Claim(g, k)
  BY DEF Claim, Followed, Works
<1> QED
  BY <1>6, <1>7, <1>8

LEMMA FollowClean ==
  ASSUME NEW g \in [Legs -> Leg], NEW g2 \in [Legs -> Leg], NEW h \in Half,
         NEW b \in Seq(Order), NEW q \in Seq(Report), ReportsInv(b, q), RefsInv(g, b),
         NEW b2, NEW n, Asked(b, q, b2, "Subtrahend", h, g["Subtrahend"].vol, n),
         Followed(g, g2, h, n),
         \A x \in Legs, y \in Half : HalfInv(g, b, q, x, y),
         g["Subtrahend"].state = Ini[h], Works(g, "Minuend", h),
         NEW k, NEW c, CleanInv(g, b, q, k, c)
  PROVE  CleanInv(g2, b2, q, k, c)
<1>0. "Subtrahend" \in Legs /\ "Minuend" \in Legs
  BY StatesDiffer
<1>1. g["Subtrahend"].vol \in Nat
  BY <1>0, LegFields
<1>2. Coming(b, q, g["Subtrahend"].ref[h]) = 0
  <2>1. HalfInv(g, b, q, "Subtrahend", h) /\ g["Subtrahend"].state # Waiting[h]
    BY <1>0, StatesDiffer
  <2> QED
    BY <1>0, <2>1, NoneToCome
<1>3. OnlyRefs(g, b, q) /\ NewRef(g, g2, "Subtrahend", h, n)
  BY DEF CleanInv, OnlyRefs, Followed
<1>4. OnlyRefs(g2, b2, q) /\ KnownSame(g, b, q, g2, b2, q)
  BY <1>0, <1>1, <1>2, <1>3, CleanAsked
<1>5. CopiesInv(g2, k, c)
  <2>1. ~Both(g, "T_INI") /\ ~Both(g2, "T_INI")
    BY <1>0, StatesDiffer DEF Both, Followed, Works
  <2>2. k = c /\ \A l \in Legs :
          /\ g[l].vol = c
          /\ \/ g[l].pos = g[l].deal /\ (g[l].state = Ini["in"] \/ Works(g, l, "in"))
             \/ g[l].pos + g[l].deal = c /\ (g[l].state = Ini["out"] \/ Works(g, l, "out"))
    BY <2>1 DEF CleanInv, CopiesInv
  <2>3. \A y \in Half, l \in Legs :
          g[l].state = Ini[y] \/ Works(g, l, y) => g2[l].state = Ini[y] \/ Works(g2, l, y)
    BY StatesDiffer DEF Followed, Works
  <2> QED
    BY <2>1, <2>2, <2>3, StatesDiffer DEF CopiesInv, Followed
<1>6. \A l \in Legs : g2[l].pos = g[l].pos
  BY DEF Followed
<1> QED
  BY <1>4, <1>5, <1>6, StatesDiffer DEF CleanInv, OnlyRefs, KnownSame

\* A report that trades nothing leaves what the legs know.
LEMMA QuietHandled ==
  ASSUME NEW g, NEW g2, NEW b \in Seq(Order), NEW q \in Seq(Report), ReportsInv(b, q), q # << >>,
         \A x \in Legs, y \in Half : g2[x].ref[y] = g[x].ref[y],
         \A x \in Legs, y \in Half : Borne(Head(q), g[x].ref[y], {"trade"}) = 0,
         OnlyRefs(g, b, q)
  PROVE  OnlyRefs(g2, b, Tail(q)) /\ KnownSame(g, b, q, g2, b, Tail(q))
<1> SUFFICES ASSUME NEW x \in Legs, NEW y \in Half
             PROVE  /\ Only(b, Tail(q), x, y, g2[x].ref[y])
                    /\ Known(b, Tail(q), x, y, g2[x].ref[y]) = Known(b, q, x, y, g[x].ref[y])
  BY DEF OnlyRefs, KnownSame
<1>1. Only(b, q, x, y, g[x].ref[y]) /\ g2[x].ref[y] = g[x].ref[y]
  BY DEF OnlyRefs
<1>2. /\ Only(b, Tail(q), x, y, g[x].ref[y])
      /\ Known(b, Tail(q), x, y, g[x].ref[y]) = Known(b, q, x, y, g[x].ref[y]) + 0
  BY <1>1, CleanHandled
<1>3. Known(b, q, x, y, g[x].ref[y]) \in Int
  BY TradedIsInt, UnderwayIsNat DEF Known
<1> QED
  BY <1>1, <1>2, <1>3

\* The order of the Minuend ended before anything was traded.
Abandoned(g, g2, h) ==
  \A l \in Legs : /\ g2[l].state = Ini[h] /\ g2[l].pos = g[l].pos
                  /\ g2[l].vol = g[l].vol /\ g2[l].deal = g[l].deal
                  /\ \A y \in Half : g2[l].ref[y] = g[l].ref[y] /\ g2[l].sys[y] = g[l].sys[y]

\* An opening that is given up has no claim any more, a closing that is has it still.
Returns(g, g2, h) == \A k : Claim(g, k) = k /\ Claim(g2, k) = IF h = "in" THEN 0 ELSE k

LEMMA AbandonStage ==
  ASSUME NEW g \in [Legs -> Leg], NEW g2 \in [Legs -> Leg], NEW h \in Half,
         NEW b \in Seq(Order), NEW q \in Seq(Report), ReportsInv(b, q), q # << >>,
         g["Minuend"].ref[h] = Head(q).ref, Head(q).kind = "canceled",
         Head(q).traded = 0, g["Minuend"].deal = 0,
         Abandoned(g, g2, h), NEW p, StageInv(g, b, q, p), MinuendInv(g)
  PROVE  /\ StageInv(g2, b, Tail(q), TRUE) /\ MinuendInv(g2) /\ Returns(g, g2, h)
         /\ Works(g, "Minuend", h) /\ g["Subtrahend"].state = Ini[h]
<1> USE StatesDiffer
<1> DEFINE r == Head(q).ref
<1>1. /\ g["Minuend"].state = Waiting[h] /\ Works(g, "Minuend", h)
      /\ Coming(b, Tail(q), r) \in Nat /\ r # NullRef
  <2>1. HalfInv(g, b, q, "Minuend", h)
    BY DEF StageInv
  <2> QED
    BY <2>1, HalfOfReport
<1>2. g["Subtrahend"].state = Ini[h]
  BY <1>1 DEF StageInv, Stage, Both, Works
<1>3. Coming(b, Tail(q), r) = 0
  <2>1. Tail(q) \in Seq(Report) /\ Head(q) \in Report /\ Agrees(b, Head(q))
        /\ Coming(b, q, r) = Coming(b, Tail(q), r) + Borne(Head(q), r, {"trade", "canceled"})
    BY HandledStep
  <2>2. Bears(Head(q)) = Head(q).remain /\ Head(q).remain \in Nat
    BY <2>1, ReportFields
  <2>3. Borne(Head(q), r, {"trade", "canceled"}) = Head(q).remain
    BY <2>2 DEF Borne
  <2>4. r \in DOMAIN b /\ Head(q).remain = b[r].vol
    BY <2>1, <2>2, OrderFields DEF Agrees
  <2>5. Coming(b, q, r) <= b[r].vol
    BY <2>4 DEF ReportsInv
  <2> QED
    BY <1>1, <2>1, <2>2, <2>3, <2>4, <2>5
<1>4. \A l \in Legs : g[l].deal = 0
  <2>1. HalfInv(g, b, q, "Subtrahend", h)
    BY DEF StageInv
  <2> QED
    BY <1>2, <2>1 DEF HalfInv
<1>5. ASSUME NEW l \in Legs, NEW y \in Half PROVE HalfInv(g2, b, Tail(q), l, y)
  <2>1. Coming(b, Tail(q), g[l].ref[y]) = 0
    <3>1. CASE l = "Minuend" /\ y = h
      BY <1>3, <3>1
    <3>2. CASE ~(l = "Minuend" /\ y = h)
      <4>1. HalfInv(g, b, q, l, y) /\ ~Works(g, l, y)
        BY <1>1, <1>2, <3>2 DEF StageInv, Works
      <4>2. HalfInv(g, b, Tail(q), l, y)
        BY <4>1, HalfHandled
      <4> QED
        BY <4>1, <4>2 DEF HalfInv
    <3> QED
      BY <3>1, <3>2
  <2>2. g2[l].state = Ini[h] /\ g2[l].deal = 0 /\ g2[l].ref[y] = g[l].ref[y]
    BY <1>4 DEF Abandoned
  <2> QED
    BY <2>1, <2>2 DEF HalfInv, Works
<1>6. StageInv(g2, b, Tail(q), TRUE)
  <2>1. Stage(g2)
    BY DEF Stage, Abandoned, Both
  <2>2. \A l \in Legs : g2[l].vol \in 1 .. UIntSize - 1
    BY DEF StageInv, Abandoned
  <2> QED
    BY <1>5, <2>1, <2>2 DEF StageInv
<1>7. MinuendInv(g2)
  BY <1>1, <1>4 DEF MinuendInv, Abandoned, Works
<1>8. ASSUME NEW k PROVE Claim(g, k) = k /\ Claim(g2, k) = IF h = "in" THEN 0 ELSE k
  BY <1>1 DEF Claim, Abandoned, Works
<1> QED
  BY <1>1, <1>2, <1>6, <1>7, <1>8 DEF Returns

LEMMA AbandonClean ==
  ASSUME NEW g \in [Legs -> Leg], NEW g2 \in [Legs -> Leg], NEW h \in Half,
         NEW b \in Seq(Order), NEW q \in Seq(Report), ReportsInv(b, q), q # << >>,
         Head(q).kind = "canceled", Abandoned(g, g2, h),
         Works(g, "Minuend", h), g["Subtrahend"].state = Ini[h],
         NEW k, NEW c, CleanInv(g, b, q, k, c)
  PROVE  CleanInv(g2, b, Tail(q), k, c)
<1>1. EndIsLast(Tail(q)) /\ OnlyRefs(g, b, q)
  BY HandledStep DEF CleanInv, OnlyRefs
<1>2. \A x \in Legs, y \in Half : g2[x].ref[y] = g[x].ref[y]
  BY DEF Abandoned
<1>3. \A x \in Legs, y \in Half : Borne(Head(q), g[x].ref[y], {"trade"}) = 0
  BY DEF Borne
<1>4. OnlyRefs(g2, b, Tail(q)) /\ KnownSame(g, b, q, g2, b, Tail(q))
  BY <1>1, <1>2, <1>3, QuietHandled
<1>5. CopiesInv(g2, k, c)
  <2>1. ~Both(g, "T_INI") /\ ~Both(g2, "T_INI")
    BY StatesDiffer DEF Both, Abandoned, Works
  <2>2. k = c /\ \A l \in Legs :
          /\ g[l].vol = c
          /\ \/ g[l].pos = g[l].deal /\ (g[l].state = Ini["in"] \/ Works(g, l, "in"))
             \/ g[l].pos + g[l].deal = c /\ (g[l].state = Ini["out"] \/ Works(g, l, "out"))
    BY <2>1 DEF CleanInv, CopiesInv
  <2>3. \A y \in Half, l \in Legs : g[l].state = Ini[y] \/ Works(g, l, y) => g2[l].state = Ini[y]
    BY StatesDiffer DEF Abandoned, Works
  <2> QED
    BY <2>1, <2>2, <2>3, StatesDiffer DEF CopiesInv, Abandoned
<1>6. \A l \in Legs : g2[l].pos = g[l].pos
  BY DEF Abandoned
<1> QED
  BY <1>1, <1>4, <1>5, <1>6, StatesDiffer DEF CleanInv, OnlyRefs, KnownSame

\* Legs that differ in their references only.
Alike(g, g2) ==
  \A l \in Legs : /\ g2[l].state = g[l].state /\ g2[l].pos = g[l].pos
                  /\ g2[l].vol = g[l].vol /\ g2[l].deal = g[l].deal

Halves(g, b, q) == \A l \in Legs, h \in Half : HalfInv(g, b, q, l, h)

LEMMA AlikeStage ==
  ASSUME NEW g, NEW g2, Alike(g, g2), NEW b, NEW q, NEW b2, NEW q2, Halves(g2, b2, q2),
         NEW p, StageInv(g, b, q, p)
  PROVE  /\ StageInv(g2, b2, q2, p)
         /\ MinuendInv(g) => MinuendInv(g2)
         /\ \A k : Claim(g2, k) = Claim(g, k)
<1> USE StatesDiffer
<1>1. Stage(g2)
  BY DEF StageInv, Stage, Alike, Both, Works
<1>2. ~p => Both(g2, "T_INI")
  BY DEF StageInv, Alike, Both
<1>3. StageInv(g2, b2, q2, p)
  BY <1>1, <1>2 DEF StageInv, Alike, Halves
<1>4. MinuendInv(g) => MinuendInv(g2)
  BY DEF MinuendInv, Alike, Works
<1>5. ASSUME NEW k PROVE Claim(g2, k) = Claim(g, k)
  BY DEF Claim, Alike, Works
<1> QED
  BY <1>3, <1>4, <1>5

LEMMA AlikeClean ==
  ASSUME NEW g, NEW g2, Alike(g, g2), NEW b, NEW q, NEW b2, NEW q2, NEW k, NEW c,
         CleanInv(g, b, q, k, c), EndIsLast(q2), OnlyRefs(g2, b2, q2), KnownSame(g, b, q, g2, b2, q2)
  PROVE  CleanInv(g2, b2, q2, k, c)
<1>1. CopiesInv(g2, k, c)
  <2>1. Both(g2, "T_INI") <=> Both(g, "T_INI")
    BY DEF Both, Alike
  <2>2. \A l \in Legs, h \in Half : Works(g2, l, h) <=> Works(g, l, h)
    BY DEF Works, Alike
  <2> QED
    BY <2>1, <2>2, StatesDiffer DEF CleanInv, CopiesInv, Alike
<1>2. \A l \in Legs : g2[l].pos = g[l].pos
  BY DEF Alike
<1> QED
  BY <1>1, <1>2, StatesDiffer DEF CleanInv, OnlyRefs, KnownSame

\* The claim of the legs is what it was.
ClaimSame(g, g2) == \A k : Claim(g2, k) = Claim(g, k)

\* The rest of a cancelled order is placed again.
LEMMA AgainStage ==
  ASSUME NEW g \in [Legs -> Leg], NEW g2 \in [Legs -> Leg], NEW l \in Legs, NEW h \in Half,
         NEW b \in Seq(Order), NEW q \in Seq(Report), ReportsInv(b, q), q # << >>, RefsInv(g, b),
         g[l].ref[h] = Head(q).ref, Head(q).kind = "canceled",
         NEW b2, NEW n, Asked(b, Tail(q), b2, l, h, Bears(Head(q)), n),
         Alike(g, g2), NewRef(g, g2, l, h, n), NEW p, StageInv(g, b, q, p), MinuendInv(g)
  PROVE  StageInv(g2, b2, Tail(q), p) /\ MinuendInv(g2) /\ ClaimSame(g, g2)
<1> DEFINE rest == Bears(Head(q))
           q2 == Tail(q)
<1>1. /\ g[l].state = Waiting[h] /\ Works(g, l, h) /\ rest \in Nat
      /\ g[l].deal + rest + Coming(b, q2, g[l].ref[h]) <= g[l].vol
      /\ Coming(b, q2, g[l].ref[h]) \in Nat
  <2>1. HalfInv(g, b, q, l, h)
    BY DEF StageInv
  <2> QED
    BY <2>1, HalfOfReport
<1>2. q2 \in Seq(Report) /\ ReportsInv(b, q2)
  BY HandledStep
<1>3. Grown(b, q2, b2, l, h, rest, n)
  BY <1>1, <1>2, AskedIs
<1>4. ASSUME NEW x \in Legs, NEW y \in Half PROVE HalfInv(g2, b2, q2, x, y)
  <2>1. CASE x = l /\ y = h
    <3>1. Coming(b2, q2, n) \in Nat /\ Coming(b2, q2, n) <= rest /\ g2[x].ref[y] = n
      BY <1>3, <2>1 DEF Grown, NewRef
    <3>2. g[l].deal \in Nat /\ g[l].vol \in Nat
      BY LegFields
    <3>3. g2[l].deal = g[l].deal /\ g2[l].vol = g[l].vol /\ g2[l].state = Waiting[h]
      BY <1>1 DEF Alike
    <3>4. Works(g2, l, h) /\ g2[l].state # Ini[h] /\ g2[l].state # Finished[h]
      BY <3>3, StatesDiffer DEF Works
    <3>5. g2[l].deal + Coming(b2, q2, n) <= g2[l].vol
      BY <1>1, <3>1, <3>2, <3>3
    <3> QED
      BY <2>1, <3>1, <3>4, <3>5 DEF HalfInv
  <2>2. CASE ~(x = l /\ y = h)
    <3>1. HalfInv(g, b, q, x, y)
      BY DEF StageInv
    <3>2. HalfInv(g, b, q2, x, y)
      BY <3>1, HalfHandled
    <3>3. g[x].ref[y] \in DOMAIN b \cup {NullRef} /\ Coming(b, q2, g[x].ref[y]) \in Nat
      BY <1>2, RefIsOne, ComingBounds
    <3>4. Coming(b2, q2, g[x].ref[y]) = Coming(b, q2, g[x].ref[y])
      BY <1>3, <3>3 DEF Grown
    <3>5. Coming(b2, q2, g[x].ref[y]) \in Nat
          /\ Coming(b2, q2, g[x].ref[y]) <= Coming(b, q2, g[x].ref[y])
      BY <3>3, <3>4
    <3>6. g2[x].ref[y] = g[x].ref[y] /\ g2[x].state = g[x].state /\ g2[x].deal = g[x].deal
          /\ g2[x].vol = g[x].vol
      BY <2>2 DEF Alike, NewRef
    <3> HIDE DEF q2
    <3> QED
      BY <3>2, <3>3, <3>5, <3>6, HalfLess
  <2> QED
    BY <2>1, <2>2
<1>5. Halves(g2, b2, q2)
  BY <1>4 DEF Halves
<1> QED
  BY <1>5, AlikeStage DEF ClaimSame

LEMMA AgainClean ==
  ASSUME NEW g \in [Legs -> Leg], NEW g2 \in [Legs -> Leg], NEW l \in Legs, NEW h \in Half,
         NEW b \in Seq(Order), NEW q \in Seq(Report), ReportsInv(b, q), q # << >>, RefsInv(g, b),
         g[l].ref[h] = Head(q).ref, Head(q).kind = "canceled",
         NEW b2, NEW n, Asked(b, Tail(q), b2, l, h, Bears(Head(q)), n),
         Alike(g, g2), NewRef(g, g2, l, h, n), NEW k, NEW c, CleanInv(g, b, q, k, c)
  PROVE  CleanInv(g2, b2, Tail(q), k, c)
<1> DEFINE rest == Bears(Head(q))
           q2 == Tail(q)
<1>1. EndIsLast(q) /\ OnlyRefs(g, b, q)
  BY DEF CleanInv, OnlyRefs
<1>2. q2 \in Seq(Report) /\ ReportsInv(b, q2) /\ EndIsLast(q2) /\ Coming(b, q2, g[l].ref[h]) = 0
      /\ rest \in Nat
  BY <1>1, HandledStep, ReportFields
<1>3. \A x \in Legs, y \in Half : Borne(Head(q), g[x].ref[y], {"trade"}) = 0
  BY DEF Borne
<1>4. OnlyRefs(g, b, q2) /\ KnownSame(g, b, q, g, b, q2)
  BY <1>1, <1>3, QuietHandled
<1>5. OnlyRefs(g2, b2, q2) /\ KnownSame(g, b, q2, g2, b2, q2)
  <2> HIDE DEF q2, rest
  <2>1. Asked(b, q2, b2, l, h, rest, n)
    BY DEF q2, rest
  <2> QED
    BY <1>2, <1>4, <2>1, CleanAsked
<1>6. KnownSame(g, b, q, g2, b2, q2)
  BY <1>4, <1>5 DEF KnownSame
<1> QED
  BY <1>2, <1>5, <1>6, AlikeClean

\* A report that only tells something, or is of an order that was given up.
LEMMA PassStage ==
  ASSUME NEW g \in [Legs -> Leg], NEW g2 \in [Legs -> Leg],
         NEW b \in Seq(Order), NEW q \in Seq(Report), ReportsInv(b, q), q # << >>,
         Alike(g, g2), \A l \in Legs, h \in Half : g2[l].ref[h] = g[l].ref[h],
         NEW p, StageInv(g, b, q, p)
  PROVE  /\ StageInv(g2, b, Tail(q), p)
         /\ MinuendInv(g) => MinuendInv(g2)
         /\ \A k : Claim(g2, k) = Claim(g, k)
<1>1. ASSUME NEW x \in Legs, NEW y \in Half PROVE HalfInv(g2, b, Tail(q), x, y)
  <2>1. HalfInv(g, b, q, x, y)
    BY DEF StageInv
  <2>2. g2[x].ref[y] = g[x].ref[y] /\ g2[x].state = g[x].state /\ g2[x].deal = g[x].deal
        /\ g2[x].vol = g[x].vol
    BY DEF Alike
  <2> QED
    BY <2>1, <2>2, HalfHandled
<1>2. Halves(g2, b, Tail(q))
  BY <1>1 DEF Halves
<1> QED
  BY <1>2, AlikeStage

LEMMA PassClean ==
  ASSUME NEW g, NEW g2, NEW b \in Seq(Order), NEW q \in Seq(Report), ReportsInv(b, q), q # << >>,
         Alike(g, g2), \A l \in Legs, h \in Half : g2[l].ref[h] = g[l].ref[h],
         \A l \in Legs, h \in Half : Borne(Head(q), g[l].ref[h], {"trade"}) = 0,
         NEW k, NEW c, CleanInv(g, b, q, k, c)
  PROVE  CleanInv(g2, b, Tail(q), k, c)
<1>1. EndIsLast(Tail(q)) /\ OnlyRefs(g, b, q)
  BY HandledStep DEF CleanInv, OnlyRefs
<1>2. OnlyRefs(g2, b, Tail(q)) /\ KnownSame(g, b, q, g2, b, Tail(q))
  BY <1>1, QuietHandled
<1> QED
  BY <1>1, <1>2, AlikeClean

-----------------------------------------------------------------------------
(* A step of one strategy                                                  *)

\* What is true of a strategy before a step.
LEMMA Before ==
  ASSUME IInv, NEW s \in Strategy
  PROVE  /\ pc[s] \in {"none", "idle", "tick"} /\ pedding[s] \in BOOLEAN
         /\ locked[s] \in Nat /\ copies[s] \in 1 .. MaxCopies[s]
         /\ copies[s] \in 1 .. UIntSize - 1 /\ copies[s] \in Nat
         /\ leg[s] \in [Legs -> Leg] /\ orders[s] \in Seq(Order) /\ reports[s] \in Seq(Report)
         /\ odd[s] \in SUBSET Odd
         /\ pc[s] = "none" => Untouched(s)
         /\ ReportsInv(orders[s], reports[s]) /\ RefsInv(leg[s], orders[s])
         /\ "clear" \notin odd[s] =>
              StageInv(leg[s], orders[s], reports[s], pedding[s]) /\ MinuendInv(leg[s])
         /\ odd[s] \subseteq {"refused"} =>
              /\ "clear" \notin odd[s]
              /\ CleanInv(leg[s], orders[s], reports[s], locked[s], copies[s])
<1>1. TypeOK /\ StrategyInv(s)
  BY DEF IInv
<1>2. copies[s] \in 1 .. MaxCopies[s] /\ MaxCopies[s] \in 1 .. UIntSize - 1 /\ UIntSize \in Nat
  BY <1>1, ArbitrageAssumption DEF TypeOK
<1>3. copies[s] \in 1 .. UIntSize - 1 /\ copies[s] \in Nat
  BY <1>2
<1>4. /\ pc[s] \in {"none", "idle", "tick"} /\ pedding[s] \in BOOLEAN /\ locked[s] \in Nat
      /\ leg[s] \in [Legs -> Leg] /\ orders[s] \in Seq(Order) /\ reports[s] \in Seq(Report)
      /\ odd[s] \in SUBSET Odd
  BY <1>1 DEF TypeOK
<1> QED
  BY <1>1, <1>2, <1>3, <1>4 DEF StrategyInv

\* Only a strategy that was started does something, so that the value is there.
LEMMA Valued ==
  ASSUME IInv, NEW s \in Strategy, pc[s] # "none" \/ orders[s] # << >> \/ reports[s] # << >>
  PROVE  pc[s] # "none" /\ sharedValue \in Int /\ sharedValue # NoValue
<1>1. pc[s] # "none"
  BY DEF IInv, StrategyInv, Untouched
<1> QED
  BY <1>1 DEF IInv, ClaimInv, TypeOK

\* The claims of the strategies.
Claims == [t \in Strategy |-> Claim(leg[t], locked[t])]

LEMMA ClaimsSum ==
  /\ SumFunction(Claims) = SumFunctionOnSet(Claims, Strategy)
  /\ TypeOK => \A t \in Strategy : Claims[t] \in Int
<1>1. SumFunction(Claims) = SumFunctionOnSet(Claims, Strategy)
  BY DEF SumFunction, SumFunctionOnSet, FoldFunction, Claims
<1>2. ASSUME TypeOK, NEW t \in Strategy PROVE Claims[t] \in Int
  BY <1>2 DEF TypeOK, Claims, Claim
<1> QED
  BY <1>1, <1>2

\* A strategy that a step leaves alone.
Same(t) ==
  /\ pc'[t] = pc[t] /\ pedding'[t] = pedding[t] /\ locked'[t] = locked[t]
  /\ copies'[t] = copies[t] /\ leg'[t] = leg[t] /\ orders'[t] = orders[t]
  /\ reports'[t] = reports[t] /\ odd'[t] = odd[t]

LEMMA SameKeeps ==
  ASSUME NEW t \in Strategy, Same(t), StrategyInv(t)
  PROVE  StrategyInv(t)'
BY DEF Same, StrategyInv, Untouched

\* The step of a strategy.
Moves(s, p2, pend2, k2, c2, g2, b2, q2, o2) ==
  /\ pc' = [pc EXCEPT ![s] = p2] /\ pedding' = [pedding EXCEPT ![s] = pend2]
  /\ locked' = [locked EXCEPT ![s] = k2] /\ copies' = [copies EXCEPT ![s] = c2]
  /\ leg' = [leg EXCEPT ![s] = g2] /\ orders' = [orders EXCEPT ![s] = b2]
  /\ reports' = [reports EXCEPT ![s] = q2] /\ odd' = [odd EXCEPT ![s] = o2]
  /\ UNCHANGED <<others, total>>

\* It leads to a state of the strategy that is as it should be.
Fits(s, p2, pend2, k2, c2, g2, b2, q2, o2) ==
  /\ p2 \in {"idle", "tick"} /\ pend2 \in BOOLEAN /\ k2 \in Nat
  /\ c2 \in 1 .. MaxCopies[s] /\ g2 \in [Legs -> Leg] /\ b2 \in Seq(Order)
  /\ q2 \in Seq(Report) /\ o2 \in SUBSET Odd
  /\ ReportsInv(b2, q2) /\ RefsInv(g2, b2)
  /\ "clear" \notin o2 => StageInv(g2, b2, q2, pend2) /\ MinuendInv(g2)
  /\ o2 \subseteq {"refused"} => CleanInv(g2, b2, q2, k2, c2)

\* What it takes from the value is what it claims.
Pays(s, k2, g2, o2) ==
  /\ sharedValue' \in Int
  /\ "clear" \notin o2 =>
       /\ "clear" \notin odd[s]
       /\ sharedValue' + Claim(g2, k2) = sharedValue + Claim(leg[s], locked[s])

Counts == modified' \in 0 .. MaxModify /\ meddled' \in 0 .. MaxMeddle

LEMMA MovesKeep ==
  ASSUME IInv, NEW s \in Strategy, sharedValue # NoValue,
         NEW p2, NEW pend2, NEW k2, NEW c2, NEW g2, NEW b2, NEW q2, NEW o2,
         Moves(s, p2, pend2, k2, c2, g2, b2, q2, o2),
         Fits(s, p2, pend2, k2, c2, g2, b2, q2, o2), Pays(s, k2, g2, o2), Counts
  PROVE  IInv'
<1>1. TypeOK /\ ClaimInv /\ \A t \in Strategy : StrategyInv(t)
  BY DEF IInv
<1>2. /\ pc'[s] = p2 /\ pedding'[s] = pend2 /\ locked'[s] = k2 /\ copies'[s] = c2
      /\ leg'[s] = g2 /\ orders'[s] = b2 /\ reports'[s] = q2 /\ odd'[s] = o2
  BY <1>1 DEF Moves, TypeOK
<1>3. \A t \in Strategy : t # s => Same(t)
  BY <1>1 DEF Moves, TypeOK, Same
<1>4. TypeOK'
  <2>1. sharedValue' \in Int \cup {NoValue} /\ modified' \in 0 .. MaxModify /\ meddled' \in 0 .. MaxMeddle
        /\ others' \in Nat /\ total' \in Int
    BY <1>1 DEF Pays, Counts, Moves, TypeOK
  <2>2. pc' \in [Strategy -> {"none", "idle", "tick"}] /\ pedding' \in [Strategy -> BOOLEAN]
    BY <1>1 DEF Fits, Moves, TypeOK
  <2>3. locked' \in [Strategy -> Nat] /\ leg' \in [Strategy -> [Legs -> Leg]]
    BY <1>1 DEF Fits, Moves, TypeOK
  <2>4. orders' \in [Strategy -> Seq(Order)] /\ reports' \in [Strategy -> Seq(Report)]
        /\ odd' \in [Strategy -> SUBSET Odd]
    BY <1>1 DEF Fits, Moves, TypeOK
  <2>5. copies' \in [Strategy -> Nat] /\ \A t \in Strategy : copies'[t] \in 1 .. MaxCopies[t]
    <3>1. \A t \in Strategy : copies'[t] \in 1 .. MaxCopies[t]
      BY <1>1, <1>2, <1>3 DEF Same, Fits, TypeOK
    <3>2. \A t \in Strategy : MaxCopies[t] \in Nat
      BY ArbitrageAssumption
    <3>3. \A t \in Strategy : copies'[t] \in Nat
      BY <3>1, <3>2
    <3>4. copies' = [t \in Strategy |-> copies'[t]]
      BY <1>1 DEF Moves, TypeOK
    <3> QED
      BY <3>1, <3>3, <3>4
  <2> QED
    BY <2>1, <2>2, <2>3, <2>4, <2>5 DEF TypeOK
<1>5. StrategyInv(s)'
  <2>1. pc'[s] # "none"
    BY <1>2 DEF Fits
  <2> QED
    BY <1>2, <2>1 DEF StrategyInv, Fits
<1>6. \A t \in Strategy : StrategyInv(t)'
  BY <1>1, <1>3, <1>5, SameKeeps
<1>7. ClaimInv'
  <2>1. sharedValue' # NoValue /\ others' = others /\ total' = total /\ sharedValue \in Int
        /\ others \in Nat /\ total \in Int
    BY <1>1, NoValueAssumption DEF Pays, Moves, TypeOK
  <2>2. SUFFICES ASSUME \A t \in Strategy : "clear" \notin odd'[t]
                 PROVE  sharedValue' + others' + SumFunction(Claims') = total'
    BY <2>1 DEF ClaimInv, Claims
  <2>3. "clear" \notin o2
    BY <1>2, <2>2
  <2>4. \A t \in Strategy : "clear" \notin odd[t]
    BY <1>3, <2>2, <2>3 DEF Same, Pays
  <2>5. sharedValue + others + SumFunction(Claims) = total
    BY <1>1, <2>4 DEF ClaimInv, Claims
  <2> DEFINE f == Claims
             f2 == Claims'
  <2>6. /\ SumFunction(f) = SumFunctionOnSet(f, Strategy)
        /\ SumFunction(f2) = SumFunctionOnSet(f2, Strategy)
        /\ \A t \in Strategy : f[t] \in Int /\ f2[t] \in Int
    <3>1. SumFunction(f2) = SumFunctionOnSet(f2, Strategy)
      BY DEF SumFunction, SumFunctionOnSet, FoldFunction, Claims
    <3>2. \A t \in Strategy : f2[t] \in Int
      BY <1>4 DEF TypeOK, Claims, Claim
    <3> QED
      BY <1>1, <3>1, <3>2, ClaimsSum
  <2>7. \A t \in Strategy : t # s => f[t] = f2[t]
    BY <1>3 DEF Claims, Same
  <2>8. f[s] = Claim(leg[s], locked[s]) /\ f2[s] = Claim(g2, k2)
    BY <1>2 DEF Claims
  <2> HIDE DEF f, f2
  <2>9. SumFunctionOnSet(f2, Strategy) = SumFunctionOnSet(f, Strategy) - f[s] + f2[s]
    BY <2>6, <2>7, SumChange, ArbitrageAssumption
  <2>10. SumFunctionOnSet(f, Strategy) \in Int
    BY <2>6, SumIsInt, ArbitrageAssumption
  <2>11. sharedValue' \in Int /\ sharedValue' + f2[s] = sharedValue + f[s]
    BY <2>3, <2>8 DEF Pays
  <2>12. f[s] \in Int /\ f2[s] \in Int
    BY <2>6
  <2>13. sharedValue' + others' + SumFunction(f2) = total'
    BY <2>1, <2>5, <2>6, <2>9, <2>10, <2>11, <2>12 DEF f
  <2> QED
    BY <2>13 DEF f2
<1> QED
  BY <1>4, <1>6, <1>7 DEF IInv

\* What a step leaves alone may be read as given again.
LEMMA Kept ==
  ASSUME NEW S, NEW T, NEW f \in [S -> T], NEW x \in S
  PROVE  f = [f EXCEPT ![x] = f[x]]
OBVIOUS

-----------------------------------------------------------------------------
(* The steps of the exchange keep the invariant                            *)

LEMMA ExchangeMove ==
  ASSUME IInv, NEW s \in Strategy, pc[s] # "none", sharedValue # NoValue,
         NEW b2, NEW q2, NEW o2 \in SUBSET Odd, Exchanged(orders[s], reports[s], b2, q2),
         odd[s] \subseteq o2, "clear" \in o2 => "clear" \in odd[s],
         o2 \subseteq {"refused"} => (EndIsLast(reports[s]) => EndIsLast(q2)),
         orders' = [orders EXCEPT ![s] = b2], reports' = [reports EXCEPT ![s] = q2],
         odd' = [odd EXCEPT ![s] = o2], UNCHANGED exchange
  PROVE  IInv'
<1> DEFINE g == leg[s]
           b == orders[s]
           q == reports[s]
<1>1. /\ pc[s] \in {"none", "idle", "tick"} /\ pedding[s] \in BOOLEAN
      /\ locked[s] \in Nat /\ copies[s] \in 1 .. MaxCopies[s]
      /\ g \in [Legs -> Leg] /\ b \in Seq(Order) /\ q \in Seq(Report)
      /\ ReportsInv(b, q) /\ RefsInv(g, b)
      /\ "clear" \notin odd[s] => StageInv(g, b, q, pedding[s]) /\ MinuendInv(g)
      /\ odd[s] \subseteq {"refused"} => CleanInv(g, b, q, locked[s], copies[s])
  BY Before
<1>2. TypeOK
  BY DEF IInv
<1>3. b2 \in Seq(Order) /\ q2 \in Seq(Report) /\ ReportsInv(b2, q2)
  BY DEF Exchanged
<1>4. /\ RefsInv(g, b2)
      /\ \A p : StageInv(g, b, q, p) => StageInv(g, b2, q2, p)
      /\ \A k, c : EndIsLast(q2) /\ CleanInv(g, b, q, k, c) => CleanInv(g, b2, q2, k, c)
  BY <1>1, ExchangeKeeps
<1>5. o2 \subseteq {"refused"} => EndIsLast(q2) \/ ~CleanInv(g, b, q, locked[s], copies[s])
  BY DEF CleanInv
<1>6. Fits(s, pc[s], pedding[s], locked[s], copies[s], g, b2, q2, o2)
  <2>1. "clear" \notin o2 => StageInv(g, b2, q2, pedding[s]) /\ MinuendInv(g)
    BY <1>1, <1>4
  <2>2. o2 \subseteq {"refused"} => CleanInv(g, b2, q2, locked[s], copies[s])
    BY <1>1, <1>4, <1>5
  <2> HIDE DEF g, b, q
  <2> QED
    BY <1>1, <1>3, <1>4, <2>1, <2>2 DEF Fits
<1>7. Moves(s, pc[s], pedding[s], locked[s], copies[s], g, b2, q2, o2)
  <2>1. /\ pc = [pc EXCEPT ![s] = pc[s]] /\ pedding = [pedding EXCEPT ![s] = pedding[s]]
        /\ locked = [locked EXCEPT ![s] = locked[s]] /\ copies = [copies EXCEPT ![s] = copies[s]]
        /\ leg = [leg EXCEPT ![s] = leg[s]]
    BY <1>2, Kept DEF TypeOK
  <2> QED
    BY <2>1 DEF Moves, exchange
<1>8. Pays(s, locked[s], g, o2) /\ Counts
  BY <1>2 DEF Pays, Counts, exchange, TypeOK
<1> QED
  BY <1>6, <1>7, <1>8, MovesKeep

\* A step that appends a report of an order that lives.
LEMMA TellMove ==
  ASSUME IInv, NEW s \in Strategy, NEW b2, NEW m \in Report, Living(orders[s], m.ref),
         Exchanged(orders[s], reports[s], b2, Append(reports[s], m)),
         orders' = [orders EXCEPT ![s] = b2], Told(s, m), UNCHANGED odd, UNCHANGED exchange
  PROVE  IInv'
<1> DEFINE q2 == Append(reports[s], m)
<1>1. orders[s] \in Seq(Order) /\ reports[s] \in Seq(Report) /\ odd[s] \in SUBSET Odd
      /\ ReportsInv(orders[s], reports[s]) /\ TypeOK
  BY Before DEF IInv
<1>2. orders[s] # << >>
  BY DEF Living
<1>3. pc[s] # "none" /\ sharedValue # NoValue
  BY <1>2, Valued
<1>4. EndIsLast(reports[s]) => EndIsLast(q2)
  BY <1>1, EndStaysLast
<1>5. reports' = [reports EXCEPT ![s] = q2] /\ odd' = [odd EXCEPT ![s] = odd[s]]
  <2>1. odd = [odd EXCEPT ![s] = odd[s]]
    BY <1>1, Kept DEF TypeOK
  <2> QED
    BY <1>1, <2>1 DEF Told, TypeOK
<1> HIDE DEF q2
<1>6. Exchanged(orders[s], reports[s], b2, q2)
  BY DEF q2
<1> QED
  BY <1>1, <1>3, <1>4, <1>5, <1>6, ExchangeMove

LEMMA AcceptKeeps ==
  ASSUME IInv, NEW s \in Strategy, NEW r \in DOMAIN orders[s], Accept(s, r)
  PROVE  IInv'
<1> DEFINE m == [kind |-> "queueing", ref |-> r]
           b2 == WithStatus(orders[s], r, "live")
<1>1. orders[s] \in Seq(Order) /\ reports[s] \in Seq(Report) /\ ReportsInv(orders[s], reports[s])
      /\ TypeOK
  BY Before DEF IInv
<1>2. orders[s][r].status = "sent" /\ Living(orders[s], r)
  BY DEF Accept, Living
<1>3. Exchanged(orders[s], reports[s], b2, Append(reports[s], m))
  BY <1>1, <1>2, AcceptStep
<1>4. m \in Report /\ m.ref = r
  BY <1>1, OrderFields DEF Report
<1>5. orders' = [orders EXCEPT ![s] = b2] /\ Told(s, m) /\ UNCHANGED odd /\ UNCHANGED exchange
  BY DEF Accept, WithStatus
<1> HIDE DEF m, b2
<1> QED
  BY <1>2, <1>3, <1>4, <1>5, TellMove

LEMMA FillKeeps ==
  ASSUME IInv, NEW s \in Strategy, NEW r \in DOMAIN orders[s],
         NEW v \in 1 .. MaxCopies[s], Fill(s, r, v)
  PROVE  IInv'
<1> DEFINE m == [kind |-> "trade", ref |-> r, volume |-> v]
           b2 == WithTrade(orders[s], r, v)
<1>1. orders[s] \in Seq(Order) /\ reports[s] \in Seq(Report) /\ ReportsInv(orders[s], reports[s])
      /\ TypeOK
  BY Before DEF IInv
<1>2. orders[s][r].status = "live" /\ Living(orders[s], r)
  BY DEF Fill, Living
<1>3. v \in Nat /\ v > 0 /\ orders[s][r].traded + v <= orders[s][r].vol
  BY ArbitrageAssumption DEF Fill
<1>4. Exchanged(orders[s], reports[s], b2, Append(reports[s], m))
  BY <1>1, <1>2, <1>3, FillStep
<1>5. m \in Report /\ m.ref = r
  BY <1>1, <1>3, OrderFields DEF Report
<1>6. orders' = [orders EXCEPT ![s] = b2] /\ Told(s, m) /\ UNCHANGED odd /\ UNCHANGED exchange
  BY DEF Fill, WithTrade
<1> HIDE DEF m, b2
<1> QED
  BY <1>2, <1>4, <1>5, <1>6, TellMove

LEMMA CancelKeeps ==
  ASSUME IInv, NEW s \in Strategy, NEW r \in DOMAIN orders[s], Cancel(s, r)
  PROVE  IInv'
<1> DEFINE m == [kind |-> "canceled", ref |-> r, traded |-> orders[s][r].traded,
                 remain |-> orders[s][r].vol - orders[s][r].traded]
           b2 == WithStatus(orders[s], r, "ended")
<1>1. orders[s] \in Seq(Order) /\ reports[s] \in Seq(Report) /\ ReportsInv(orders[s], reports[s])
      /\ TypeOK
  BY Before DEF IInv
<1>2. Living(orders[s], r)
  BY DEF Cancel, Living
<1>3. Exchanged(orders[s], reports[s], b2, Append(reports[s], m))
  BY <1>1, <1>2, CancelStep
<1>4. m \in Report /\ m.ref = r
  <2>1. r \in Nat /\ orders[s][r].traded \in Nat /\ orders[s][r].vol \in Nat
    BY <1>1, OrderFields
  <2>2. orders[s][r].traded <= orders[s][r].vol
    BY <1>1 DEF ReportsInv
  <2>3. orders[s][r].vol - orders[s][r].traded \in Nat
    BY <2>1, <2>2
  <2> QED
    BY <2>1, <2>3 DEF Report
<1>5. orders' = [orders EXCEPT ![s] = b2] /\ Told(s, m) /\ UNCHANGED odd /\ UNCHANGED exchange
  BY DEF Cancel, WithStatus
<1> HIDE DEF m, b2
<1> QED
  BY <1>2, <1>3, <1>4, <1>5, TellMove

LEMMA RefuseKeeps ==
  ASSUME IInv, NEW s \in Strategy, NEW r \in DOMAIN orders[s], Refuse(s, r)
  PROVE  IInv'
<1> DEFINE b2 == WithStatus(orders[s], r, "ended")
           o2 == odd[s] \cup {"refused"}
<1>1. orders[s] \in Seq(Order) /\ reports[s] \in Seq(Report) /\ ReportsInv(orders[s], reports[s])
      /\ odd[s] \in SUBSET Odd /\ TypeOK
  BY Before DEF IInv
<1>2. pc[s] # "none" /\ sharedValue # NoValue
  <2>1. orders[s] # << >>
    OBVIOUS
  <2> QED
    BY <2>1, Valued
<1>3. Exchanged(orders[s], reports[s], b2, reports[s])
  BY <1>1, RefuseStep
<1>4. /\ orders' = [orders EXCEPT ![s] = b2] /\ reports' = [reports EXCEPT ![s] = reports[s]]
      /\ odd' = [odd EXCEPT ![s] = o2] /\ UNCHANGED exchange
  <2>1. reports = [reports EXCEPT ![s] = reports[s]]
    BY <1>1, Kept DEF TypeOK
  <2> QED
    BY <2>1 DEF Refuse, WithStatus
<1>5. o2 \in SUBSET Odd /\ odd[s] \subseteq o2 /\ ("clear" \in o2 => "clear" \in odd[s])
  BY <1>1 DEF Odd
<1> HIDE DEF b2, o2
<1> QED
  BY <1>2, <1>3, <1>4, <1>5, ExchangeMove

LEMMA HasReports == ASSUME NEW q \in Seq(Report), Len(q) = 2 PROVE q # << >>
BY EmptySeq

LEMMA OvertakeKeeps ==
  ASSUME IInv, NEW s \in Strategy, Overtake(s)
  PROVE  IInv'
<1> DEFINE q2 == <<reports[s][2], reports[s][1]>>
           o2 == odd[s] \cup {"late"}
<1>1. orders[s] \in Seq(Order) /\ reports[s] \in Seq(Report) /\ ReportsInv(orders[s], reports[s])
      /\ odd[s] \in SUBSET Odd /\ TypeOK /\ Len(reports[s]) = 2
  BY Before DEF IInv, Overtake
<1>2. pc[s] # "none" /\ sharedValue # NoValue
  <2>1. reports[s] # << >>
    BY <1>1, HasReports
  <2> QED
    BY <2>1, Valued
<1>3. Exchanged(orders[s], reports[s], orders[s], q2)
  BY <1>1, SwapStep
<1>4. /\ orders' = [orders EXCEPT ![s] = orders[s]] /\ reports' = [reports EXCEPT ![s] = q2]
      /\ odd' = [odd EXCEPT ![s] = o2] /\ UNCHANGED exchange
  <2>1. orders = [orders EXCEPT ![s] = orders[s]]
    BY <1>1, Kept DEF TypeOK
  <2> QED
    BY <1>1, <2>1 DEF Overtake, TypeOK
<1>5. /\ o2 \in SUBSET Odd /\ odd[s] \subseteq o2 /\ ("clear" \in o2 => "clear" \in odd[s])
      /\ ~(o2 \subseteq {"refused"})
  BY <1>1 DEF Odd
<1> HIDE DEF q2, o2
<1> QED
  BY <1>2, <1>3, <1>4, <1>5, ExchangeMove

-----------------------------------------------------------------------------
(* The reports that are handled keep the invariant                         *)

LEMMA LegChanged ==
  ASSUME NEW g \in [Legs -> Leg], NEW l \in Legs, NEW t \in Leg, NEW g2, g2 = [g EXCEPT ![l] = t]
  PROVE  g2 \in [Legs -> Leg] /\ g2[l] = t /\ \A x \in Legs : x # l => g2[x] = g[x]
OBVIOUS

LEMMA HandlesIs ==
  ASSUME IInv, NEW s \in Strategy, NEW kind, Handles(s, kind)
  PROVE  /\ reports[s] # << >> /\ Head(reports[s]).kind = kind /\ pc[s] = "idle"
         /\ sharedValue # NoValue /\ sharedValue \in Int
         /\ Head(reports[s]) \in Report /\ Agrees(orders[s], Head(reports[s]))
         /\ Tail(reports[s]) \in Seq(Report) /\ ReportsInv(orders[s], Tail(reports[s]))
         /\ reports' = [reports EXCEPT ![s] = Tail(reports[s])]
<1>1. orders[s] \in Seq(Order) /\ reports[s] \in Seq(Report) /\ ReportsInv(orders[s], reports[s])
      /\ TypeOK
  BY Before DEF IInv
<1>2. reports[s] # << >> /\ Head(reports[s]).kind = kind /\ pc[s] = "idle"
      /\ reports' = [reports EXCEPT ![s] = Tail(reports[s])]
  BY <1>1 DEF Handles, TypeOK
<1> QED
  BY <1>1, <1>2, HandledStep, Valued

\* What the handling of a report does, but for the queue and the shared value.
Handled(s, g2, b2, o2) ==
  /\ leg' = [leg EXCEPT ![s] = g2] /\ orders' = [orders EXCEPT ![s] = b2]
  /\ odd' = [odd EXCEPT ![s] = o2]
  /\ UNCHANGED <<pc, pedding, locked, copies, others, total, modified, meddled>>

LEMMA HandleMove ==
  ASSUME IInv, NEW s \in Strategy, NEW kind, Handles(s, kind), NEW g2, NEW b2, NEW o2,
         Handled(s, g2, b2, o2),
         Fits(s, pc[s], pedding[s], locked[s], copies[s], g2, b2, Tail(reports[s]), o2),
         Pays(s, locked[s], g2, o2)
  PROVE  IInv'
<1>1. sharedValue # NoValue /\ reports' = [reports EXCEPT ![s] = Tail(reports[s])] /\ TypeOK
  BY HandlesIs DEF IInv
<1>2. /\ pc = [pc EXCEPT ![s] = pc[s]] /\ pedding = [pedding EXCEPT ![s] = pedding[s]]
      /\ locked = [locked EXCEPT ![s] = locked[s]] /\ copies = [copies EXCEPT ![s] = copies[s]]
  BY <1>1, Kept DEF TypeOK
<1>3. Moves(s, pc[s], pedding[s], locked[s], copies[s], g2, b2, Tail(reports[s]), o2)
  BY <1>1, <1>2 DEF Moves, Handled
<1>4. Counts
  BY <1>1 DEF Counts, TypeOK, Handled
<1> QED
  BY <1>1, <1>3, <1>4, MovesKeep

\* The order that a handler sends.
SentTo(s, q, b2, l, h, vol, ref, oddity) ==
  /\ orders' = [orders EXCEPT ![s] = b2] /\ Asked(orders[s], q, b2, l, h, vol, ref)
  /\ odd' = [odd EXCEPT ![s] = odd[s] \cup oddity \cup (IF ref = NullRef THEN {"refused"} ELSE {})]

LEMMA SentIs ==
  ASSUME IInv, NEW s \in Strategy, NEW ref \in RefFor(s), NEW l \in Legs, NEW h \in Half,
         NEW vol \in Nat \ {0}, NEW oddity, Sent(s, ref, l, h, vol, oddity),
         NEW q \in Seq(Report), ReportsInv(orders[s], q)
  PROVE  \E b2 : SentTo(s, q, b2, l, h, vol, ref, oddity)
<1>1. orders[s] \in Seq(Order) /\ TypeOK
  BY Before DEF IInv
<1>2. odd' = [odd EXCEPT ![s] = odd[s] \cup oddity \cup (IF ref = NullRef THEN {"refused"} ELSE {})]
  BY <1>1 DEF Sent, TypeOK
<1>3. CASE ref = NullRef
  <2>1. orders = [orders EXCEPT ![s] = orders[s]]
    BY <1>1, Kept DEF TypeOK
  <2>2. orders' = [orders EXCEPT ![s] = orders[s]]
    BY <1>3, <2>1 DEF Sent
  <2>3. Asked(orders[s], q, orders[s], l, h, vol, ref)
    BY <1>3 DEF Asked
  <2> QED
    BY <1>2, <2>2, <2>3 DEF SentTo
<1>4. CASE ref # NullRef
  <2> DEFINE b2 == Append(orders[s], NewOrder(l, h, vol))
  <2>1. ref = Len(orders[s]) + 1
    BY <1>4 DEF RefFor
  <2>2. orders' = [orders EXCEPT ![s] = b2]
    BY <1>1, <1>4 DEF Sent, NewOrder, TypeOK
  <2>3. Placed(orders[s], q, b2, l, h, vol)
    BY <1>1, PlaceStep
  <2>4. Asked(orders[s], q, b2, l, h, vol, ref)
    BY <2>1, <2>3 DEF Asked
  <2> HIDE DEF b2
  <2> QED
    BY <1>2, <2>2, <2>4 DEF SentTo
<1> QED
  BY <1>3, <1>4

LEMMA TradedIs ==
  ASSUME IInv, NEW s \in Strategy, NEW l \in Legs, NEW h \in Half, NEW v \in Nat
  PROVE  LET g == leg[s]
             t == Traded(s, l, h, v)
         IN /\ t \in Leg
            /\ t.deal = g[l].deal + v /\ t.vol = g[l].vol
            /\ t.pos = (IF h = "in" THEN g[l].pos + v ELSE g[l].pos - v) % UIntSize
            /\ t.state = IF g[l].deal + v >= g[l].vol THEN Finished[h] ELSE g[l].state
            /\ t.ref = g[l].ref /\ t.sys = g[l].sys
<1> DEFINE o == leg[s][l]
           p2 == (IF h = "in" THEN o.pos + v ELSE o.pos - v) % UIntSize
           st == IF o.deal + v >= o.vol THEN Finished[h] ELSE o.state
           t == Traded(s, l, h, v)
<1>1. leg[s] \in [Legs -> Leg]
  BY Before
<1>2. o \in Leg
  BY <1>1
<1>3. p2 \in 0 .. UIntSize - 1
  <2>1. UIntSize \in Nat /\ UIntSize > 0 /\ o.pos \in Int
    <3>1. UIntSize \in Nat /\ copies[s] \in 1 .. UIntSize - 1
      BY Before, ArbitrageAssumption
    <3>2. o.pos \in Nat
      BY <1>1, LegFields
    <3> QED
      BY <3>1, <3>2
  <2> DEFINE n == IF h = "in" THEN o.pos + v ELSE o.pos - v
  <2>2. n \in Int
    BY <2>1
  <2> HIDE DEF n, o
  <2>3. n % UIntSize \in 0 .. UIntSize - 1
    BY <2>1, <2>2
  <2> QED
    BY <2>3 DEF n
<1>4. st \in TradeState /\ o.deal + v \in Nat
  BY <1>1, LegFields, StatesDiffer
<1>5. t = [o EXCEPT !.deal = o.deal + v, !.pos = p2, !.state = st]
  BY <1>2 DEF Traded, Leg
<1> HIDE DEF o, p2, st, t
<1>6. t \in Leg /\ t.deal = o.deal + v /\ t.vol = o.vol /\ t.pos = p2 /\ t.state = st
      /\ t.ref = o.ref /\ t.sys = o.sys
  BY <1>2, <1>3, <1>4, <1>5 DEF Leg
<1> QED
  BY <1>6 DEF o, p2, st, t

LEMMA AfterTradeIs ==
  ASSUME IInv, NEW s \in Strategy, NEW l \in Legs, NEW h \in Half, NEW v \in Nat,
         NEW g2, g2 = [leg[s] EXCEPT ![l] = Traded(s, l, h, v)]
  PROVE  g2 \in [Legs -> Leg] /\ AfterTrade(leg[s], g2, l, h, v)
<1> DEFINE t == Traded(s, l, h, v)
<1>1. leg[s] \in [Legs -> Leg]
  BY Before
<1>2. /\ t \in Leg /\ t.deal = leg[s][l].deal + v /\ t.vol = leg[s][l].vol
      /\ t.pos = (IF h = "in" THEN leg[s][l].pos + v ELSE leg[s][l].pos - v) % UIntSize
      /\ t.state = IF leg[s][l].deal + v >= leg[s][l].vol THEN Finished[h] ELSE leg[s][l].state
      /\ t.ref = leg[s][l].ref /\ t.sys = leg[s][l].sys
  BY TradedIs
<1> HIDE DEF t
<1>3. g2 = [leg[s] EXCEPT ![l] = t]
  BY DEF t
<1>4. g2 \in [Legs -> Leg] /\ g2[l] = t /\ \A x \in Legs : x # l => g2[x] = leg[s][x]
  BY <1>1, <1>2, <1>3, LegChanged
<1> QED
  BY <1>2, <1>4 DEF AfterTrade

\* A trade that sends no other order.
LEMMA PlainTradeKeeps ==
  ASSUME IInv, NEW s \in Strategy, Handles(s, "trade"), NEW l \in Legs, NEW h \in Half,
         IsOf(s, l, h, Head(reports[s]).ref),
         l = "Minuend" => leg[s]["Subtrahend"].state # Ini[h],
         leg' = [leg EXCEPT ![s] = [leg[s] EXCEPT ![l] = Traded(s, l, h, Head(reports[s]).volume)]],
         UNCHANGED <<orders, odd>>,
         UNCHANGED <<sharedValue, pc, pedding, locked, copies, others, total, modified, meddled>>
  PROVE  IInv'
<1> DEFINE g == leg[s]
           b == orders[s]
           q == reports[s]
           g2 == [leg[s] EXCEPT ![l] = Traded(s, l, h, Head(reports[s]).volume)]
<1>1. /\ q # << >> /\ Head(q).kind = "trade" /\ pc[s] = "idle" /\ sharedValue \in Int
      /\ Head(q) \in Report /\ Tail(q) \in Seq(Report) /\ ReportsInv(b, Tail(q))
  BY HandlesIs
<1>2. Head(q).volume = Bears(Head(q)) /\ Bears(Head(q)) \in Nat
  BY <1>1, ReportFields
<1>3. g2 \in [Legs -> Leg] /\ AfterTrade(g, g2, l, h, Bears(Head(q)))
  BY <1>2, AfterTradeIs
<1>4. leg' = [leg EXCEPT ![s] = g2]
  OBVIOUS
<1>5. /\ pedding[s] \in BOOLEAN /\ locked[s] \in Nat /\ copies[s] \in 1 .. MaxCopies[s]
      /\ copies[s] \in Nat /\ g \in [Legs -> Leg] /\ b \in Seq(Order) /\ q \in Seq(Report)
      /\ odd[s] \in SUBSET Odd /\ ReportsInv(b, q) /\ RefsInv(g, b)
      /\ "clear" \notin odd[s] => StageInv(g, b, q, pedding[s]) /\ MinuendInv(g)
      /\ odd[s] \subseteq {"refused"} =>
           "clear" \notin odd[s] /\ CleanInv(g, b, q, locked[s], copies[s])
  BY Before
<1>6. orders' = [orders EXCEPT ![s] = b] /\ odd' = [odd EXCEPT ![s] = odd[s]]
  <2>1. TypeOK
    BY DEF IInv
  <2>2. orders = [orders EXCEPT ![s] = orders[s]] /\ odd = [odd EXCEPT ![s] = odd[s]]
    BY <2>1, Kept DEF TypeOK
  <2> QED
    BY <2>2
<1> HIDE DEF g2
<1>7. g[l].ref[h] = Head(q).ref
  BY DEF IsOf
<1>8. RefsInv(g2, b)
  <2>1. \A x \in Legs, y \in Half : g2[x].ref[y] = g[x].ref[y] /\ g2[x].sys[y] = g[x].sys[y]
    BY <1>3 DEF AfterTrade
  <2> QED
    BY <1>5, <2>1, RefsSame
<1>9. ASSUME "clear" \notin odd[s]
      PROVE  /\ StageInv(g2, b, Tail(q), pedding[s]) /\ MinuendInv(g2)
             /\ \A k : Claim(g2, k) = Claim(g, k)
  <2>1. StageInv(g, b, q, pedding[s]) /\ MinuendInv(g)
    BY <1>5, <1>9
  <2>2. StageInv(g2, b, Tail(q), pedding[s])
    BY <1>1, <1>3, <1>5, <1>7, <2>1, TradeStage
  <2>3. MinuendInv(g2) /\ \A k : Claim(g2, k) = Claim(g, k)
    BY <1>1, <1>3, <1>5, <1>7, <2>1, TradeMinuend
  <2> QED
    BY <2>2, <2>3
<1>10. ASSUME odd[s] \subseteq {"refused"}
       PROVE  CleanInv(g2, b, Tail(q), locked[s], copies[s])
  BY <1>1, <1>3, <1>5, <1>7, <1>10, TradeClean
<1>11. Fits(s, pc[s], pedding[s], locked[s], copies[s], g2, b, Tail(q), odd[s])
  BY <1>1, <1>3, <1>5, <1>8, <1>9, <1>10 DEF Fits
<1>12. Pays(s, locked[s], g2, odd[s])
  BY <1>1, <1>9 DEF Pays
<1>13. Handled(s, g2, b, odd[s])
  BY <1>4, <1>6 DEF Handled
<1> QED
  BY <1>11, <1>12, <1>13, HandleMove

\* A leg with a new reference.
Referred(t, h, n) == [t EXCEPT !.ref[h] = n, !.sys[h] = NullRef]

ReferredTo(t, t2, h, n) ==
  /\ t2 \in Leg /\ t2.vol = t.vol /\ t2.deal = t.deal /\ t2.pos = t.pos
  /\ t2.ref[h] = n /\ t2.sys[h] = NullRef
  /\ \A y \in Half : y # h => t2.ref[y] = t.ref[y] /\ t2.sys[y] = t.sys[y]

LEMMA ReferredIs ==
  ASSUME NEW t \in Leg, NEW h \in Half, NEW n \in Nat, NEW t2, t2 = Referred(t, h, n)
  PROVE  ReferredTo(t, t2, h, n) /\ t2.state = t.state
<1> DEFINE rf == [t.ref EXCEPT ![h] = n]
           sy == [t.sys EXCEPT ![h] = NullRef]
<1>1. t.ref \in [Half -> Nat] /\ t.sys \in [Half -> Nat] /\ NullRef \in Nat
  BY DEF Leg, NullRef
<1>2. /\ rf \in [Half -> Nat] /\ rf[h] = n /\ \A y \in Half : y # h => rf[y] = t.ref[y]
      /\ sy \in [Half -> Nat] /\ sy[h] = NullRef /\ \A y \in Half : y # h => sy[y] = t.sys[y]
  BY <1>1
<1>3. t2 = [t EXCEPT !.ref = rf, !.sys = sy]
  BY DEF Referred
<1> HIDE DEF rf, sy
<1>4. t2 \in Leg /\ t2.state = t.state /\ t2.vol = t.vol /\ t2.deal = t.deal /\ t2.pos = t.pos
      /\ t2.ref = rf /\ t2.sys = sy
  BY <1>2, <1>3 DEF Leg
<1> QED
  BY <1>2, <1>4 DEF ReferredTo

WithState(t, st) == [t EXCEPT !.state = st]

LEMMA WaitsWith ==
  ASSUME NEW t \in Leg, NEW h \in Half, NEW n \in Nat, NEW t2,
         t2 = WithState(Referred(t, h, n), Waiting[h])
  PROVE  ReferredTo(t, t2, h, n) /\ t2.state = Waiting[h]
<1> DEFINE t1 == Referred(t, h, n)
<1>1. Waiting[h] \in TradeState
  BY StatesDiffer
<1>2. t1 = Referred(t, h, n)
  OBVIOUS
<1> HIDE DEF t1
<1>3. ReferredTo(t, t1, h, n)
  BY <1>2, ReferredIs
<1>4. t2 = [t1 EXCEPT !.state = Waiting[h]]
  BY <1>2 DEF WithState
<1>5. /\ t2 \in Leg /\ t2.state = Waiting[h] /\ t2.vol = t1.vol /\ t2.deal = t1.deal
      /\ t2.pos = t1.pos /\ t2.ref = t1.ref /\ t2.sys = t1.sys
  BY <1>1, <1>3, <1>4 DEF ReferredTo, Leg
<1> QED
  BY <1>3, <1>5 DEF ReferredTo

\* Two legs make a pair.
LEMMA PairIs ==
  ASSUME NEW m \in Leg, NEW t \in Leg, NEW g2, g2 = [Minuend |-> m, Subtrahend |-> t]
  PROVE  g2 \in [Legs -> Leg] /\ g2["Minuend"] = m /\ g2["Subtrahend"] = t
BY DEF Legs

LEMMA RefForIs ==
  ASSUME NEW s \in Strategy, NEW ref \in RefFor(s)
  PROVE  ref \in Nat
BY ArbitrageAssumption DEF RefFor, Refs, NullRef

\* The first trade of the Minuend.
LEMMA FirstTradeKeeps ==
  ASSUME IInv, NEW s \in Strategy, Handles(s, "trade"), NEW h \in Half,
         IsOf(s, "Minuend", h, Head(reports[s]).ref),
         leg[s]["Subtrahend"].state = Ini[h],
         TradeOfMinuend(s, h, Head(reports[s]).volume),
         UNCHANGED <<sharedValue, pc, pedding, locked, copies, others, total, modified, meddled>>
  PROVE  IInv'
<1> DEFINE g == leg[s]
           b == orders[s]
           q == reports[s]
           p == Tail(q)
           sub == g["Subtrahend"]
           m == Traded(s, "Minuend", h, Head(reports[s]).volume)
           g1 == [g EXCEPT !["Minuend"] = m]
<1>0. "Minuend" \in Legs /\ "Subtrahend" \in Legs /\ "Minuend" # "Subtrahend"
      /\ \A l \in Legs : l # "Minuend" => l = "Subtrahend"
  BY StatesDiffer
<1>1. /\ q # << >> /\ Head(q).kind = "trade" /\ pc[s] = "idle" /\ sharedValue \in Int
      /\ Head(q) \in Report /\ p \in Seq(Report) /\ ReportsInv(b, p)
  BY HandlesIs
<1>2. Head(q).volume = Bears(Head(q)) /\ Bears(Head(q)) \in Nat
  BY <1>1, ReportFields
<1>3. g1 \in [Legs -> Leg] /\ AfterTrade(g, g1, "Minuend", h, Bears(Head(q)))
  BY <1>0, <1>2, AfterTradeIs
<1>5. /\ pedding[s] \in BOOLEAN /\ locked[s] \in Nat /\ copies[s] \in 1 .. MaxCopies[s]
      /\ copies[s] \in Nat /\ g \in [Legs -> Leg] /\ b \in Seq(Order) /\ q \in Seq(Report)
      /\ odd[s] \in SUBSET Odd /\ ReportsInv(b, q) /\ RefsInv(g, b)
      /\ "clear" \notin odd[s] => StageInv(g, b, q, pedding[s]) /\ MinuendInv(g)
      /\ odd[s] \subseteq {"refused"} =>
           "clear" \notin odd[s] /\ CleanInv(g, b, q, locked[s], copies[s])
  BY Before
<1>6. sub \in Leg /\ sub.vol \in Nat \ {0} /\ m \in Leg
  <2>1. sub \in Leg
    BY <1>0, <1>5
  <2>2. sub.vol \in Nat \ {0}
    BY <2>1 DEF Leg
  <2>3. m \in Leg
    BY <1>0, <1>2, TradedIs
  <2> QED
    BY <2>1, <2>2, <2>3
<1>7. PICK ref \in RefFor(s) :
        /\ leg' = [leg EXCEPT ![s] =
             [Minuend |-> m, Subtrahend |-> WithState(Referred(sub, h, ref), Waiting[h])]]
        /\ Sent(s, ref, "Subtrahend", h, sub.vol, {})
  BY DEF TradeOfMinuend, WithState, Referred
<1>7a. PICK b2 : SentTo(s, p, b2, "Subtrahend", h, sub.vol, ref, {})
  <2> HIDE DEF p, sub
  <2> QED
    BY <1>0, <1>1, <1>6, <1>7, SentIs
<1>8. /\ orders' = [orders EXCEPT ![s] = b2]
      /\ Asked(b, p, b2, "Subtrahend", h, sub.vol, ref)
      /\ odd' = [odd EXCEPT ![s] = odd[s] \cup {} \cup (IF ref = NullRef THEN {"refused"} ELSE {})]
  BY <1>7a DEF SentTo
<1> DEFINE o2 == odd[s] \cup {} \cup (IF ref = NullRef THEN {"refused"} ELSE {})
           t2 == WithState(Referred(sub, h, ref), Waiting[h])
           g2 == [Minuend |-> m, Subtrahend |-> t2]
<1>9. /\ t2 \in Leg /\ t2.state = Waiting[h] /\ t2.vol = sub.vol /\ t2.deal = sub.deal /\ t2.pos = sub.pos
      /\ t2.ref[h] = ref /\ t2.sys[h] = NullRef
      /\ \A y \in Half : y # h => t2.ref[y] = sub.ref[y] /\ t2.sys[y] = sub.sys[y]
  <2>1. ref \in Nat
    BY RefForIs
  <2>2. t2 = WithState(Referred(sub, h, ref), Waiting[h])
    OBVIOUS
  <2> HIDE DEF t2, sub
  <2>3. ReferredTo(sub, t2, h, ref) /\ t2.state = Waiting[h]
    BY <1>6, <2>1, <2>2, WaitsWith
  <2> QED
    BY <2>3 DEF ReferredTo
<1> HIDE DEF t2
<1>10. g2 \in [Legs -> Leg] /\ g2["Minuend"] = m /\ g2["Subtrahend"] = t2
  BY <1>6, <1>9, PairIs
<1>11. leg' = [leg EXCEPT ![s] = g2]
  BY <1>7 DEF t2
<1>12. g1["Minuend"] = m /\ g1["Subtrahend"] = sub
  BY <1>0, <1>5
<1> HIDE DEF g1, g2, m, o2
<1>13. Followed(g1, g2, h, ref)
  BY <1>0, <1>9, <1>10, <1>12 DEF Followed, NewRef
<1>14. RefsInv(g1, b)
  <2>1. \A x \in Legs, y \in Half : g1[x].ref[y] = g[x].ref[y] /\ g1[x].sys[y] = g[x].sys[y]
    BY <1>0, <1>3 DEF AfterTrade
  <2> QED
    BY <1>5, <2>1, RefsSame
<1>15. Grown(b, p, b2, "Subtrahend", h, sub.vol, ref)
  BY <1>1, <1>5, <1>6, <1>8, AskedIs
<1>16. b2 \in Seq(Order) /\ ReportsInv(b2, p)
  BY <1>15 DEF Grown
<1>17. RefsInv(g2, b2)
  <2>1. NewRef(g1, g2, "Subtrahend", h, ref)
    BY <1>13 DEF Followed
  <2> QED
    BY <1>1, <1>5, <1>6, <1>8, <1>14, <2>1, RefsAsked
<1>18. g["Minuend"].ref[h] = Head(q).ref /\ g1["Subtrahend"].state = Ini[h]
       /\ g1["Subtrahend"].vol = sub.vol
  BY <1>12 DEF IsOf
<1>19. ASSUME "clear" \notin odd[s]
       PROVE  /\ StageInv(g2, b2, p, pedding[s]) /\ MinuendInv(g2)
              /\ \A k : Claim(g2, k) = Claim(g, k)
              /\ \A x \in Legs, y \in Half : HalfInv(g1, b, p, x, y)
              /\ Works(g1, "Minuend", h)
  <2>1. StageInv(g, b, q, pedding[s]) /\ MinuendInv(g)
    BY <1>5, <1>19
  <2>2. /\ \A x \in Legs, y \in Half : HalfInv(g1, b, p, x, y)
        /\ Works(g1, "Minuend", h) /\ g1["Minuend"].deal > 0
    BY <1>0, <1>1, <1>3, <1>5, <1>18, <2>1, TradeHalves
  <2>3. /\ MinuendInv(g1) /\ \A k : Claim(g1, k) = Claim(g, k)
        /\ \A x \in Legs : g1[x].vol \in 1 .. UIntSize - 1
    BY <1>0, <1>1, <1>3, <1>5, <1>18, <2>1, TradeMinuend
  <2>4. pedding[s] = TRUE
    <3>1. Works(g, "Minuend", h)
      <4>1. HalfInv(g, b, q, "Minuend", h)
        BY <1>0, <2>1 DEF StageInv
      <4> QED
        BY <1>0, <1>1, <1>5, <1>18, <4>1, HalfOfReport
    <3>2. ~Both(g, "T_INI")
      BY <1>0, <3>1, StatesDiffer DEF Both, Works
    <3> QED
      BY <1>5, <2>1, <3>2 DEF StageInv
  <2>5. StageInv(g2, b2, p, TRUE) /\ MinuendInv(g2) /\ \A k : Claim(g2, k) = Claim(g1, k)
    <3>1. Asked(b, p, b2, "Subtrahend", h, g1["Subtrahend"].vol, ref)
      BY <1>8, <1>18
    <3> QED
      BY <1>1, <1>3, <1>5, <1>10, <1>13, <1>14, <1>18, <2>2, <2>3, <3>1, FollowStage
  <2> QED
    BY <2>2, <2>3, <2>4, <2>5
<1>20. ASSUME odd[s] \subseteq {"refused"}
       PROVE  CleanInv(g2, b2, p, locked[s], copies[s])
  <2>1. "clear" \notin odd[s] /\ CleanInv(g, b, q, locked[s], copies[s])
        /\ StageInv(g, b, q, pedding[s])
    BY <1>5, <1>20
  <2>2. CleanInv(g1, b, p, locked[s], copies[s])
    BY <1>0, <1>1, <1>3, <1>5, <1>18, <2>1, TradeClean
  <2>3. Asked(b, p, b2, "Subtrahend", h, g1["Subtrahend"].vol, ref)
    BY <1>8, <1>18
  <2>4. (\A x \in Legs, y \in Half : HalfInv(g1, b, p, x, y)) /\ Works(g1, "Minuend", h)
    BY <1>19, <2>1
  <2> QED
    BY <1>1, <1>3, <1>5, <1>10, <1>13, <1>14, <1>18, <2>2, <2>3, <2>4, FollowClean
<1>21. o2 \in SUBSET Odd /\ odd[s] \subseteq o2
  BY <1>5 DEF o2, Odd
<1>22. Fits(s, pc[s], pedding[s], locked[s], copies[s], g2, b2, p, o2)
  BY <1>1, <1>5, <1>10, <1>16, <1>17, <1>19, <1>20, <1>21 DEF Fits
<1>23. Pays(s, locked[s], g2, o2)
  BY <1>1, <1>19, <1>21 DEF Pays
<1>24. Handled(s, g2, b2, o2)
  BY <1>8, <1>11 DEF Handled, o2
<1> QED
  BY <1>22, <1>23, <1>24, HandleMove

LEMMA WithStateIs ==
  ASSUME NEW t \in Leg, NEW st \in TradeState, NEW t2, t2 = WithState(t, st)
  PROVE  /\ t2 \in Leg /\ t2.state = st /\ t2.vol = t.vol /\ t2.deal = t.deal /\ t2.pos = t.pos
         /\ t2.ref = t.ref /\ t2.sys = t.sys
BY DEF WithState, Leg

\* A report that changes no more than a sysID.
LEMMA PassKeeps ==
  ASSUME IInv, NEW s \in Strategy, NEW kind, Handles(s, kind),
         NEW g2 \in [Legs -> Leg], Alike(leg[s], g2),
         \A l \in Legs, h \in Half : g2[l].ref[h] = leg[s][l].ref[h],
         \A l \in Legs, h \in Half : g2[l].sys[h] \in {leg[s][l].sys[h], leg[s][l].ref[h]},
         kind = "trade" => Unknown(s, Head(reports[s]).ref),
         Handled(s, g2, orders[s], odd[s]), UNCHANGED sharedValue
  PROVE  IInv'
<1> DEFINE g == leg[s]
           b == orders[s]
           q == reports[s]
           p == Tail(q)
<1>1. /\ q # << >> /\ Head(q).kind = kind /\ pc[s] = "idle" /\ sharedValue \in Int
      /\ p \in Seq(Report) /\ ReportsInv(b, p)
  BY HandlesIs
<1>2. /\ pedding[s] \in BOOLEAN /\ locked[s] \in Nat /\ copies[s] \in 1 .. MaxCopies[s]
      /\ copies[s] \in Nat /\ g \in [Legs -> Leg] /\ b \in Seq(Order) /\ q \in Seq(Report)
      /\ odd[s] \in SUBSET Odd /\ ReportsInv(b, q) /\ RefsInv(g, b)
      /\ "clear" \notin odd[s] => StageInv(g, b, q, pedding[s]) /\ MinuendInv(g)
      /\ odd[s] \subseteq {"refused"} =>
           "clear" \notin odd[s] /\ CleanInv(g, b, q, locked[s], copies[s])
  BY Before
<1>3. RefsInv(g2, b)
  <2>1. \A l \in Legs, h \in Half : /\ g2[l].ref[h] = g[l].ref[h]
                                    /\ g2[l].sys[h] \in {NullRef, g[l].ref[h], g[l].sys[h]}
    OBVIOUS
  <2> QED
    BY <1>2, <2>1, RefsSame
<1>4. \A l \in Legs, h \in Half : Borne(Head(q), g[l].ref[h], {"trade"}) = 0
  BY <1>1 DEF Borne, Unknown, IsOf
<1>5. ASSUME "clear" \notin odd[s]
      PROVE  /\ StageInv(g2, b, p, pedding[s]) /\ MinuendInv(g2)
             /\ \A k : Claim(g2, k) = Claim(g, k)
  BY <1>1, <1>2, <1>5, PassStage
<1>6. ASSUME odd[s] \subseteq {"refused"}
      PROVE  CleanInv(g2, b, p, locked[s], copies[s])
  BY <1>1, <1>2, <1>4, <1>6, PassClean
<1>7. Fits(s, pc[s], pedding[s], locked[s], copies[s], g2, b, p, odd[s])
  BY <1>1, <1>2, <1>3, <1>5, <1>6 DEF Fits
<1>8. Pays(s, locked[s], g2, odd[s])
  BY <1>1, <1>5 DEF Pays
<1> QED
  BY <1>7, <1>8, HandleMove

LEMMA AbandonKeeps ==
  ASSUME IInv, NEW s \in Strategy, Handles(s, "canceled"), NEW h \in Half,
         IsOf(s, "Minuend", h, Head(reports[s]).ref), NothingTraded(s, Head(reports[s])),
         Abandon(s, h), UNCHANGED <<orders, odd>>,
         UNCHANGED <<pc, pedding, locked, copies, others, total, modified, meddled>>
  PROVE  IInv'
<1> DEFINE g == leg[s]
           b == orders[s]
           q == reports[s]
           p == Tail(q)
           g2 == [l \in Legs |-> WithState(leg[s][l], Ini[h])]
<1>0. "Minuend" \in Legs /\ "Subtrahend" \in Legs
  BY StatesDiffer
<1>1. /\ q # << >> /\ Head(q).kind = "canceled" /\ pc[s] = "idle" /\ sharedValue \in Int
      /\ sharedValue # NoValue /\ p \in Seq(Report) /\ ReportsInv(b, p)
  BY HandlesIs
<1>2. /\ pedding[s] \in BOOLEAN /\ locked[s] \in Nat /\ copies[s] \in 1 .. MaxCopies[s]
      /\ copies[s] \in Nat /\ g \in [Legs -> Leg] /\ b \in Seq(Order) /\ q \in Seq(Report)
      /\ odd[s] \in SUBSET Odd /\ ReportsInv(b, q) /\ RefsInv(g, b)
      /\ "clear" \notin odd[s] => StageInv(g, b, q, pedding[s]) /\ MinuendInv(g)
      /\ odd[s] \subseteq {"refused"} =>
           "clear" \notin odd[s] /\ CleanInv(g, b, q, locked[s], copies[s])
  BY Before
<1>3. TypeOK
  BY DEF IInv
<1>4. ASSUME NEW l \in Legs
      PROVE  /\ g2[l] \in Leg /\ g2[l].state = Ini[h] /\ g2[l].pos = g[l].pos
             /\ g2[l].vol = g[l].vol /\ g2[l].deal = g[l].deal
             /\ g2[l].ref = g[l].ref /\ g2[l].sys = g[l].sys
  <2>1. g[l] \in Leg /\ Ini[h] \in TradeState /\ g2[l] = WithState(g[l], Ini[h])
    BY <1>2, StatesDiffer
  <2> HIDE DEF g2, g
  <2> QED
    BY <2>1, WithStateIs
<1>5. g2 \in [Legs -> Leg] /\ Abandoned(g, g2, h)
  <2> HIDE DEF g
  <2>1. \A l \in Legs : WithState(leg[s][l], Ini[h]) \in Leg
    BY <1>4
  <2>2. g2 \in [Legs -> Leg]
    BY <2>1
  <2> HIDE DEF g2
  <2> QED
    BY <1>4, <2>2 DEF Abandoned
<1>6. leg' = [leg EXCEPT ![s] = g2]
  BY <1>3 DEF Abandon, WithState, TypeOK
<1>7. Handled(s, g2, b, odd[s])
  <2>1. orders = [orders EXCEPT ![s] = orders[s]] /\ odd = [odd EXCEPT ![s] = odd[s]]
    BY <1>3, Kept DEF TypeOK
  <2> QED
    BY <1>6, <2>1 DEF Handled
<1>8. sharedValue' = IF h = "in" THEN sharedValue + locked[s] ELSE sharedValue
  BY <1>1 DEF Abandon, IncreaseSharedValue
<1>9. g["Minuend"].ref[h] = Head(q).ref /\ Head(q).traded = 0 /\ g["Minuend"].deal = 0
  BY DEF IsOf, NothingTraded
<1> HIDE DEF g2
<1>10. RefsInv(g2, b)
  <2>1. \A x \in Legs, y \in Half : g2[x].ref[y] = g[x].ref[y] /\ g2[x].sys[y] = g[x].sys[y]
    BY <1>5 DEF Abandoned
  <2> QED
    BY <1>2, <2>1, RefsSame
<1>11. ASSUME "clear" \notin odd[s]
       PROVE  /\ StageInv(g2, b, p, pedding[s]) /\ MinuendInv(g2)
              /\ Claim(g, locked[s]) = locked[s]
              /\ Claim(g2, locked[s]) = IF h = "in" THEN 0 ELSE locked[s]
              /\ Works(g, "Minuend", h) /\ g["Subtrahend"].state = Ini[h]
  <2>1. StageInv(g, b, q, pedding[s]) /\ MinuendInv(g)
    BY <1>2, <1>11
  <2>2. /\ StageInv(g2, b, p, TRUE) /\ MinuendInv(g2) /\ Returns(g, g2, h)
        /\ Works(g, "Minuend", h) /\ g["Subtrahend"].state = Ini[h]
    BY <1>1, <1>2, <1>5, <1>9, <2>1, AbandonStage
  <2>3. ~Both(g, "T_INI")
    BY <1>0, <2>2, StatesDiffer DEF Both, Works
  <2>4. pedding[s] = TRUE
    BY <1>2, <2>1, <2>3 DEF StageInv
  <2> QED
    BY <2>2, <2>4 DEF Returns
<1>12. ASSUME odd[s] \subseteq {"refused"}
       PROVE  CleanInv(g2, b, p, locked[s], copies[s])
  <2>1. "clear" \notin odd[s] /\ CleanInv(g, b, q, locked[s], copies[s])
    BY <1>2, <1>12
  <2>2. Works(g, "Minuend", h) /\ g["Subtrahend"].state = Ini[h]
    BY <1>11, <2>1
  <2> QED
    BY <1>1, <1>2, <1>5, <2>1, <2>2, AbandonClean
<1>13. Fits(s, pc[s], pedding[s], locked[s], copies[s], g2, b, p, odd[s])
  BY <1>1, <1>2, <1>5, <1>10, <1>11, <1>12 DEF Fits
<1>14. Pays(s, locked[s], g2, odd[s])
  BY <1>1, <1>2, <1>8, <1>11 DEF Pays
<1> QED
  BY <1>7, <1>13, <1>14, HandleMove

LEMMA AgainKeeps ==
  ASSUME IInv, NEW s \in Strategy, Handles(s, "canceled"), NEW l \in Legs, NEW h \in Half,
         IsOf(s, l, h, Head(reports[s]).ref),
         PlaceAgain(s, l, h, Head(reports[s]).remain),
         UNCHANGED sharedValue,
         UNCHANGED <<pc, pedding, locked, copies, others, total, modified, meddled>>
  PROVE  IInv'
<1> DEFINE g == leg[s]
           b == orders[s]
           q == reports[s]
           p == Tail(q)
           rest == Bears(Head(q))
<1>1. /\ q # << >> /\ Head(q).kind = "canceled" /\ pc[s] = "idle" /\ sharedValue \in Int
      /\ p \in Seq(Report) /\ ReportsInv(b, p) /\ Head(q) \in Report /\ Agrees(b, Head(q))
  BY HandlesIs
<1>2. /\ pedding[s] \in BOOLEAN /\ locked[s] \in Nat /\ copies[s] \in 1 .. MaxCopies[s]
      /\ copies[s] \in Nat /\ g \in [Legs -> Leg] /\ b \in Seq(Order) /\ q \in Seq(Report)
      /\ odd[s] \in SUBSET Odd /\ ReportsInv(b, q) /\ RefsInv(g, b)
      /\ "clear" \notin odd[s] => StageInv(g, b, q, pedding[s]) /\ MinuendInv(g)
      /\ odd[s] \subseteq {"refused"} =>
           "clear" \notin odd[s] /\ CleanInv(g, b, q, locked[s], copies[s])
  BY Before
<1>3. TypeOK
  BY DEF IInv
<1>4. rest = Head(q).remain /\ rest \in Nat \ {0}
  <2>1. rest = Head(q).remain /\ rest \in Nat
    BY <1>1, ReportFields
  <2>2. rest > 0
    BY <1>1 DEF Agrees
  <2> QED
    BY <2>1, <2>2
<1>5. PICK ref \in RefFor(s) :
        /\ leg' = [leg EXCEPT ![s][l] = Referred(leg[s][l], h, ref)]
        /\ Sent(s, ref, l, h, Head(q).remain, {})
  BY <1>2, <1>3 DEF PlaceAgain, Referred, TypeOK
<1> DEFINE t2 == Referred(leg[s][l], h, ref)
           g2 == [leg[s] EXCEPT ![l] = t2]
           o2 == odd[s] \cup {} \cup (IF ref = NullRef THEN {"refused"} ELSE {})
<1>6. leg' = [leg EXCEPT ![s] = g2]
  BY <1>2, <1>3, <1>5 DEF TypeOK
<1>7. PICK b2 : SentTo(s, p, b2, l, h, rest, ref, {})
  <2>1. Sent(s, ref, l, h, rest, {})
    BY <1>4, <1>5
  <2> HIDE DEF p, rest
  <2> QED
    BY <1>1, <1>4, <2>1, SentIs
<1>8. /\ orders' = [orders EXCEPT ![s] = b2] /\ Asked(b, p, b2, l, h, rest, ref)
      /\ odd' = [odd EXCEPT ![s] = o2]
  BY <1>7 DEF SentTo
<1>9. ReferredTo(g[l], t2, h, ref) /\ t2.state = g[l].state
  <2>1. ref \in Nat /\ g[l] \in Leg /\ t2 = Referred(g[l], h, ref)
    BY <1>2, RefForIs
  <2> HIDE DEF t2, g
  <2> QED
    BY <2>1, ReferredIs
<1>10. g2 \in [Legs -> Leg] /\ g2[l] = t2 /\ \A x \in Legs : x # l => g2[x] = g[x]
  <2>1. t2 \in Leg
    BY <1>9 DEF ReferredTo
  <2> HIDE DEF t2
  <2> QED
    BY <1>2, <2>1, LegChanged
<1> HIDE DEF t2, g2, o2
<1>11. Alike(g, g2) /\ NewRef(g, g2, l, h, ref)
  BY <1>9, <1>10 DEF Alike, NewRef, ReferredTo
<1>12. b2 \in Seq(Order) /\ ReportsInv(b2, p)
  <2>1. Grown(b, p, b2, l, h, rest, ref)
    BY <1>1, <1>2, <1>4, <1>8, AskedIs
  <2> QED
    BY <2>1 DEF Grown
<1>13. RefsInv(g2, b2)
  BY <1>1, <1>2, <1>4, <1>8, <1>11, RefsAsked
<1>14. g[l].ref[h] = Head(q).ref
  BY DEF IsOf
<1>15. ASSUME "clear" \notin odd[s]
       PROVE  /\ StageInv(g2, b2, p, pedding[s]) /\ MinuendInv(g2)
              /\ \A k : Claim(g2, k) = Claim(g, k)
  <2>1. StageInv(g, b, q, pedding[s]) /\ MinuendInv(g)
    BY <1>2, <1>15
  <2>2. StageInv(g2, b2, p, pedding[s]) /\ MinuendInv(g2) /\ ClaimSame(g, g2)
    BY <1>1, <1>2, <1>8, <1>10, <1>11, <1>14, <2>1, AgainStage
  <2> QED
    BY <2>2 DEF ClaimSame
<1>16. ASSUME odd[s] \subseteq {"refused"}
       PROVE  CleanInv(g2, b2, p, locked[s], copies[s])
  BY <1>1, <1>2, <1>8, <1>10, <1>11, <1>14, <1>16, AgainClean
<1>17. o2 \in SUBSET Odd /\ odd[s] \subseteq o2
  BY <1>2 DEF o2, Odd
<1>18. Fits(s, pc[s], pedding[s], locked[s], copies[s], g2, b2, p, o2)
  BY <1>1, <1>2, <1>10, <1>12, <1>13, <1>15, <1>16, <1>17 DEF Fits
<1>19. Pays(s, locked[s], g2, o2)
  BY <1>1, <1>15, <1>17 DEF Pays
<1>20. Handled(s, g2, b2, o2)
  BY <1>6, <1>8 DEF Handled
<1> QED
  BY <1>18, <1>19, <1>20, HandleMove

\* A report of an order that no leg waits for.
LEMMA UnknownKeeps ==
  ASSUME IInv, NEW s \in Strategy, NEW kind, Handles(s, kind),
         Unknown(s, Head(reports[s]).ref), UNCHANGED <<leg, orders, odd, sharedValue>>,
         UNCHANGED <<pc, pedding, locked, copies, others, total, modified, meddled>>
  PROVE  IInv'
<1>1. leg[s] \in [Legs -> Leg] /\ TypeOK
  BY Before DEF IInv
<1>2. /\ leg = [leg EXCEPT ![s] = leg[s]] /\ orders = [orders EXCEPT ![s] = orders[s]]
      /\ odd = [odd EXCEPT ![s] = odd[s]]
  BY <1>1, Kept DEF TypeOK
<1>3. Handled(s, leg[s], orders[s], odd[s])
  BY <1>2 DEF Handled
<1>4. Alike(leg[s], leg[s])
  BY DEF Alike
<1> QED
  BY <1>1, <1>3, <1>4, PassKeeps

LEMMA OnTradeKeeps ==
  ASSUME IInv, NEW s \in Strategy, OnTrade(s)
  PROVE  IInv'
<1> DEFINE ref == Head(reports[s]).ref
           volume == Head(reports[s]).volume
<1>0. TypeOK /\ leg[s] \in [Legs -> Leg] /\ Handles(s, "trade")
      /\ UNCHANGED <<sharedValue, pc, pedding, locked, copies, others, total, modified, meddled>>
  BY Before DEF IInv, OnTrade
<1>1. \/ \E h \in Half : IsOf(s, "Minuend", h, ref) /\ TradeOfMinuend(s, h, volume)
      \/ \E h \in Half : IsOf(s, "Subtrahend", h, ref) /\ TradeOfSubtrahend(s, h, volume)
      \/ Unknown(s, ref) /\ UNCHANGED <<leg, orders, odd>>
  BY DEF OnTrade
<1>2. ASSUME NEW h \in Half, IsOf(s, "Minuend", h, ref), TradeOfMinuend(s, h, volume)
      PROVE  IInv'
  <2>1. CASE leg[s]["Subtrahend"].state = Ini[h]
    BY <1>0, <1>2, <2>1, FirstTradeKeeps
  <2>2. CASE leg[s]["Subtrahend"].state # Ini[h]
    <3>1. /\ leg' = [leg EXCEPT ![s]["Minuend"] = Traded(s, "Minuend", h, volume)]
          /\ UNCHANGED <<orders, odd>>
      BY <1>2, <2>2 DEF TradeOfMinuend
    <3>2. leg' = [leg EXCEPT ![s] = [leg[s] EXCEPT !["Minuend"] = Traded(s, "Minuend", h, volume)]]
      BY <1>0, <3>1 DEF TypeOK
    <3>3. "Minuend" \in Legs
      BY StatesDiffer
    <3> QED
      BY <1>0, <1>2, <2>2, <3>1, <3>2, <3>3, PlainTradeKeeps
  <2> QED
    BY <2>1, <2>2
<1>3. ASSUME NEW h \in Half, IsOf(s, "Subtrahend", h, ref), TradeOfSubtrahend(s, h, volume)
      PROVE  IInv'
  <2>1. /\ leg' = [leg EXCEPT ![s]["Subtrahend"] = Traded(s, "Subtrahend", h, volume)]
        /\ UNCHANGED <<orders, odd>>
    BY <1>3 DEF TradeOfSubtrahend
  <2>2. leg' = [leg EXCEPT ![s] = [leg[s] EXCEPT !["Subtrahend"] = Traded(s, "Subtrahend", h, volume)]]
    BY <1>0, <2>1 DEF TypeOK
  <2>3. "Subtrahend" \in Legs /\ "Subtrahend" # "Minuend"
    BY StatesDiffer
  <2> QED
    BY <1>0, <1>3, <2>1, <2>2, <2>3, PlainTradeKeeps
<1>4. ASSUME Unknown(s, ref), UNCHANGED <<leg, orders, odd>> PROVE IInv'
  <2>1. UNCHANGED <<leg, orders, odd, sharedValue>>
        /\ UNCHANGED <<pc, pedding, locked, copies, others, total, modified, meddled>>
    BY <1>0, <1>4
  <2> QED
    BY <1>0, <1>4, <2>1, UnknownKeeps
<1> QED
  BY <1>1, <1>2, <1>3, <1>4

LEMMA OnOrderQueueingKeeps ==
  ASSUME IInv, NEW s \in Strategy, OnOrderQueueing(s)
  PROVE  IInv'
<1> DEFINE ref == Head(reports[s]).ref
           sys(l) == [h \in Half |-> IF IsOf(s, l, h, ref) THEN ref ELSE leg[s][l].sys[h]]
           g2 == Named(s, ref)
<1>1. TypeOK /\ leg[s] \in [Legs -> Leg] /\ Handles(s, "queueing")
      /\ UNCHANGED <<sharedValue, pc, pedding, locked, copies, orders, others, total, odd,
                     modified, meddled>>
  BY Before DEF IInv, OnOrderQueueing
<1>2. leg' = [leg EXCEPT ![s] = g2]
  BY DEF OnOrderQueueing
<1>2a. g2 = [l \in Legs |-> [leg[s][l] EXCEPT !.sys = sys(l)]]
  BY DEF Named
<1>3. ref \in Nat
  BY <1>1, HandlesIs, ReportFields
<1>4. ASSUME NEW l \in Legs
      PROVE  /\ sys(l) \in [Half -> Nat]
             /\ \A h \in Half : sys(l)[h] \in {leg[s][l].sys[h], leg[s][l].ref[h]}
  <2>1. \A h \in Half : leg[s][l].sys[h] \in Nat
    BY <1>1, LegFields
  <2> QED
    BY <1>3, <2>1 DEF IsOf
<1> HIDE DEF sys
<1>5. ASSUME NEW l \in Legs
      PROVE  /\ g2[l] \in Leg /\ g2[l].sys = sys(l) /\ g2[l].ref = leg[s][l].ref
             /\ g2[l].state = leg[s][l].state /\ g2[l].vol = leg[s][l].vol
             /\ g2[l].deal = leg[s][l].deal /\ g2[l].pos = leg[s][l].pos
  <2>1. leg[s][l] \in Leg /\ g2[l] = [leg[s][l] EXCEPT !.sys = sys(l)]
    BY <1>1, <1>2a
  <2> QED
    BY <1>4, <2>1 DEF Leg
<1>6. g2 \in [Legs -> Leg]
  <2>1. \A l \in Legs : [leg[s][l] EXCEPT !.sys = sys(l)] \in Leg
    BY <1>5, <1>2a
  <2> QED
    BY <2>1, <1>2a
<1> HIDE DEF g2
<1>7. Alike(leg[s], g2)
  BY <1>5 DEF Alike
<1>8. \A l \in Legs, h \in Half : /\ g2[l].ref[h] = leg[s][l].ref[h]
                                  /\ g2[l].sys[h] \in {leg[s][l].sys[h], leg[s][l].ref[h]}
  BY <1>4, <1>5
<1>9. Handled(s, g2, orders[s], odd[s])
  <2>1. orders = [orders EXCEPT ![s] = orders[s]] /\ odd = [odd EXCEPT ![s] = odd[s]]
    BY <1>1, Kept DEF TypeOK
  <2> QED
    BY <1>1, <1>2, <2>1 DEF Handled
<1> QED
  BY <1>1, <1>6, <1>7, <1>8, <1>9, PassKeeps

LEMMA OnOrderCanceledKeeps ==
  ASSUME IInv, NEW s \in Strategy, OnOrderCanceled(s)
  PROVE  IInv'
<1> DEFINE report == Head(reports[s])
<1>1. Handles(s, "canceled")
      /\ UNCHANGED <<pc, pedding, locked, copies, others, total, modified, meddled>>
  BY DEF OnOrderCanceled
<1>2. \/ \E h \in Half :
           /\ IsOf(s, "Minuend", h, report.ref) /\ NothingTraded(s, report)
           /\ Abandon(s, h)
           /\ UNCHANGED <<orders, odd>>
      \/ \E l \in Legs, h \in Half :
           /\ IsOf(s, l, h, report.ref)
           /\ PlaceAgain(s, l, h, report.remain)
           /\ UNCHANGED sharedValue
      \/ Unknown(s, report.ref) /\ UNCHANGED <<leg, orders, odd, sharedValue>>
  BY DEF OnOrderCanceled
<1>3. ASSUME NEW h \in Half, IsOf(s, "Minuend", h, report.ref), NothingTraded(s, report),
             Abandon(s, h), UNCHANGED <<orders, odd>>
      PROVE  IInv'
  BY <1>1, <1>3, AbandonKeeps
<1>4. ASSUME NEW l \in Legs, NEW h \in Half, IsOf(s, l, h, report.ref),
             PlaceAgain(s, l, h, report.remain), UNCHANGED sharedValue
      PROVE  IInv'
  BY <1>1, <1>4, AgainKeeps
<1>5. ASSUME Unknown(s, report.ref), UNCHANGED <<leg, orders, odd, sharedValue>>
      PROVE  IInv'
  BY <1>1, <1>5, UnknownKeeps
<1> QED
  BY <1>2, <1>3, <1>4, <1>5

-----------------------------------------------------------------------------
(* The ticks keep the invariant                                            *)

LEMMA OnInitKeeps ==
  ASSUME IInv, NEW s \in Strategy, OnInit(s)
  PROVE  IInv'
<1>1. /\ locked[s] \in Nat /\ copies[s] \in 1 .. MaxCopies[s] /\ pedding[s] \in BOOLEAN
      /\ leg[s] \in [Legs -> Leg] /\ orders[s] \in Seq(Order) /\ reports[s] \in Seq(Report)
      /\ odd[s] \in SUBSET Odd
      /\ ReportsInv(orders[s], reports[s]) /\ RefsInv(leg[s], orders[s])
      /\ "clear" \notin odd[s] =>
           StageInv(leg[s], orders[s], reports[s], pedding[s]) /\ MinuendInv(leg[s])
      /\ odd[s] \subseteq {"refused"} =>
           CleanInv(leg[s], orders[s], reports[s], locked[s], copies[s])
  BY Before
<1>2. TypeOK /\ sharedValue # NoValue /\ sharedValue \in Int
  BY DEF IInv, TypeOK, OnInit, GetSharedValue
<1>3. Fits(s, "idle", pedding[s], locked[s], copies[s], leg[s], orders[s], reports[s], odd[s])
  BY <1>1 DEF Fits
<1>4. Moves(s, "idle", pedding[s], locked[s], copies[s], leg[s], orders[s], reports[s], odd[s])
  <2>1. /\ pedding = [pedding EXCEPT ![s] = pedding[s]]
        /\ locked = [locked EXCEPT ![s] = locked[s]] /\ copies = [copies EXCEPT ![s] = copies[s]]
        /\ leg = [leg EXCEPT ![s] = leg[s]] /\ orders = [orders EXCEPT ![s] = orders[s]]
        /\ reports = [reports EXCEPT ![s] = reports[s]] /\ odd = [odd EXCEPT ![s] = odd[s]]
    BY <1>2, Kept DEF TypeOK
  <2> QED
    BY <2>1 DEF Moves, OnInit
<1>5. Pays(s, locked[s], leg[s], odd[s]) /\ Counts
  BY <1>2 DEF Pays, Counts, OnInit, TypeOK
<1> QED
  BY <1>2, <1>3, <1>4, <1>5, MovesKeep

\* The resets, but for the shared value.
Based(s, pend2, g2, b2) ==
  /\ pc' = [pc EXCEPT ![s] = "tick"] /\ pedding' = [pedding EXCEPT ![s] = pend2]
  /\ leg' = [leg EXCEPT ![s] = g2] /\ orders' = [orders EXCEPT ![s] = b2]
  /\ UNCHANGED <<locked, copies, reports, others, total, odd, modified, meddled>>

LEMMA BaseMove ==
  ASSUME IInv, NEW s \in Strategy, pc[s] = "idle", NEW pend2 \in BOOLEAN,
         NEW g2 \in [Legs -> Leg], NEW b2 \in Seq(Order), Based(s, pend2, g2, b2),
         ReportsInv(b2, reports[s]), RefsInv(g2, b2), sharedValue' \in Int,
         "clear" \notin odd[s] =>
           /\ StageInv(g2, b2, reports[s], pend2) /\ MinuendInv(g2)
           /\ sharedValue' + Claim(g2, locked[s]) = sharedValue + Claim(leg[s], locked[s]),
         odd[s] \subseteq {"refused"} => CleanInv(g2, b2, reports[s], locked[s], copies[s])
  PROVE  IInv'
<1>1. /\ locked[s] \in Nat /\ copies[s] \in 1 .. MaxCopies[s] /\ reports[s] \in Seq(Report)
      /\ odd[s] \in SUBSET Odd
  BY Before
<1>2. TypeOK /\ sharedValue # NoValue
  BY Valued DEF IInv
<1>3. Fits(s, "tick", pend2, locked[s], copies[s], g2, b2, reports[s], odd[s])
  BY <1>1 DEF Fits
<1>4. Moves(s, "tick", pend2, locked[s], copies[s], g2, b2, reports[s], odd[s])
  <2>1. /\ locked = [locked EXCEPT ![s] = locked[s]] /\ copies = [copies EXCEPT ![s] = copies[s]]
        /\ reports = [reports EXCEPT ![s] = reports[s]] /\ odd = [odd EXCEPT ![s] = odd[s]]
    BY <1>2, Kept DEF TypeOK
  <2> QED
    BY <2>1 DEF Moves, Based
<1>5. Pays(s, locked[s], g2, odd[s])
  BY DEF Pays
<1>6. Counts
  BY <1>2 DEF Counts, Based, TypeOK
<1> QED
  BY <1>2, <1>3, <1>4, <1>5, <1>6, MovesKeep

\* A reset of both legs.
LEMMA RestKeeps ==
  ASSUME IInv, NEW s \in Strategy, pc[s] = "idle", NEW g2 \in [Legs -> Leg],
         NEW b2, Exchanged(orders[s], reports[s], b2, reports[s]), Based(s, FALSE, g2, b2),
         Rested(leg[s], g2), \E h \in Half : Both(leg[s], Ini[h]) \/ Both(leg[s], Finished[h]),
         sharedValue' = sharedValue + IF Both(leg[s], Finished["out"]) THEN locked[s] ELSE 0
  PROVE  IInv'
<1> DEFINE g == leg[s]
           b == orders[s]
           q == reports[s]
<1>1. /\ locked[s] \in Nat /\ copies[s] \in Nat /\ g \in [Legs -> Leg]
      /\ b \in Seq(Order) /\ q \in Seq(Report)
      /\ ReportsInv(b, q) /\ RefsInv(g, b)
      /\ "clear" \notin odd[s] => StageInv(g, b, q, pedding[s]) /\ MinuendInv(g)
      /\ odd[s] \subseteq {"refused"} =>
           "clear" \notin odd[s] /\ CleanInv(g, b, q, locked[s], copies[s])
  BY Before
<1>2. sharedValue \in Int /\ sharedValue' \in Int
  BY <1>1, Valued
<1>3. b2 \in Seq(Order) /\ ReportsInv(b2, q)
  BY DEF Exchanged
<1>4. /\ RefsInv(g, b2)
      /\ \A p : StageInv(g, b, q, p) => StageInv(g, b2, q, p)
      /\ \A k, c : EndIsLast(q) /\ CleanInv(g, b, q, k, c) => CleanInv(g, b2, q, k, c)
  BY <1>1, ExchangeKeeps
<1>5. RefsInv(g2, b2)
  <2>1. \A l \in Legs, h \in Half : /\ g2[l].ref[h] = g[l].ref[h]
                                    /\ g2[l].sys[h] \in {NullRef, g[l].ref[h], g[l].sys[h]}
    BY DEF Rested
  <2> QED
    BY <1>4, <2>1, RefsSame
<1>6. ASSUME "clear" \notin odd[s]
      PROVE  /\ StageInv(g2, b2, q, FALSE) /\ MinuendInv(g2)
             /\ sharedValue' + Claim(g2, locked[s]) = sharedValue + Claim(g, locked[s])
  <2>1. StageInv(g, b2, q, pedding[s]) /\ MinuendInv(g)
    BY <1>1, <1>4, <1>6
  <2>2. /\ StageInv(g2, b2, q, FALSE) /\ MinuendInv(g2)
        /\ \A k \in Nat : Claim(g, k) = Claim(g2, k) + IF Both(g, Finished["out"]) THEN k ELSE 0
    BY <1>1, <1>3, <2>1, RestStage
  <2>3. Claim(g2, locked[s]) \in Int
    BY <1>1 DEF Claim
  <2>4. Claim(g, locked[s]) = Claim(g2, locked[s]) + IF Both(g, Finished["out"]) THEN locked[s] ELSE 0
    BY <1>1, <2>2
  <2> HIDE DEF g, b, q
  <2>5. sharedValue' = sharedValue + IF Both(g, Finished["out"]) THEN locked[s] ELSE 0
    BY DEF g
  <2>6. sharedValue' + Claim(g2, locked[s]) = sharedValue + Claim(g, locked[s])
    <3>1. CASE Both(g, Finished["out"])
      BY <1>1, <1>2, <2>3, <2>4, <2>5, <3>1
    <3>2. CASE ~Both(g, Finished["out"])
      BY <1>2, <2>3, <2>4, <2>5, <3>2
    <3> QED
      BY <3>1, <3>2
  <2> QED
    BY <2>2, <2>6
<1>7. ASSUME odd[s] \subseteq {"refused"}
      PROVE  CleanInv(g2, b2, q, locked[s], copies[s])
  <2>1. CleanInv(g, b, q, locked[s], copies[s]) /\ EndIsLast(q) /\ StageInv(g, b2, q, pedding[s])
    BY <1>1, <1>4, <1>7 DEF CleanInv
  <2>2. CleanInv(g, b2, q, locked[s], copies[s])
    BY <1>4, <2>1
  <2> QED
    BY <1>1, <1>3, <2>1, <2>2, RestClean
<1> QED
  BY <1>2, <1>3, <1>5, <1>6, <1>7, BaseMove

Ended(t) == [t EXCEPT !.state = "T_INI", !.sys = [h \in Half |-> NullRef]]
Emptied(t) == [t EXCEPT !.state = "T_INI", !.pos = 0]

LEMMA EndedIs ==
  ASSUME NEW t \in Leg, NEW t2, t2 = Ended(t)
  PROVE  /\ t2 \in Leg /\ t2.state = "T_INI" /\ t2.vol = t.vol /\ t2.deal = t.deal
         /\ t2.pos = t.pos /\ t2.ref = t.ref /\ \A h \in Half : t2.sys[h] = NullRef
<1> DEFINE sy == [h \in Half |-> NullRef]
<1>1. sy \in [Half -> Nat] /\ (\A h \in Half : sy[h] = NullRef) /\ "T_INI" \in TradeState
  BY StatesDiffer DEF NullRef
<1>2. t2 = [t EXCEPT !.state = "T_INI", !.sys = sy]
  BY DEF Ended
<1> HIDE DEF sy
<1> QED
  BY <1>1, <1>2 DEF Leg

LEMMA EmptiedIs ==
  ASSUME NEW t \in Leg, NEW t2, t2 = Emptied(t)
  PROVE  /\ t2 \in Leg /\ t2.state = "T_INI" /\ t2.vol = t.vol /\ t2.deal = t.deal
         /\ t2.pos = 0 /\ t2.ref = t.ref /\ t2.sys = t.sys
<1>1. "T_INI" \in TradeState /\ 0 \in 0 .. UIntSize - 1
  <2>1. t.pos \in 0 .. UIntSize - 1 /\ UIntSize \in Nat
    BY ArbitrageAssumption DEF Leg
  <2> QED
    BY <2>1, StatesDiffer
<1> QED
  BY <1>1 DEF Emptied, Leg

\* The legs after one of the resets.
LEMMA RestedIs ==
  ASSUME NEW g \in [Legs -> Leg], NEW g2,
         \/ ~Both(g, Finished["out"]) /\ (\E h \in Half : Both(g, Ini[h]) \/ Both(g, Finished[h]))
              /\ \/ g2 = [l \in Legs |-> WithState(g[l], "T_INI")]
                 \/ g2 = [l \in Legs |-> Ended(g[l])]
         \/ Both(g, Finished["out"]) /\ g2 = [l \in Legs |-> Emptied(g[l])]
  PROVE  g2 \in [Legs -> Leg] /\ Rested(g, g2)
<1> USE StatesDiffer
<1>1. \A l \in Legs : g[l] \in Leg
  OBVIOUS
<1>2. CASE g2 = [l \in Legs |-> WithState(g[l], "T_INI")] /\ ~Both(g, Finished["out"])
           /\ \E h \in Half : Both(g, Ini[h]) \/ Both(g, Finished[h])
  <2>1. ASSUME NEW l \in Legs
        PROVE  /\ WithState(g[l], "T_INI") \in Leg /\ g2[l].state = "T_INI" /\ g2[l].pos = g[l].pos
               /\ g2[l].vol = g[l].vol /\ g2[l].deal = g[l].deal
               /\ g2[l].ref = g[l].ref /\ g2[l].sys = g[l].sys
    BY <1>1, <1>2, WithStateIs
  <2>2. \A l \in Legs : g[l].state # Finished["out"]
    BY <1>2 DEF Both
  <2>3. g2 \in [Legs -> Leg]
    BY <1>2, <2>1
  <2> QED
    BY <2>1, <2>2, <2>3 DEF Rested
<1>3. CASE g2 = [l \in Legs |-> Ended(g[l])] /\ ~Both(g, Finished["out"])
           /\ \E h \in Half : Both(g, Ini[h]) \/ Both(g, Finished[h])
  <2>1. ASSUME NEW l \in Legs
        PROVE  /\ Ended(g[l]) \in Leg /\ g2[l].state = "T_INI" /\ g2[l].pos = g[l].pos
               /\ g2[l].vol = g[l].vol /\ g2[l].deal = g[l].deal
               /\ g2[l].ref = g[l].ref /\ \A h \in Half : g2[l].sys[h] = NullRef
    BY <1>1, <1>3, EndedIs
  <2>2. \A l \in Legs : g[l].state # Finished["out"]
    BY <1>3 DEF Both
  <2>3. g2 \in [Legs -> Leg]
    BY <1>3, <2>1
  <2> QED
    BY <2>1, <2>2, <2>3 DEF Rested
<1>4. CASE Both(g, Finished["out"]) /\ g2 = [l \in Legs |-> Emptied(g[l])]
  <2>1. ASSUME NEW l \in Legs
        PROVE  /\ Emptied(g[l]) \in Leg /\ g2[l].state = "T_INI" /\ g2[l].pos = 0
               /\ g2[l].vol = g[l].vol /\ g2[l].deal = g[l].deal
               /\ g2[l].ref = g[l].ref /\ g2[l].sys = g[l].sys
    BY <1>1, <1>4, EmptiedIs
  <2>2. \A l \in Legs : g[l].state = Finished["out"]
    BY <1>4 DEF Both
  <2>3. g2 \in [Legs -> Leg]
    BY <1>4, <2>1
  <2> QED
    BY <2>1, <2>2, <2>3 DEF Rested
<1> QED
  BY <1>2, <1>3, <1>4

LEMMA OnTickBaseKeeps ==
  ASSUME IInv, NEW s \in Strategy, NEW waited, OnTickBase(s, waited)
  PROVE  IInv'
<1> USE StatesDiffer
<1> DEFINE g == leg[s]
           b2 == AskedToEnd(s, waited)
<1>1. /\ g \in [Legs -> Leg] /\ orders[s] \in Seq(Order) /\ reports[s] \in Seq(Report)
      /\ ReportsInv(orders[s], reports[s]) /\ RefsInv(g, orders[s]) /\ TypeOK
      /\ locked[s] \in Nat /\ pedding[s] \in BOOLEAN
      /\ "clear" \notin odd[s] =>
           StageInv(g, orders[s], reports[s], pedding[s]) /\ MinuendInv(g)
      /\ odd[s] \subseteq {"refused"} => CleanInv(g, orders[s], reports[s], locked[s], copies[s])
  BY Before DEF IInv
<1>2. /\ pc[s] = "idle" /\ pc' = [pc EXCEPT ![s] = "tick"] /\ orders' = [orders EXCEPT ![s] = b2]
      /\ Reset(s) /\ UNCHANGED <<locked, copies, reports, others, total, odd, modified, meddled>>
  BY DEF OnTickBase
<1>3. Exchanged(orders[s], reports[s], b2, reports[s])
  BY <1>1, AskStep DEF AskedToEnd
<1>4. sharedValue # NoValue /\ sharedValue \in Int
  BY <1>2, Valued
<1> HIDE DEF b2
<1>5. ASSUME NEW g2, leg' = [leg EXCEPT ![s] = g2], pedding' = [pedding EXCEPT ![s] = FALSE],
             sharedValue' = sharedValue + IF Both(g, Finished["out"]) THEN locked[s] ELSE 0,
             \/ /\ ~Both(g, Finished["out"])
                /\ \E h \in Half : Both(g, Ini[h]) \/ Both(g, Finished[h])
                /\ \/ g2 = [l \in Legs |-> WithState(g[l], "T_INI")]
                   \/ g2 = [l \in Legs |-> Ended(g[l])]
             \/ Both(g, Finished["out"]) /\ g2 = [l \in Legs |-> Emptied(g[l])]
      PROVE  IInv'
  <2>1. g2 \in [Legs -> Leg] /\ Rested(g, g2)
    BY <1>1, <1>5, RestedIs
  <2>2. \E h \in Half : Both(g, Ini[h]) \/ Both(g, Finished[h])
    BY <1>5
  <2>3. Based(s, FALSE, g2, b2)
    BY <1>2, <1>5 DEF Based
  <2> QED
    BY <1>2, <1>3, <1>5, <2>1, <2>2, <2>3, RestKeeps
<1>6. CASE BothLegs(s, Finished["in"])
  <2> DEFINE g2 == [l \in Legs |-> WithState(g[l], "T_INI")]
  <2>1. leg' = [leg EXCEPT ![s] = g2]
    BY <1>1, <1>2, <1>6 DEF Reset, WithState, TypeOK
  <2>2. pedding' = [pedding EXCEPT ![s] = FALSE] /\ sharedValue' = sharedValue
    BY <1>2, <1>6 DEF Reset
  <2>3. Both(g, Finished["in"]) /\ ~Both(g, Finished["out"])
    BY <1>6 DEF BothLegs, Both
  <2>4. sharedValue' = sharedValue + IF Both(g, Finished["out"]) THEN locked[s] ELSE 0
    BY <1>4, <2>2, <2>3
  <2> QED
    BY <1>5, <2>1, <2>2, <2>3, <2>4
<1>7. CASE ~BothLegs(s, Finished["in"]) /\ \E h \in Half : BothLegs(s, Ini[h])
  <2> DEFINE g2 == [l \in Legs |-> Ended(g[l])]
  <2>1. leg' = [leg EXCEPT ![s] = g2]
    BY <1>1, <1>2, <1>7 DEF Reset, Ended, TypeOK
  <2>2. pedding' = [pedding EXCEPT ![s] = FALSE] /\ sharedValue' = sharedValue
    BY <1>2, <1>7 DEF Reset
  <2>3. (\E h \in Half : Both(g, Ini[h])) /\ ~Both(g, Finished["out"])
    BY <1>7 DEF BothLegs, Both
  <2>4. sharedValue' = sharedValue + IF Both(g, Finished["out"]) THEN locked[s] ELSE 0
    BY <1>4, <2>2, <2>3
  <2> QED
    BY <1>5, <2>1, <2>2, <2>3, <2>4
<1>8. CASE ~BothLegs(s, Finished["in"]) /\ ~(\E h \in Half : BothLegs(s, Ini[h]))
           /\ BothLegs(s, Finished["out"])
  <2> DEFINE g2 == [l \in Legs |-> Emptied(g[l])]
  <2>1. leg' = [leg EXCEPT ![s] = g2]
    BY <1>1, <1>2, <1>8 DEF Reset, Emptied, TypeOK
  <2>2. pedding' = [pedding EXCEPT ![s] = FALSE] /\ sharedValue' = sharedValue + locked[s]
    BY <1>2, <1>4, <1>8 DEF Reset, IncreaseSharedValue
  <2>3. Both(g, Finished["out"])
    BY <1>8 DEF BothLegs, Both
  <2>4. sharedValue' = sharedValue + IF Both(g, Finished["out"]) THEN locked[s] ELSE 0
    BY <2>2, <2>3
  <2> QED
    BY <1>5, <2>1, <2>2, <2>3, <2>4
<1>9. CASE UNCHANGED <<leg, pedding, sharedValue>>
  <2>1. b2 \in Seq(Order) /\ ReportsInv(b2, reports[s])
    BY <1>3 DEF Exchanged
  <2>2. /\ RefsInv(g, b2)
        /\ \A p : StageInv(g, orders[s], reports[s], p) => StageInv(g, b2, reports[s], p)
        /\ \A k, c : EndIsLast(reports[s]) /\ CleanInv(g, orders[s], reports[s], k, c)
                       => CleanInv(g, b2, reports[s], k, c)
    BY <1>1, <1>3, ExchangeKeeps
  <2>3. odd[s] \subseteq {"refused"} => CleanInv(g, b2, reports[s], locked[s], copies[s])
    <3>1. odd[s] \subseteq {"refused"} => EndIsLast(reports[s])
      BY <1>1 DEF CleanInv
    <3> QED
      BY <1>1, <2>2, <3>1
  <2>4. Based(s, pedding[s], g, b2)
    <3>1. leg = [leg EXCEPT ![s] = leg[s]] /\ pedding = [pedding EXCEPT ![s] = pedding[s]]
      BY <1>1, Kept DEF TypeOK
    <3> QED
      BY <1>2, <1>9, <3>1 DEF Based
  <2> QED
    BY <1>1, <1>2, <1>4, <1>9, <2>1, <2>2, <2>3, <2>4, BaseMove
<1> QED
  BY <1>2, <1>6, <1>7, <1>8, <1>9 DEF Reset

Fresh(t, c) == [t EXCEPT !.vol = c, !.deal = 0]
Awaits(t, h, n) == [t EXCEPT !.state = Waiting[h], !.ref[h] = n, !.sys[h] = NullRef]

LEMMA FreshIs ==
  ASSUME NEW t \in Leg, NEW c \in Nat \ {0}, NEW t2, t2 = Fresh(t, c)
  PROVE  /\ t2 \in Leg /\ t2.state = t.state /\ t2.vol = c /\ t2.deal = 0 /\ t2.pos = t.pos
         /\ t2.ref = t.ref /\ t2.sys = t.sys
BY DEF Fresh, Leg

LEMMA AwaitsIs ==
  ASSUME NEW t \in Leg, NEW h \in Half, NEW n \in Nat, NEW t2, t2 = Awaits(t, h, n)
  PROVE  ReferredTo(t, t2, h, n) /\ t2.state = Waiting[h]
<1> DEFINE rf == [t.ref EXCEPT ![h] = n]
           sy == [t.sys EXCEPT ![h] = NullRef]
<1>1. t.ref \in [Half -> Nat] /\ t.sys \in [Half -> Nat] /\ NullRef \in Nat
  BY DEF Leg, NullRef
<1>2. /\ rf \in [Half -> Nat] /\ rf[h] = n /\ \A y \in Half : y # h => rf[y] = t.ref[y]
      /\ sy \in [Half -> Nat] /\ sy[h] = NullRef /\ \A y \in Half : y # h => sy[y] = t.sys[y]
  BY <1>1
<1>3. t2 = [t EXCEPT !.state = Waiting[h], !.ref = rf, !.sys = sy]
  BY DEF Awaits
<1>4. Waiting[h] \in TradeState
  BY StatesDiffer
<1> HIDE DEF rf, sy
<1>5. t2 \in Leg /\ t2.state = Waiting[h] /\ t2.vol = t.vol /\ t2.deal = t.deal /\ t2.pos = t.pos
      /\ t2.ref = rf /\ t2.sys = sy
  BY <1>2, <1>3, <1>4 DEF Leg
<1> QED
  BY <1>2, <1>5 DEF ReferredTo

\* The legs after the order of the Minuend was asked for.
LEMMA StartedIs ==
  ASSUME NEW s, NEW h \in Half, NEW ref \in Nat, leg[s] \in [Legs -> Leg],
         copies[s] \in Nat \ {0}, NEW g2, g2 = Started(s, h, ref)
  PROVE  /\ g2 \in [Legs -> Leg]
         /\ ref # NullRef => Begun(leg[s], g2, h, ref, copies[s])
         /\ ref = NullRef => Refused(leg[s], g2, copies[s])
<1> DEFINE g == leg[s]
           t(l) == Fresh(g[l], copies[s])
<1>0. "Minuend" \in Legs /\ "Subtrahend" \in Legs /\ "Minuend" # "Subtrahend"
      /\ (\A l \in Legs : l # "Minuend" => l = "Subtrahend") /\ Ini[h] \in TradeState
  BY StatesDiffer
<1>1. g2 = [l \in Legs |-> IF ref = NullRef THEN t(l)
                           ELSE IF l = "Minuend" THEN Awaits(t(l), h, ref)
                           ELSE WithState(t(l), Ini[h])]
  BY DEF Started, Fresh, Awaits, WithState
<1>2. ASSUME NEW l \in Legs
      PROVE  /\ t(l) \in Leg /\ t(l).state = g[l].state /\ t(l).vol = copies[s] /\ t(l).deal = 0
             /\ t(l).pos = g[l].pos /\ t(l).ref = g[l].ref /\ t(l).sys = g[l].sys
  <2>1. g[l] \in Leg
    OBVIOUS
  <2> QED
    BY <2>1, FreshIs
<1> HIDE DEF t
<1>3. CASE ref = NullRef
  <2>1. g2 = [l \in Legs |-> t(l)]
    BY <1>1, <1>3
  <2>2. g2 \in [Legs -> Leg]
    BY <1>2, <2>1
  <2>3. Refused(g, g2, copies[s])
    BY <1>2, <2>1 DEF Refused
  <2> QED
    BY <1>3, <2>2, <2>3
<1>4. CASE ref # NullRef
  <2>1. \A l \in Legs : g2[l] = IF l = "Minuend" THEN Awaits(t(l), h, ref) ELSE WithState(t(l), Ini[h])
    BY <1>1, <1>4
  <2>2. ReferredTo(t("Minuend"), g2["Minuend"], h, ref) /\ g2["Minuend"].state = Waiting[h]
    BY <1>0, <1>2, <2>1, AwaitsIs
  <2>3. LET u == g2["Subtrahend"] v == t("Subtrahend")
        IN /\ u \in Leg /\ u.state = Ini[h] /\ u.vol = v.vol /\ u.deal = v.deal /\ u.pos = v.pos
           /\ u.ref = v.ref /\ u.sys = v.sys
    BY <1>0, <1>2, <2>1, WithStateIs
  <2>4. \A l \in Legs : g2[l] \in Leg
    BY <1>0, <2>2, <2>3 DEF ReferredTo
  <2>5. g2 \in [Legs -> Leg]
    <3>1. g2 = [l \in Legs |-> g2[l]]
      BY <1>1
    <3> QED
      BY <2>4, <3>1
  <2>6. NewRef(g, g2, "Minuend", h, ref)
    BY <1>0, <1>2, <2>2, <2>3 DEF NewRef, ReferredTo
  <2>7. \A l \in Legs : g2[l].pos = g[l].pos /\ g2[l].vol = copies[s] /\ g2[l].deal = 0
    BY <1>0, <1>2, <2>2, <2>3 DEF ReferredTo
  <2> QED
    BY <1>4, <2>2, <2>3, <2>5, <2>6, <2>7 DEF Begun
<1> QED
  BY <1>3, <1>4

\* What the second half of a tick does, but for the shared value and the counters.
Did(s, pend2, k2, c2, g2, b2, o2) ==
  /\ pc' = [pc EXCEPT ![s] = "idle"] /\ pedding' = [pedding EXCEPT ![s] = pend2]
  /\ locked' = [locked EXCEPT ![s] = k2] /\ copies' = [copies EXCEPT ![s] = c2]
  /\ leg' = [leg EXCEPT ![s] = g2] /\ orders' = [orders EXCEPT ![s] = b2]
  /\ odd' = [odd EXCEPT ![s] = o2] /\ UNCHANGED <<reports, others, total>>

LEMMA DidKeeps ==
  ASSUME IInv, NEW s \in Strategy, pc[s] = "tick",
         NEW pend2, NEW k2, NEW c2, NEW g2, NEW b2, NEW o2, Did(s, pend2, k2, c2, g2, b2, o2),
         Fits(s, "idle", pend2, k2, c2, g2, b2, reports[s], o2), Pays(s, k2, g2, o2), Counts
  PROVE  IInv'
<1>1. TypeOK /\ sharedValue # NoValue
  BY Valued DEF IInv
<1>2. reports = [reports EXCEPT ![s] = reports[s]]
  BY <1>1, Kept DEF TypeOK
<1>3. Moves(s, "idle", pend2, k2, c2, g2, b2, reports[s], o2)
  BY <1>2 DEF Did, Moves
<1> QED
  BY <1>1, <1>3, MovesKeep

\* A leg that rests keeps the other one at rest.
LEMMA RestIsBoth ==
  ASSUME NEW g, Stage(g), g["Minuend"].state = "T_INI"
  PROVE  Both(g, "T_INI")
BY StatesDiffer DEF Stage, Both, Works

\* The order of the Minuend is asked for.
LEMMA BeginKeeps ==
  ASSUME IInv, NEW s \in Strategy, pc[s] = "tick", NEW h \in Half, NEW ref \in RefFor(s),
         NEW oddity \in SUBSET Odd, NEW k2 \in Nat, k2 = IF h = "in" THEN copies[s] ELSE locked[s],
         MayBegin(leg[s], h),
         "clear" \notin odd[s] \cup oddity => Both(leg[s], "T_INI"),
         Sent(s, ref, "Minuend", h, copies[s], oddity),
         pc' = [pc EXCEPT ![s] = "idle"], pedding' = [pedding EXCEPT ![s] = TRUE],
         locked' = [locked EXCEPT ![s] = k2], UNCHANGED copies,
         leg' = [leg EXCEPT ![s] = Started(s, h, ref)],
         UNCHANGED reports, UNCHANGED others, UNCHANGED total, Counts,
         sharedValue' = IF h = "in" /\ ref # NullRef THEN sharedValue - copies[s] ELSE sharedValue
  PROVE  IInv'
<1> DEFINE g == leg[s]
           b == orders[s]
           q == reports[s]
           c == copies[s]
           g2 == Started(s, h, ref)
           o2 == odd[s] \cup oddity \cup (IF ref = NullRef THEN {"refused"} ELSE {})
<1>0. "Minuend" \in Legs /\ TypeOK
  BY StatesDiffer DEF IInv
<1>1. /\ locked[s] \in Nat /\ copies[s] \in 1 .. MaxCopies[s] /\ c \in 1 .. UIntSize - 1
      /\ c \in Nat /\ g \in [Legs -> Leg] /\ b \in Seq(Order) /\ q \in Seq(Report)
      /\ odd[s] \in SUBSET Odd /\ ReportsInv(b, q) /\ RefsInv(g, b)
      /\ "clear" \notin odd[s] => StageInv(g, b, q, pedding[s]) /\ MinuendInv(g)
      /\ odd[s] \subseteq {"refused"} =>
           "clear" \notin odd[s] /\ CleanInv(g, b, q, locked[s], c)
  BY Before
<1>2. c \in Nat \ {0} /\ sharedValue \in Int /\ ref \in Nat
  <2>1. c >= 1
    BY <1>1, ArbitrageAssumption
  <2> QED
    BY <1>1, <2>1, Valued, RefForIs
<1>3. PICK b2 : SentTo(s, q, b2, "Minuend", h, c, ref, oddity)
  BY <1>0, <1>1, <1>2, SentIs
<1>4. /\ orders' = [orders EXCEPT ![s] = b2] /\ odd' = [odd EXCEPT ![s] = o2]
      /\ Asked(b, q, b2, "Minuend", h, c, ref)
  BY <1>3 DEF SentTo
<1>5. /\ g2 \in [Legs -> Leg]
      /\ ref # NullRef => Begun(g, g2, h, ref, c)
      /\ ref = NullRef => Refused(g, g2, c)
  <2>1. g2 = Started(s, h, ref)
    OBVIOUS
  <2> HIDE DEF g2
  <2> QED
    BY <1>1, <1>2, <2>1, StartedIs
<1>6. leg' = [leg EXCEPT ![s] = g2]
  OBVIOUS
<1>7. o2 \in SUBSET Odd /\ odd[s] \subseteq o2 /\ ("clear" \in oddity => "clear" \in o2)
  BY <1>1 DEF Odd
<1> HIDE DEF g2, o2
<1>8. b2 \in Seq(Order) /\ ReportsInv(b2, q)
  <2>1. Grown(b, q, b2, "Minuend", h, c, ref)
    BY <1>1, <1>4, AskedIs
  <2> QED
    BY <2>1 DEF Grown
<1>9. ref = NullRef => b2 = b
  <2>1. Len(b) + 1 # NullRef
    BY <1>1 DEF NullRef
  <2> QED
    BY <1>4, <2>1 DEF Asked
<1>10. RefsInv(g2, b2)
  <2>1. CASE ref = NullRef
    <3>1. \A l \in Legs, y \in Half : /\ g2[l].ref[y] = g[l].ref[y]
                                      /\ g2[l].sys[y] \in {NullRef, g[l].ref[y], g[l].sys[y]}
      BY <1>5, <2>1 DEF Refused
    <3> QED
      BY <1>1, <1>9, <2>1, <3>1, RefsSame
  <2>2. CASE ref # NullRef
    <3>1. NewRef(g, g2, "Minuend", h, ref)
      BY <1>5, <2>2 DEF Begun
    <3> QED
      BY <1>1, <1>4, <3>1, RefsAsked
  <2> QED
    BY <2>1, <2>2
<1>11. ASSUME "clear" \notin o2
       PROVE  /\ StageInv(g2, b2, q, TRUE) /\ MinuendInv(g2) /\ "clear" \notin odd[s]
              /\ sharedValue' + Claim(g2, k2) = sharedValue + Claim(g, locked[s])
  <2>1. "clear" \notin odd[s] /\ Both(g, "T_INI") /\ StageInv(g, b, q, pedding[s])
    BY <1>1, <1>7, <1>11
  <2>2. CASE ref # NullRef
    <3>1. /\ StageInv(g2, b2, q, TRUE) /\ MinuendInv(g2)
          /\ Takes(g, g2, h)
      BY <1>1, <1>4, <1>5, <2>1, <2>2, BeginStage
    <3>2. sharedValue' + k2 = sharedValue + IF h = "in" THEN 0 ELSE locked[s]
      <4>1. CASE h = "in"
        BY <1>1, <1>2, <2>2, <4>1
      <4>2. CASE h # "in"
        BY <2>2, <4>2
      <4> QED
        BY <4>1, <4>2
    <3>3. Claim(g2, k2) = k2 /\ Claim(g, locked[s]) = IF h = "in" THEN 0 ELSE locked[s]
      BY <3>1 DEF Takes
    <3> QED
      BY <2>1, <3>1, <3>2, <3>3
  <2>3. CASE ref = NullRef
    <3>1. /\ StageInv(g2, b, q, TRUE) /\ MinuendInv(g2)
          /\ \A k : Claim(g2, k) = Claim(g, k)
      BY <1>1, <1>5, <2>1, <2>3, RefusedStage
    <3>2. Claim(g, k2) = Claim(g, locked[s])
      <4>1. CASE h = "in"
        <5>1. \A k : Claim(g, k) = 0
          BY <2>1, <4>1, StatesDiffer DEF Claim, Both, MayBegin, Works
        <5> QED
          BY <5>1
      <4>2. CASE h # "in"
        BY <4>2
      <4> QED
        BY <4>1, <4>2
    <3>3. sharedValue' = sharedValue
      BY <2>3
    <3> QED
      BY <1>9, <2>1, <2>3, <3>1, <3>2, <3>3
  <2> QED
    BY <2>2, <2>3
<1>12. ASSUME o2 \subseteq {"refused"} PROVE CleanInv(g2, b2, q, k2, c)
  <2>1. /\ odd[s] \subseteq {"refused"} /\ "clear" \notin odd[s] \cup oddity
    BY <1>1, <1>7, <1>12
  <2>2. /\ Both(g, "T_INI") /\ StageInv(g, b, q, pedding[s])
        /\ CleanInv(g, b, q, locked[s], c)
    BY <1>1, <2>1
  <2>3. CASE ref # NullRef
    BY <1>1, <1>4, <1>5, <2>2, <2>3, BeginClean
  <2>4. CASE ref = NullRef
    <3>1. k2 = locked[s] \/ \A l \in Legs : g[l].pos = 0
      BY DEF MayBegin
    <3>2. CleanInv(g2, b, q, k2, c)
      BY <1>5, <2>2, <2>4, <3>1, RefusedClean
    <3> QED
      BY <1>9, <2>4, <3>2
  <2> QED
    BY <2>3, <2>4
<1>13. Fits(s, "idle", TRUE, k2, c, g2, b2, q, o2)
  BY <1>1, <1>5, <1>7, <1>8, <1>10, <1>11, <1>12 DEF Fits
<1>14. Pays(s, k2, g2, o2)
  <2>1. sharedValue' \in Int
    BY <1>1, <1>2
  <2> QED
    BY <1>11, <2>1 DEF Pays
<1>15. Did(s, TRUE, k2, c, g2, b2, o2)
  <2>1. copies = [copies EXCEPT ![s] = copies[s]]
    BY <1>0, Kept DEF TypeOK
  <2> QED
    BY <1>4, <1>6, <2>1 DEF Did
<1> QED
  BY <1>13, <1>14, <1>15, DidKeeps

\* The second half of a tick that does nothing.
LEMMA NothingDone ==
  ASSUME IInv, NEW s \in Strategy, pc[s] = "tick", pc' = [pc EXCEPT ![s] = "idle"],
         UNCHANGED <<sharedValue, pedding, locked, leg, orders, odd>>,
         UNCHANGED <<copies, reports, others, total>>, Counts
  PROVE  IInv'
<1>1. /\ locked[s] \in Nat /\ copies[s] \in 1 .. MaxCopies[s] /\ pedding[s] \in BOOLEAN
      /\ leg[s] \in [Legs -> Leg] /\ orders[s] \in Seq(Order) /\ reports[s] \in Seq(Report)
      /\ odd[s] \in SUBSET Odd
      /\ ReportsInv(orders[s], reports[s]) /\ RefsInv(leg[s], orders[s])
      /\ "clear" \notin odd[s] =>
           StageInv(leg[s], orders[s], reports[s], pedding[s]) /\ MinuendInv(leg[s])
      /\ odd[s] \subseteq {"refused"} =>
           CleanInv(leg[s], orders[s], reports[s], locked[s], copies[s])
  BY Before
<1>2. TypeOK /\ sharedValue \in Int
  BY Valued DEF IInv
<1>3. Fits(s, "idle", pedding[s], locked[s], copies[s], leg[s], orders[s], reports[s], odd[s])
  BY <1>1 DEF Fits
<1>4. Did(s, pedding[s], locked[s], copies[s], leg[s], orders[s], odd[s])
  <2>1. /\ pedding = [pedding EXCEPT ![s] = pedding[s]]
        /\ locked = [locked EXCEPT ![s] = locked[s]] /\ copies = [copies EXCEPT ![s] = copies[s]]
        /\ leg = [leg EXCEPT ![s] = leg[s]] /\ orders = [orders EXCEPT ![s] = orders[s]]
        /\ odd = [odd EXCEPT ![s] = odd[s]]
    BY <1>2, Kept DEF TypeOK
  <2> QED
    BY <2>1 DEF Did
<1>5. Pays(s, locked[s], leg[s], odd[s])
  BY <1>2 DEF Pays
<1> QED
  BY <1>3, <1>4, <1>5, DidKeeps

LEMMA OpenKeeps ==
  ASSUME IInv, NEW s \in Strategy, pc[s] = "tick", ~pedding[s], Flat(s), Open(s),
         pc' = [pc EXCEPT ![s] = "idle"], UNCHANGED <<copies, reports, others, total>>, Counts
  PROVE  IInv'
<1>1. CASE DecreaseSucceeds(sharedValue >= copies[s])
  <2>1. PICK ref \in RefFor(s) :
          /\ leg' = [leg EXCEPT ![s] = Started(s, "in", ref)]
          /\ Sent(s, ref, "Minuend", "in", copies[s], {})
          /\ IF ref = NullRef THEN UNCHANGED sharedValue ELSE DecreaseSharedValue(copies[s])
    BY <1>1 DEF Open
  <2>2. /\ locked' = [locked EXCEPT ![s] = copies[s]] /\ pedding' = [pedding EXCEPT ![s] = TRUE]
        /\ UNCHANGED copies /\ UNCHANGED reports /\ UNCHANGED others /\ UNCHANGED total
    BY <1>1 DEF Open
  <2>3. sharedValue' = IF "in" = "in" /\ ref # NullRef THEN sharedValue - copies[s] ELSE sharedValue
    BY <2>1 DEF DecreaseSharedValue
  <2>4. copies[s] \in Nat /\ copies[s] = IF "in" = "in" THEN copies[s] ELSE locked[s]
    BY Before
  <2>5. "in" \in Half /\ {} \in SUBSET Odd
    BY StatesDiffer
  <2>6. MayBegin(leg[s], "in")
    BY DEF MayBegin, Flat
  <2>7. "clear" \notin odd[s] \cup {} => Both(leg[s], "T_INI")
    BY Before DEF StageInv
  <2> QED
    BY <2>1, <2>2, <2>3, <2>4, <2>5, <2>6, <2>7, BeginKeeps
<1>2. CASE ~DecreaseSucceeds(sharedValue >= copies[s])
  <2>1. UNCHANGED <<sharedValue, pedding, locked, leg, orders, odd>>
    BY <1>2 DEF Open
  <2> QED
    BY <2>1, NothingDone
<1> QED
  BY <1>1, <1>2

LEMMA CloseKeeps ==
  ASSUME IInv, NEW s \in Strategy, pc[s] = "tick", Held(s), NEW oddity, Close(s, oddity),
         (oddity = {} /\ (~pedding[s] \/ ~AtWork(s))) \/ oddity = {"clear"},
         pc' = [pc EXCEPT ![s] = "idle"], UNCHANGED <<copies, reports, others, total>>, Counts
  PROVE  IInv'
<1>1. PICK ref \in RefFor(s) :
        /\ leg' = [leg EXCEPT ![s] = Started(s, "out", ref)]
        /\ Sent(s, ref, "Minuend", "out", copies[s], oddity)
  BY DEF Close
<1>2. TypeOK /\ locked[s] \in Nat
  BY Before DEF IInv
<1>3. locked' = [locked EXCEPT ![s] = locked[s]] /\ pedding' = [pedding EXCEPT ![s] = TRUE]
  <2>1. locked = [locked EXCEPT ![s] = locked[s]]
    BY <1>2, Kept DEF TypeOK
  <2> QED
    BY <2>1 DEF Close
<1>4. /\ UNCHANGED copies /\ UNCHANGED reports /\ UNCHANGED others /\ UNCHANGED total
  OBVIOUS
<1>5. "out" \in Half /\ "out" # "in"
  BY StatesDiffer
<1>6. sharedValue' = IF "out" = "in" /\ ref # NullRef THEN sharedValue - copies[s] ELSE sharedValue
  BY <1>5 DEF Close
<1>7. oddity \in SUBSET Odd
  BY DEF Odd
<1>8. MayBegin(leg[s], "out")
  BY <1>5 DEF MayBegin, Held
<1>9. "clear" \notin odd[s] \cup oddity => Both(leg[s], "T_INI")
  <2>1. SUFFICES ASSUME "clear" \notin odd[s] \cup oddity PROVE Both(leg[s], "T_INI")
    OBVIOUS
  <2>2. StageInv(leg[s], orders[s], reports[s], pedding[s]) /\ (~pedding[s] \/ ~AtWork(s))
    BY <2>1, Before
  <2>3. CASE ~pedding[s]
    BY <2>2, <2>3 DEF StageInv
  <2>4. CASE ~AtWork(s)
    BY <2>2, <2>4, RestIsBoth DEF StageInv, AtWork
  <2> QED
    BY <2>2, <2>3, <2>4
<1>10. locked[s] = IF "out" = "in" THEN copies[s] ELSE locked[s]
  BY <1>5
<1> QED
  BY <1>1, <1>2, <1>3, <1>4, <1>5, <1>6, <1>7, <1>8, <1>9, <1>10, BeginKeeps

LEMMA OnTickSignalKeeps ==
  ASSUME IInv, NEW s \in Strategy, OnTickSignal(s)
  PROVE  IInv'
<1>1. /\ pc[s] = "tick" /\ pc' = [pc EXCEPT ![s] = "idle"]
      /\ UNCHANGED <<copies, reports, others, total>> /\ UNCHANGED <<modified, meddled>>
  BY DEF OnTickSignal
<1>2. Counts
  BY <1>1 DEF Counts, IInv, TypeOK
<1>3. CASE ~pedding[s] /\ Flat(s) /\ Open(s)
  BY <1>1, <1>2, <1>3, OpenKeeps
<1>4. CASE ~pedding[s] /\ Held(s) /\ Close(s, {})
  BY <1>1, <1>2, <1>4, CloseKeeps
<1>5. CASE UNCHANGED <<sharedValue, pedding, locked, leg, orders, odd>>
  BY <1>1, <1>2, <1>5, NothingDone
<1> QED
  BY <1>3, <1>4, <1>5 DEF OnTickSignal

LEMMA CommandIs ==
  ASSUME IInv, NEW s \in Strategy, Command(s)
  PROVE  /\ pc[s] = "tick" /\ pc' = [pc EXCEPT ![s] = "idle"]
         /\ UNCHANGED <<reports, others, total>> /\ Counts
<1>1. TypeOK
  BY DEF IInv
<1> QED
  BY <1>1, ArbitrageAssumption DEF Command, Counts, TypeOK

LEMMA BetKeeps ==
  ASSUME IInv, NEW s \in Strategy, Bet(s)
  PROVE  IInv'
<1>1. ~pedding[s] /\ Flat(s) /\ Open(s) /\ UNCHANGED copies /\ Command(s)
  BY DEF Bet
<1> QED
  BY <1>1, CommandIs, OpenKeeps

LEMMA ClearKeeps ==
  ASSUME IInv, NEW s \in Strategy, Clear(s)
  PROVE  IInv'
<1>1. Held(s) /\ Close(s, IF AtWork(s) THEN {"clear"} ELSE {}) /\ UNCHANGED copies /\ Command(s)
  BY DEF Clear
<1> QED
  BY <1>1, CommandIs, CloseKeeps

LEMMA ChangeCopiesKeeps ==
  ASSUME IInv, NEW s \in Strategy, NEW n \in 1 .. MaxCopies[s], ChangeCopies(s, n)
  PROVE  IInv'
<1> DEFINE o2 == IF pedding[s] THEN odd[s] \cup {"resized"} ELSE odd[s]
           g == leg[s]
<1>1. /\ pc[s] = "tick" /\ pc' = [pc EXCEPT ![s] = "idle"]
      /\ UNCHANGED <<reports, others, total>> /\ Counts
      /\ Flat(s) /\ copies' = [copies EXCEPT ![s] = n]
      /\ UNCHANGED <<sharedValue, pedding, locked, leg, orders>>
  BY CommandIs DEF ChangeCopies
<1>2. /\ locked[s] \in Nat /\ pedding[s] \in BOOLEAN /\ g \in [Legs -> Leg]
      /\ orders[s] \in Seq(Order) /\ reports[s] \in Seq(Report) /\ odd[s] \in SUBSET Odd
      /\ ReportsInv(orders[s], reports[s]) /\ RefsInv(g, orders[s])
      /\ "clear" \notin odd[s] => StageInv(g, orders[s], reports[s], pedding[s]) /\ MinuendInv(g)
      /\ odd[s] \subseteq {"refused"} =>
           "clear" \notin odd[s] /\ CleanInv(g, orders[s], reports[s], locked[s], copies[s])
  BY Before
<1>3. TypeOK /\ sharedValue \in Int
  BY <1>1, Valued DEF IInv
<1>4. odd' = [odd EXCEPT ![s] = o2]
  <2>1. odd = [odd EXCEPT ![s] = odd[s]]
    BY <1>3, Kept DEF TypeOK
  <2> QED
    BY <1>3, <2>1 DEF ChangeCopies, TypeOK
<1>5. /\ o2 \in SUBSET Odd /\ odd[s] \subseteq o2 /\ ("clear" \in o2 => "clear" \in odd[s])
      /\ o2 \subseteq {"refused"} => ~pedding[s]
  BY <1>2 DEF Odd
<1> HIDE DEF o2
<1>6. ASSUME o2 \subseteq {"refused"}
      PROVE  CleanInv(g, orders[s], reports[s], locked[s], n)
  <2>1. /\ StageInv(g, orders[s], reports[s], pedding[s]) /\ ~pedding[s]
        /\ CleanInv(g, orders[s], reports[s], locked[s], copies[s])
    BY <1>2, <1>5, <1>6
  <2>2. Both(g, "T_INI") /\ \A l \in Legs : g[l].pos = 0
    BY <1>1, <2>1 DEF StageInv, Flat
  <2>3. CopiesInv(g, locked[s], n)
    BY <2>2 DEF CopiesInv
  <2> QED
    BY <2>1, <2>3 DEF CleanInv
<1>7. Fits(s, "idle", pedding[s], locked[s], n, g, orders[s], reports[s], o2)
  BY <1>2, <1>5, <1>6 DEF Fits
<1>8. Did(s, pedding[s], locked[s], n, g, orders[s], o2)
  <2>1. /\ pedding = [pedding EXCEPT ![s] = pedding[s]]
        /\ locked = [locked EXCEPT ![s] = locked[s]]
        /\ leg = [leg EXCEPT ![s] = leg[s]] /\ orders = [orders EXCEPT ![s] = orders[s]]
    BY <1>3, Kept DEF TypeOK
  <2> QED
    BY <1>1, <1>4, <2>1 DEF Did
<1>9. Pays(s, locked[s], g, o2)
  BY <1>1, <1>3, <1>5 DEF Pays
<1> QED
  BY <1>1, <1>7, <1>8, <1>9, DidKeeps

-----------------------------------------------------------------------------
(* The beginning, and the steps of the operators and of the others         *)

LEMMA NothingYet ==
  /\ << >> \in Seq(Order) /\ << >> \in Seq(Report) /\ ReportsInv(<< >>, << >>)
  /\ EndIsLast(<< >>)
  /\ \A r : Coming(<< >>, << >>, r) = 0 /\ Underway(<< >>, r, {"trade"}) = 0
  /\ \A l, h : OrdersOf(<< >>, l, h) = {} /\ TradedOf(<< >>, l, h) = 0
<1>1. << >> \in Seq(Order) /\ << >> \in Seq(Report) /\ DOMAIN << >> = {}
  BY EmptySeq
<1>2. ReportsInv(<< >>, << >>) /\ EndIsLast(<< >>)
  BY <1>1 DEF ReportsInv, EndIsLast
<1>3. \A r : Coming(<< >>, << >>, r) = 0 /\ Underway(<< >>, r, {"trade"}) = 0
  BY <1>1, <1>2, ComingBounds
<1>4. \A l, h : OrdersOf(<< >>, l, h) = {}
  BY <1>1 DEF OrdersOf
<1>5. \A l, h : TradedOf(<< >>, l, h) = 0
  BY <1>4, SumNone DEF TradedOf
<1> QED
  BY <1>1, <1>2, <1>3, <1>4, <1>5

\* A strategy that has done nothing.
LEMMA UntouchedIs ==
  ASSUME NEW g, g = [l \in Legs |-> InitialLeg], NEW k, NEW c, 1 < UIntSize
  PROVE  /\ g \in [Legs -> Leg] /\ RefsInv(g, << >>) /\ StageInv(g, << >>, << >>, FALSE)
         /\ MinuendInv(g) /\ CleanInv(g, << >>, << >>, k, c) /\ Claim(g, k) = 0
<1>0. /\ "T_INI" \in TradeState /\ "Minuend" \in Legs
      /\ \A h \in Half : Ini[h] # "T_INI" /\ Waiting[h] # "T_INI" /\ Finished[h] # "T_INI"
      /\ "in" \in Half /\ "out" \in Half
  BY StatesDiffer
<1>1. UIntSize \in Nat
  BY ArbitrageAssumption
<1>2. InitialLeg \in Leg
  BY <1>0, <1>1 DEF InitialLeg, Leg, NullRef
<1>3. ASSUME NEW l \in Legs
      PROVE  /\ g[l].state = "T_INI" /\ g[l].vol = 1 /\ g[l].deal = 0 /\ g[l].pos = 0
             /\ \A h \in Half : g[l].ref[h] = NullRef /\ g[l].sys[h] = NullRef
  BY DEF InitialLeg
<1>4. g \in [Legs -> Leg]
  BY <1>2
<1>5. RefsInv(g, << >>)
  BY <1>3 DEF RefsInv
<1>6. Both(g, "T_INI")
  BY <1>3 DEF Both
<1>7. \A l \in Legs, h \in Half : ~Works(g, l, h)
  BY <1>0, <1>3 DEF Works
<1>8. StageInv(g, << >>, << >>, FALSE)
  <2>1. \A l \in Legs, h \in Half : HalfInv(g, << >>, << >>, l, h)
    BY <1>0, <1>3, <1>7, NothingYet DEF HalfInv
  <2>2. \A l \in Legs : g[l].vol \in 1 .. UIntSize - 1
    BY <1>1, <1>3
  <2> QED
    BY <1>6, <2>1, <2>2 DEF StageInv, Stage
<1>9. MinuendInv(g)
  BY <1>0, <1>3, <1>7 DEF MinuendInv
<1>10. CleanInv(g, << >>, << >>, k, c)
  <2>1. \A l \in Legs, h \in Half : /\ Only(<< >>, << >>, l, h, g[l].ref[h])
                                    /\ Known(<< >>, << >>, l, h, g[l].ref[h]) = 0
    BY <1>3, NothingYet DEF Only, Known
  <2>2. CopiesInv(g, k, c)
    BY <1>3, <1>6 DEF CopiesInv
  <2>3. \A l \in Legs :
          g[l].pos = Known(<< >>, << >>, l, "in", g[l].ref["in"])
                     - Known(<< >>, << >>, l, "out", g[l].ref["out"])
    BY <1>0, <1>3, <2>1
  <2> QED
    BY <2>1, <2>2, <2>3, NothingYet DEF CleanInv
<1>11. Claim(g, k) = 0
  BY <1>0, <1>3, <1>7 DEF Claim
<1> QED
  BY <1>4, <1>5, <1>8, <1>9, <1>10, <1>11

LEMMA Wide == ASSUME NEW s \in Strategy PROVE 1 < UIntSize
<1>1. MaxCopies[s] \in 1 .. UIntSize - 1 /\ UIntSize \in Nat
  BY ArbitrageAssumption
<1> QED
  BY <1>1

LEMMA InitKeeps == Init => IInv
<1> SUFFICES ASSUME Init PROVE IInv
  OBVIOUS
<1>1. ASSUME NEW s \in Strategy
      PROVE  /\ leg[s] = [l \in Legs |-> InitialLeg] /\ pedding[s] = FALSE
             /\ orders[s] = << >> /\ reports[s] = << >> /\ odd[s] = {}
             /\ pc[s] = "none" /\ locked[s] = 0 /\ copies[s] = MaxCopies[s]
  BY DEF Init
<1>2. ASSUME NEW s \in Strategy
      PROVE  /\ leg[s] \in [Legs -> Leg] /\ StrategyInv(s)
             /\ << >> \in Seq(Order) /\ << >> \in Seq(Report)
  <2>1. 1 < UIntSize
    BY Wide
  <2> DEFINE g == leg[s]
  <2>2. g = [l \in Legs |-> InitialLeg]
    BY <1>1
  <2> HIDE DEF g
  <2>3. /\ g \in [Legs -> Leg] /\ RefsInv(g, << >>) /\ StageInv(g, << >>, << >>, FALSE)
        /\ MinuendInv(g) /\ CleanInv(g, << >>, << >>, locked[s], copies[s])
    BY <2>1, <2>2, UntouchedIs
  <2>4. Untouched(s)
    BY <1>1 DEF Untouched
  <2> QED
    BY <1>1, <2>3, <2>4, NothingYet DEF StrategyInv, g
<1>3. TypeOK
  <2>1. leg \in [Strategy -> [Legs -> Leg]]
    <3>1. leg = [s \in Strategy |-> leg[s]]
      BY DEF Init
    <3> QED
      BY <1>2, <3>1
  <2>2. orders \in [Strategy -> Seq(Order)] /\ reports \in [Strategy -> Seq(Report)]
    BY <1>2 DEF Init
  <2>3. copies \in [Strategy -> Nat] /\ \A s \in Strategy : copies[s] \in 1 .. MaxCopies[s]
    <3>1. \A s \in Strategy : MaxCopies[s] \in Nat /\ MaxCopies[s] >= 1
      BY ArbitrageAssumption
    <3>2. MaxCopies = [s \in Strategy |-> MaxCopies[s]]
      BY ArbitrageAssumption
    <3> QED
      BY <1>1, <3>1, <3>2 DEF Init
  <2>4. odd \in [Strategy -> SUBSET Odd] /\ pc \in [Strategy -> {"none", "idle", "tick"}]
        /\ pedding \in [Strategy -> BOOLEAN] /\ locked \in [Strategy -> Nat]
    BY DEF Init
  <2>5. modified \in 0 .. MaxModify /\ meddled \in 0 .. MaxMeddle /\ others \in Nat
        /\ total \in Int /\ sharedValue \in Int \cup {NoValue}
    BY ArbitrageAssumption DEF Init
  <2> QED
    BY <2>1, <2>2, <2>3, <2>4, <2>5 DEF TypeOK
<1>4. ClaimInv
  BY <1>1 DEF ClaimInv, Init
<1> QED
  BY <1>2, <1>3, <1>4 DEF IInv

\* What the claims sum up to.
Taken == SumFunction(Claims)

LEMMA TakenIs ==
  ASSUME IInv
  PROVE  /\ Taken \in Int
         /\ (\A s \in Strategy : pc[s] = "none") => Taken = 0
<1>1. /\ TypeOK /\ IsFiniteSet(Strategy) /\ Taken = SumFunctionOnSet(Claims, Strategy)
      /\ \A t \in Strategy : Claims[t] \in Int
  BY ClaimsSum, ArbitrageAssumption DEF IInv, Taken
<1>2. Taken \in Int
  BY <1>1, SumIsInt
<1>3. ASSUME \A s \in Strategy : pc[s] = "none" PROVE Taken = 0
  <2>1. ASSUME NEW s \in Strategy PROVE Claims[s] = 0
    <3>1. leg[s] = [l \in Legs |-> InitialLeg] /\ 1 < UIntSize
      BY <1>3, Wide DEF IInv, StrategyInv, Untouched
    <3>2. Claim(leg[s], locked[s]) = 0
      BY <3>1, UntouchedIs
    <3> QED
      BY <3>2 DEF Claims
  <2> QED
    BY <1>1, <2>1, SumZero
<1> QED
  BY <1>2, <1>3

\* A step that leaves the strategies alone.
LEMMA OutsideKeeps ==
  ASSUME IInv, UNCHANGED <<pc, pedding, locked, copies, leg, orders, reports, odd>>,
         sharedValue' \in Int, others' \in Nat, total' \in Int, Counts,
         (\A s \in Strategy : "clear" \notin odd[s]) => sharedValue' + others' + Taken = total'
  PROVE  IInv'
<1>1. TypeOK /\ \A t \in Strategy : StrategyInv(t)
  BY DEF IInv
<1>2. TypeOK'
  BY <1>1 DEF TypeOK, Counts
<1>3. \A t \in Strategy : StrategyInv(t)'
  BY <1>1, SameKeeps DEF Same
<1>4. ClaimInv'
  <2>1. sharedValue' # NoValue /\ Claims' = Claims
    BY NoValueAssumption DEF Claims
  <2> QED
    BY <2>1 DEF ClaimInv, Claims, Taken
<1> QED
  BY <1>2, <1>3, <1>4 DEF IInv

LEMMA ModifyKeeps ==
  ASSUME IInv, NEW v \in Limits, Modify(v)
  PROVE  IInv'
<1>1. TypeOK /\ ClaimInv /\ v \in Int /\ MaxModify \in Nat /\ Taken \in Int
  BY TakenIs, ArbitrageAssumption DEF IInv
<1>2. /\ sharedValue' = v /\ others' = others
      /\ total' = total + v - (IF sharedValue = NoValue THEN 0 ELSE sharedValue)
      /\ others \in Nat /\ total \in Int /\ sharedValue \in Int \cup {NoValue}
      /\ UNCHANGED <<pc, pedding, locked, copies, leg, orders, reports, odd>>
  BY <1>1 DEF Modify, SetSharedValue, TypeOK
<1>3. Counts
  BY <1>1 DEF Counts, Modify, TypeOK
<1>4. (\A s \in Strategy : "clear" \notin odd[s]) => sharedValue' + others' + Taken = total'
  <2>1. CASE sharedValue = NoValue
    <3>1. total = 0 /\ others = 0 /\ \A s \in Strategy : pc[s] = "none"
      BY <1>1, <2>1 DEF ClaimInv
    <3> QED
      BY <1>1, <1>2, <2>1, <3>1, TakenIs
  <2>2. CASE sharedValue # NoValue
    <3>1. (\A s \in Strategy : "clear" \notin odd[s]) => sharedValue + others + Taken = total
      BY <1>1, <2>2 DEF ClaimInv, Taken, Claims
    <3>2. sharedValue \in Int
      BY <1>2, <2>2
    <3> QED
      BY <1>1, <1>2, <2>2, <3>1, <3>2
  <2> QED
    BY <2>1, <2>2
<1>5. total' \in Int
  BY <1>1, <1>2
<1> QED
  BY <1>1, <1>2, <1>3, <1>4, <1>5, OutsideKeeps

LEMMA OthersKeep ==
  ASSUME IInv, OthersLock \/ OthersRelease
  PROVE  IInv'
<1>1. TypeOK /\ ClaimInv /\ Taken \in Int
  BY TakenIs DEF IInv
<1>2. others \in Nat /\ total \in Int /\ sharedValue \in Int \cup {NoValue}
  BY <1>1 DEF TypeOK
<1>3. sharedValue # NoValue
  <2>1. OthersLock => sharedValue # NoValue
    BY DEF OthersLock, DecreaseSucceeds
  <2>2. OthersRelease => others # 0
    BY DEF OthersRelease
  <2>3. others # 0 => sharedValue # NoValue
    BY <1>1 DEF ClaimInv
  <2> QED
    BY <2>1, <2>2, <2>3
<1>4. \/ sharedValue' = sharedValue - 1 /\ others' = others + 1
      \/ others > 0 /\ sharedValue' = sharedValue + 1 /\ others' = others - 1
  BY <1>3 DEF OthersLock, OthersRelease, DecreaseSharedValue, IncreaseSharedValue
<1>5. UNCHANGED <<pc, pedding, locked, copies, leg, orders, reports, odd>> /\ total' = total
      /\ UNCHANGED <<modified, meddled>>
  BY DEF OthersLock, OthersRelease
<1>6. Counts
  BY <1>1, <1>5 DEF Counts, TypeOK
<1>7. sharedValue \in Int
  BY <1>2, <1>3
<1>8. sharedValue' \in Int /\ others' \in Nat /\ total' \in Int
  BY <1>2, <1>4, <1>5, <1>7
<1>9. (\A s \in Strategy : "clear" \notin odd[s]) => sharedValue' + others' + Taken = total'
  <2>1. (\A s \in Strategy : "clear" \notin odd[s]) => sharedValue + others + Taken = total
    BY <1>1, <1>3 DEF ClaimInv, Taken, Claims
  <2>2. sharedValue' + others' = sharedValue + others
    BY <1>2, <1>4, <1>7
  <2> QED
    BY <1>1, <1>2, <1>5, <1>7, <1>8, <2>1, <2>2
<1> QED
  BY <1>5, <1>6, <1>8, <1>9, OutsideKeeps

LEMMA StutterKeeps == ASSUME IInv, UNCHANGED vars PROVE IInv'
<1>1. TypeOK /\ ClaimInv /\ \A t \in Strategy : StrategyInv(t)
  BY DEF IInv
<1>2. TypeOK'
  BY <1>1 DEF TypeOK, vars
<1>3. \A t \in Strategy : StrategyInv(t)'
  BY <1>1, SameKeeps DEF Same, vars
<1>4. ClaimInv'
  BY <1>1 DEF ClaimInv, vars
<1> QED
  BY <1>2, <1>3, <1>4 DEF IInv

LEMMA StepKeeps ==
  ASSUME IInv, [Next]_vars
  PROVE  IInv'
<1>1. CASE \E v \in Limits : Modify(v)
  BY <1>1, ModifyKeeps
<1>2. CASE OthersLock \/ OthersRelease
  BY <1>2, OthersKeep
<1>3. ASSUME NEW s \in Strategy, OnInit(s) \/ Ticks(s) \/ Meddles(s) \/ Handler(s) \/ Exchange(s)
      PROVE  IInv'
  <2>1. CASE OnInit(s)
    BY <2>1, OnInitKeeps
  <2>2. CASE Ticks(s)
    BY <2>2, OnTickBaseKeeps, OnTickSignalKeeps DEF Ticks
  <2>3. CASE Meddles(s)
    BY <2>3, BetKeeps, ClearKeeps, ChangeCopiesKeeps DEF Meddles
  <2>4. CASE Handler(s)
    BY <2>4, OnTradeKeeps, OnOrderQueueingKeeps, OnOrderCanceledKeeps DEF Handler
  <2>5. CASE Exchange(s)
    BY <2>5, AcceptKeeps, RefuseKeeps, CancelKeeps, FillKeeps, OvertakeKeeps DEF Exchange
  <2> QED
    BY <1>3, <2>1, <2>2, <2>3, <2>4, <2>5
<1>4. CASE UNCHANGED vars
  BY <1>4, StutterKeeps
<1> QED
  BY <1>1, <1>2, <1>3, <1>4 DEF Next

-----------------------------------------------------------------------------
(* Theorems                                                                *)

\* The invariant that makes the strategy correct holds in every state: what the
\* legs of a strategy know agrees with its orders and the reports under way at
\* every stage of an operation, and what the strategies have taken is missing in
\* the shared value.
THEOREM Inductive == Spec => []IInv
<1>1. IInv /\ [Next]_vars => IInv'
  BY StepKeeps
<1> QED
  BY <1>1, InitKeeps, PTL DEF Spec

\* The sysID that a leg would cancel with is that of the order it waits for, or
\* is not known: OnTick never cancels an order that was given up.
THEOREM CancelsItsOwn == Spec => []CancelNamesOrder
<1>1. ASSUME IInv PROVE CancelNamesOrder
  <2>1. \A s \in Strategy : RefsInv(leg[s], orders[s])
    BY <1>1 DEF IInv, StrategyInv
  <2> QED
    BY <2>1 DEF CancelNamesOrder, RefsInv
<1> QED
  BY <1>1, Inductive, PTL

\* When nobody is pending or holds anything all copies are back in the shared
\* value, whatever was refused, reported late or resized before.
THEOREM AllCopiesBack == Spec => []CopiesComeBack
<1>1. ASSUME IInv PROVE CopiesComeBack
  <2>1. SUFFICES ASSUME sharedValue # NoValue,
                        \A s \in Strategy : odd[s] \subseteq Odd \ {"clear"} /\ ~pedding[s] /\ Flat(s)
                 PROVE  sharedValue + others = total
    BY DEF CopiesComeBack
  <2>2. ASSUME NEW s \in Strategy PROVE "clear" \notin odd[s] /\ Claims[s] = 0
    <3>1. "clear" \notin odd[s] /\ ~pedding[s] /\ Flat(s)
      BY <2>1
    <3>2. StageInv(leg[s], orders[s], reports[s], pedding[s])
      BY <1>1, <3>1, Before
    <3>3. Both(leg[s], "T_INI") /\ \A l \in Legs : leg[s][l].pos = 0
      BY <3>1, <3>2 DEF StageInv, Flat
    <3>4. Claim(leg[s], locked[s]) = 0
      BY <3>3, StatesDiffer DEF Claim, Both, Works
    <3> QED
      BY <3>1, <3>4 DEF Claims
  <2>3. Taken = 0
    <3>1. Taken = SumFunctionOnSet(Claims, Strategy) /\ IsFiniteSet(Strategy)
      BY ClaimsSum, ArbitrageAssumption DEF Taken
    <3> QED
      BY <2>2, <3>1, SumZero
  <2>4. sharedValue + others + Taken = total
    BY <1>1, <2>1, <2>2 DEF IInv, ClaimInv, Taken, Claims
  <2>5. sharedValue \in Int /\ others \in Nat
    BY <1>1, <2>1 DEF IInv, TypeOK
  <2> QED
    BY <2>3, <2>4, <2>5
<1> QED
  BY <1>1, Inductive, PTL

\* What a leg holds at the exchange is its position and the trades under way.
LEMMA HoldsIs ==
  ASSUME IInv, NEW s \in Strategy, odd[s] \subseteq {"refused"}, NEW l \in Legs
  PROVE  LET U(h) == Underway(reports[s], leg[s][l].ref[h], {"trade"})
         IN /\ Holds(s, l) = leg[s][l].pos + U("in") - U("out")
            /\ Holds(s, l) \in Int
            /\ \A h \in Half : /\ U(h) \in Nat
                               /\ U(h) <= Coming(orders[s], reports[s], leg[s][l].ref[h])
<1> DEFINE g == leg[s]
           b == orders[s]
           q == reports[s]
           U(h) == Underway(reports[s], leg[s][l].ref[h], {"trade"})
<1>1. /\ g \in [Legs -> Leg] /\ b \in Seq(Order) /\ q \in Seq(Report) /\ ReportsInv(b, q)
      /\ CleanInv(g, b, q, locked[s], copies[s])
  BY Before
<1>2. g[l].pos = Known(b, q, l, "in", g[l].ref["in"]) - Known(b, q, l, "out", g[l].ref["out"])
  BY <1>1 DEF CleanInv
<1>3. \A h : TradedOf(b, l, h) \in Int
  BY <1>1, TradedIsInt
<1>4. ASSUME NEW h \in Half
      PROVE  U(h) \in Nat /\ U(h) <= Coming(b, q, g[l].ref[h])
  BY <1>1, UnderwayIsNat, ComingBounds
<1>5. \A h \in Half : Known(b, q, l, h, g[l].ref[h]) = TradedOf(b, l, h) - U(h)
  BY DEF Known
<1> HIDE DEF U
<1>6. /\ Holds(s, l) = g[l].pos + U("in") - U("out") /\ Holds(s, l) \in Int
  BY <1>2, <1>3, <1>4, <1>5, StatesDiffer DEF Holds
<1> QED
  BY <1>4, <1>6 DEF U

\* A strategy that may start an operation holds as much of one leg as of the
\* other one, knows it, and has no order under way, even if orders were refused.
THEOREM Hedged == Spec => []HedgedWhenIdle
<1>1. ASSUME IInv PROVE HedgedWhenIdle
  <2>1. SUFFICES ASSUME NEW s \in Strategy, Idle(s), odd[s] \subseteq {"refused"}
                 PROVE  /\ \A l \in Legs : Holds(s, l) = leg[s][l].pos
                        /\ Holds(s, "Minuend") = Holds(s, "Subtrahend")
                        /\ \A r \in DOMAIN orders[s] : orders[s][r].status = "ended"
    BY DEF HedgedWhenIdle
  <2> DEFINE g == leg[s]
             b == orders[s]
             q == reports[s]
  <2>2. /\ g \in [Legs -> Leg] /\ b \in Seq(Order) /\ q \in Seq(Report) /\ ReportsInv(b, q)
        /\ StageInv(g, b, q, pedding[s]) /\ CleanInv(g, b, q, locked[s], copies[s])
    BY <1>1, <2>1, Before
  <2>3. Both(g, "T_INI")
    BY <2>1, <2>2 DEF Idle, StageInv
  <2>4. \A l \in Legs, h \in Half : Coming(b, q, g[l].ref[h]) = 0
    <3> TAKE l \in Legs, h \in Half
    <3>1. HalfInv(g, b, q, l, h) /\ g[l].state # Waiting[h]
      BY <2>2, <2>3, StatesDiffer DEF StageInv, Both
    <3> QED
      BY <2>2, <3>1, NoneToCome
  <2>5. ASSUME NEW l \in Legs PROVE Holds(s, l) = g[l].pos
    <3> DEFINE U(h) == Underway(reports[s], leg[s][l].ref[h], {"trade"})
    <3>1. /\ Holds(s, l) = g[l].pos + U("in") - U("out")
          /\ \A h \in Half : U(h) \in Nat /\ U(h) <= Coming(b, q, g[l].ref[h])
      BY <1>1, <2>1, HoldsIs
    <3> HIDE DEF U
    <3>2. \A h \in Half : U(h) = 0
      BY <2>4, <3>1
    <3>3. g[l].pos \in Nat
      BY <2>2, LegFields
    <3> QED
      BY <3>1, <3>2, <3>3, StatesDiffer
  <2>6. g["Minuend"].pos = g["Subtrahend"].pos
    BY <2>2, <2>3, StatesDiffer DEF CleanInv, CopiesInv
  <2>7. ASSUME NEW r \in DOMAIN b PROVE b[r].status = "ended"
    <3>1. b[r].leg \in Legs /\ b[r].half \in Half
      BY <2>2, OrderFields
    <3>2. r \in OrdersOf(b, b[r].leg, b[r].half)
      BY DEF OrdersOf
    <3>3. Only(b, q, b[r].leg, b[r].half, g[b[r].leg].ref[b[r].half])
      BY <2>2, <3>1 DEF CleanInv
    <3>4. Coming(b, q, r) = 0
      BY <2>4, <3>1, <3>2, <3>3 DEF Only
    <3>5. ~Living(b, r)
      BY <2>2, <3>4, ComingBounds
    <3> QED
      BY <3>5 DEF Living
  <2> QED
    BY <2>5, <2>6, <2>7, StatesDiffer
<1> QED
  BY <1>1, Inductive, PTL

\* What the living orders of a half may trade is to come of its order.
LEMMA MayTradeIs ==
  ASSUME NEW b \in Seq(Order), NEW q \in Seq(Report), ReportsInv(b, q), NEW l, NEW h, NEW r,
         Only(b, q, l, h, r)
  PROVE  /\ MayTrade(b, l, h) \in Int
         /\ MayTrade(b, l, h) + Underway(q, r, {"trade"}) <= Coming(b, q, r)
<1> DEFINE S == {x \in OrdersOf(b, l, h) : Living(b, x)}
           f == Left(b)
           u == Underway(q, r, {"trade"})
<1>1. IsFiniteSet(OrdersOf(b, l, h)) /\ OrdersOf(b, l, h) \subseteq DOMAIN b
  BY OrdersFinite
<1>2. IsFiniteSet(S)
  BY <1>1, FS_Subset
<1>3. \A x \in S : f[x] = b[x].vol - b[x].traded /\ f[x] \in Int
  <2> TAKE x \in S
  <2>1. x \in DOMAIN b
    BY <1>1
  <2>2. b[x].vol \in Nat /\ b[x].traded \in Nat
    BY <2>1, OrderFields
  <2> QED
    BY <2>1, <2>2 DEF Left
<1>4. \A x \in S : x = r
  <2> TAKE x \in S
  <2>1. Coming(b, q, x) > 0 /\ x \in OrdersOf(b, l, h)
    BY ComingBounds
  <2> QED
    BY <2>1 DEF Only
<1>5. /\ u \in Nat /\ Underway(q, r, {"trade", "canceled"}) \in Nat
      /\ u <= Underway(q, r, {"trade", "canceled"}) /\ u <= Coming(b, q, r)
      /\ Coming(b, q, r) = (IF Living(b, r) THEN b[r].vol - b[r].traded ELSE 0)
                              + Underway(q, r, {"trade", "canceled"})
      /\ Coming(b, q, r) \in Nat
  BY ComingIs, ComingBounds, UnderwayTrades
<1>6. CASE S = {}
  <2>1. MayTrade(b, l, h) = 0
    BY <1>6, SumNone DEF MayTrade
  <2> HIDE DEF u
  <2> QED
    BY <1>5, <2>1 DEF u
<1>7. CASE S # {}
  <2>1. r \in S /\ Living(b, r)
    BY <1>4, <1>7
  <2>2. S \ {r} = {}
    BY <1>4
  <2>3. SumFunctionOnSet(f, S) = f[r] + SumFunctionOnSet(f, S \ {r})
    <3> HIDE DEF S, f
    <3> QED
      BY <1>2, <1>3, <2>1, SumTake
  <2>4. SumFunctionOnSet(f, S) = f[r] + 0
    BY <2>2, <2>3, SumNone
  <2>5. MayTrade(b, l, h) = SumFunctionOnSet(f, S)
    BY DEF MayTrade
  <2>6. f[r] \in Int /\ f[r] = b[r].vol - b[r].traded
    BY <1>3, <2>1
  <2> HIDE DEF u, f, S
  <2>7. MayTrade(b, l, h) = f[r]
    BY <2>4, <2>5, <2>6
  <2>8. Coming(b, q, r) = f[r] + Underway(q, r, {"trade", "canceled"})
    BY <1>5, <2>1, <2>6
  <2>9. f[r] + u <= Coming(b, q, r)
    BY <1>5, <2>6, <2>8
  <2> QED
    BY <2>6, <2>7, <2>9 DEF u
<1> QED
  BY <1>6, <1>7

\* A leg gets no more than the strategy claims.
LEMMA LegIsClaimed ==
  ASSUME NEW g \in [Legs -> Leg], NEW b \in Seq(Order), NEW q \in Seq(Report), ReportsInv(b, q),
         NEW p, StageInv(g, b, q, p), NEW k \in Nat, NEW c \in Nat \ {0},
         CopiesInv(g, k, c), NEW l \in Legs
  PROVE  g[l].pos + Coming(b, q, g[l].ref["in"]) <= Claim(g, k)
<1> USE StatesDiffer
<1> DEFINE m == Coming(b, q, g[l].ref["in"])
<1>1. /\ g[l].pos \in Nat /\ g[l].deal \in Nat /\ g[l].vol \in Nat /\ m \in Nat
      /\ HalfInv(g, b, q, l, "in")
  BY LegFields, ComingBounds DEF StageInv
<1>2. ~Works(g, l, "in") => m = 0
  BY <1>1 DEF HalfInv
<1>3. Works(g, l, "in") => g[l].deal + m <= g[l].vol
  BY <1>1 DEF HalfInv
<1>4. g[l].state = Ini["in"] => g[l].deal = 0
  BY <1>1 DEF HalfInv
<1>5. Claim(g, k) \in {0, k} /\ Claim(g, k) \in Nat
  BY DEF Claim
<1> HIDE DEF m
<1>6. CASE Both(g, "T_INI")
  <2>1. m = 0
    BY <1>2, <1>6 DEF Both, Works
  <2>2. CASE \A x \in Legs : g[x].pos = 0
    BY <1>1, <1>5, <2>1, <2>2 DEF m
  <2>3. CASE k = c /\ \A x \in Legs : g[x].pos = c
    <3>1. Claim(g, k) = k
      BY <1>6, <2>3 DEF Claim, Both
    <3> QED
      BY <1>1, <2>1, <2>3, <3>1 DEF m
  <2> QED
    BY <1>6, <2>2, <2>3 DEF CopiesInv
<1>7. CASE ~Both(g, "T_INI")
  <2>1. /\ k = c /\ g[l].vol = c
        /\ \/ g[l].pos = g[l].deal /\ (g[l].state = Ini["in"] \/ Works(g, l, "in"))
           \/ g[l].pos + g[l].deal = c /\ (g[l].state = Ini["out"] \/ Works(g, l, "out"))
    BY <1>7 DEF CopiesInv
  <2>2. CASE g[l].state = Ini["in"]
    <3>1. m = 0 /\ g[l].deal = 0
      BY <1>2, <1>4, <2>2 DEF Works
    <3>2. g[l].pos = g[l].deal
      BY <2>1, <2>2 DEF Works
    <3> QED
      BY <1>5, <3>1, <3>2 DEF m
  <2>3. CASE g[l].state # Ini["in"]
    <3>1. Claim(g, k) = k
      <4>1. CASE \E h \in Half : Works(g, "Minuend", h)
        BY <4>1 DEF Claim
      <4>2. CASE ~(\E h \in Half : Works(g, "Minuend", h))
        <5>1. \E h \in Half : Both(g, Ini[h])
          BY <1>7, <4>2 DEF StageInv, Stage
        <5>2. g["Minuend"].state = Ini["out"]
          BY <2>3, <5>1 DEF Both
        <5> QED
          BY <5>2 DEF Claim
      <4> QED
        BY <4>1, <4>2
    <3>2. CASE g[l].pos = g[l].deal /\ Works(g, l, "in")
      BY <1>1, <1>3, <2>1, <3>1, <3>2 DEF m
    <3>3. CASE g[l].pos + g[l].deal = c /\ (g[l].state = Ini["out"] \/ Works(g, l, "out"))
      <4>1. m = 0
        BY <1>2, <3>3 DEF Works
      <4> QED
        BY <1>1, <2>1, <3>1, <3>3, <4>1 DEF m
    <3> QED
      BY <2>1, <2>3, <3>2, <3>3
  <2> QED
    BY <2>2, <2>3
<1> QED
  BY <1>6, <1>7

\* What a strategy has in the market, or may get there, it has taken.
LEMMA ExposedIsClaimed ==
  ASSUME IInv, NEW s \in Strategy, odd[s] \subseteq {"refused"}
  PROVE  Exposed(s) \in Int /\ Exposed(s) <= Claims[s]
<1> DEFINE g == leg[s]
           b == orders[s]
           q == reports[s]
           E(l) == Holds(s, l) + MayTrade(orders[s], l, "in")
<1>1. /\ g \in [Legs -> Leg] /\ b \in Seq(Order) /\ q \in Seq(Report) /\ ReportsInv(b, q)
      /\ StageInv(g, b, q, pedding[s]) /\ CleanInv(g, b, q, locked[s], copies[s])
      /\ locked[s] \in Nat /\ copies[s] \in 1 .. UIntSize - 1 /\ copies[s] \in Nat
  BY Before
<1>2. copies[s] \in Nat \ {0}
  BY <1>1, ArbitrageAssumption
<1>3. ASSUME NEW l \in Legs PROVE E(l) \in Int /\ E(l) <= Claim(g, locked[s])
  <2> DEFINE U(h) == Underway(reports[s], leg[s][l].ref[h], {"trade"})
             m == Coming(b, q, g[l].ref["in"])
             t == MayTrade(b, l, "in")
  <2>1. /\ Holds(s, l) = g[l].pos + U("in") - U("out")
        /\ Holds(s, l) \in Int
        /\ \A h \in Half : U(h) \in Nat /\ U(h) <= Coming(b, q, g[l].ref[h])
    BY <1>1, HoldsIs
  <2>2. t \in Int /\ t + U("in") <= m
    <3>1. Only(b, q, l, "in", g[l].ref["in"])
      BY <1>1, StatesDiffer DEF CleanInv
    <3> QED
      BY <1>1, <3>1, MayTradeIs
  <2>3. g[l].pos + m <= Claim(g, locked[s])
    <3>1. CopiesInv(g, locked[s], copies[s])
      BY <1>1 DEF CleanInv
    <3> QED
      BY <1>1, <1>2, <3>1, LegIsClaimed
  <2>4. m \in Nat /\ g[l].pos \in Nat /\ Claim(g, locked[s]) \in Int
    BY <1>1, ComingBounds, LegFields DEF Claim
  <2>5. U("in") \in Nat /\ U("out") \in Nat
    BY <2>1, StatesDiffer
  <2>6. E(l) = Holds(s, l) + t
    OBVIOUS
  <2> HIDE DEF U, m, t, E, g
  <2> QED
    BY <2>1, <2>2, <2>3, <2>4, <2>5, <2>6
<1>4. Exposed(s) \in {E("Minuend"), E("Subtrahend")}
  <2>1. {Holds(s, l) + MayTrade(orders[s], l, "in") : l \in Legs} = {E("Minuend"), E("Subtrahend")}
    BY DEF Legs
  <2>2. E("Minuend") \in Int /\ E("Subtrahend") \in Int
    BY <1>3, StatesDiffer
  <2> DEFINE S == {E("Minuend"), E("Subtrahend")}
  <2>3. Exposed(s) = CHOOSE x \in S : \A y \in S : x >= y
    BY <2>1 DEF Exposed, Max
  <2> HIDE DEF E
  <2>4. \E x \in S : \A y \in S : x >= y
    BY <2>2
  <2> HIDE DEF S
  <2>5. Exposed(s) \in S
    BY <2>3, <2>4
  <2> QED
    BY <2>5 DEF S
<1>5. Claims[s] = Claim(g, locked[s])
  BY DEF Claims
<1> HIDE DEF E, g
<1> QED
  BY <1>3, <1>4, <1>5, StatesDiffer

\* The shared value bounds the copies in the market: what it still offers and
\* what the strategies hold or have ordered is never more than what the
\* operators put into it, even if orders are refused.
THEOREM LimitIsKept == Spec => []LimitKept
<1>1. ASSUME IInv PROVE LimitKept
  <2> DEFINE f == [s \in Strategy |-> Exposed(s)]
  <2>1. SUFFICES ASSUME \A s \in Strategy : odd[s] \subseteq {"refused"}, sharedValue # NoValue
                 PROVE  sharedValue + others + SumFunction(f) <= total
    BY DEF LimitKept
  <2>2. \A s \in Strategy : /\ f[s] \in Int /\ Claims[s] \in Int /\ f[s] <= Claims[s]
                            /\ "clear" \notin odd[s]
    BY <1>1, <2>1, ExposedIsClaimed, ClaimsSum DEF IInv
  <2>3. SumFunction(f) = SumFunctionOnSet(f, Strategy)
    BY DEF SumFunction, SumFunctionOnSet, FoldFunction
  <2> HIDE DEF f
  <2>4. /\ SumFunction(f) \in Int /\ SumFunction(f) <= Taken /\ Taken \in Int
    <3>1. Taken = SumFunctionOnSet(Claims, Strategy) /\ IsFiniteSet(Strategy)
      BY ClaimsSum, ArbitrageAssumption DEF Taken
    <3> QED
      BY <2>2, <2>3, <3>1, SumAtMost, SumIsInt
  <2>5. sharedValue + others + Taken = total
    BY <1>1, <2>1, <2>2 DEF IInv, ClaimInv, Taken, Claims
  <2>6. sharedValue \in Int /\ others \in Nat /\ total \in Int
    BY <1>1, <2>1 DEF IInv, TypeOK
  <2> QED
    BY <2>4, <2>5, <2>6
<1> QED
  BY <1>1, Inductive, PTL
=============================================================================
