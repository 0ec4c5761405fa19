------------------------ MODULE SimulateKernelProofs ------------------------
(* Proofs about SimulateKernel, for any tick files, any number of orders and *)
(* any delays: its types, what becomes of the ticks, and that the reports of *)
(* an order are those OrderLife promises.                                    *)
EXTENDS SimulateKernel, SequenceTheorems, TLAPS

-----------------------------------------------------------------------------
(* The files                                                               *)

\* What of a file has been read and given to the strategy.
FileInv(d) ==
  /\ pos[d] + remain[d] = Len(TickFiles[d])
  /\ delivered[d] = IF d \in que THEN pos[d] - 1 ELSE pos[d]
  /\ d \in que \/ remain[d] = 0 \/ (d = top /\ pc \notin {"OnInit", "next", "done"})
  /\ lastTick[d] = IF remain[d] = 0 /\ Len(TickFiles[d]) > 1 THEN Len(TickFiles[d]) ELSE 0

\* No tick in the queue is older than one that was delivered.
TimeInv ==
  \A d, e \in DataId : delivered[d] > 0 /\ delivered[e] < Len(TickFiles[e]) =>
    TickFiles[d][delivered[d]].time <= TickFiles[e][delivered[e] + 1].time

FilesInv ==
  /\ \A d \in DataId : FileInv(d)
  /\ pc \notin {"OnInit", "next", "done"} => top \notin que
  /\ pc = "done" => que = {}
  /\ TimeInv

\* Where a tick that was read first stands.
LEMMA FirstTick ==
  ASSUME NEW d \in DataId
  PROVE  /\ TickFiles[d] \in Seq([time : Nat, last : Nat, asks : Seq([price : Nat, volume : Nat])])
         /\ Len(TickFiles[d]) \in Nat /\ DOMAIN TickFiles[d] = 1 .. Len(TickFiles[d])
         /\ Len(TickFiles[d]) >= 1
<1> DEFINE T == [time : Nat, last : Nat, asks : Seq([price : Nat, volume : Nat])]
<1>1. TickFiles \in Seq(Seq(T)) /\ TickFiles[d] # << >>
  BY KernelAssumption DEF DataId
<1> HIDE DEF T
<1>2. TickFiles[d] \in Seq(T)
  BY <1>1 DEF DataId
<1>3. Len(TickFiles[d]) \in Nat /\ DOMAIN TickFiles[d] = 1 .. Len(TickFiles[d])
  BY <1>2
<1>4. Len(TickFiles[d]) # 0
  BY <1>1, <1>2, EmptySeq
<1> QED
  BY <1>2, <1>3, <1>4 DEF T

LEMMA TickHasTime ==
  ASSUME NEW d \in DataId, NEW i \in 1 .. Len(TickFiles[d])
  PROVE  TickFiles[d][i].time \in Nat
<1> DEFINE T == [time : Nat, last : Nat, asks : Seq([price : Nat, volume : Nat])]
<1>1. TickFiles[d] \in Seq(T)
  BY FirstTick
<1> HIDE DEF T
<1>2. TickFiles[d][i] \in T
  BY <1>1
<1> QED
  BY <1>2 DEF T

\* A file is in the order of time.
LEMMA FileSorted ==
  ASSUME NEW d \in DataId, NEW i \in 1 .. Len(TickFiles[d]), i > 1
  PROVE  TickFiles[d][i - 1].time <= TickFiles[d][i].time
<1>1. i \in DOMAIN TickFiles[d]
  BY FirstTick
<1> QED
  BY <1>1, KernelAssumption

LEMMA FilesInit == Init => FilesInv
<1> SUFFICES ASSUME Init PROVE FilesInv
  OBVIOUS
<1>1. \A d \in DataId : FileInv(d)
  <2> TAKE d \in DataId
  <2> DEFINE n == Len(TickFiles[d])
  <2>1. n \in Nat /\ n >= 1
    BY FirstTick
  <2>2. /\ pos[d] = 1 /\ remain[d] = n - 1 /\ d \in que
        /\ delivered[d] = 0 /\ lastTick[d] = 0
    BY DEF Init
  <2> HIDE DEF n
  <2>3. pos[d] + remain[d] = n /\ ~(remain[d] = 0 /\ n > 1)
    BY <2>1, <2>2
  <2> QED
    BY <2>2, <2>3 DEF FileInv, n
<1>2. TimeInv
  <2>1. \A d \in DataId : delivered[d] = 0
    BY DEF Init
  <2> QED
    BY <2>1 DEF TimeInv
<1> QED
  BY <1>1, <1>2 DEF Init, FilesInv

\* A file within its bounds.
LEMMA FileBounds ==
  ASSUME NEW d \in DataId, NEW p \in Nat, NEW r \in Nat, NEW del, NEW last,
         p >= 1, p + r = Len(TickFiles[d]), del = p - 1 \/ del = p,
         last = Len(TickFiles[d]) \/ last = 0
  PROVE  /\ p \in DOMAIN TickFiles[d]
         /\ {r, del, last} \subseteq 0 .. Len(TickFiles[d])
<1> DEFINE n == Len(TickFiles[d])
<1>1. n \in Nat /\ n >= 1 /\ DOMAIN TickFiles[d] = 1 .. n
  BY FirstTick
<1>2. p + r = n /\ (last = n \/ last = 0)
  OBVIOUS
<1> HIDE DEF n
<1>3. p \in 1 .. n /\ r \in 0 .. n /\ del \in 0 .. n /\ last \in 0 .. n
  BY <1>1, <1>2
<1> QED
  BY <1>1, <1>3 DEF n

\* The strategy is given the next tick.
LEMMA FilesNextTick ==
  ASSUME TypeOK, FilesInv, NextTick
  PROVE  FilesInv'
<1> USE DEF FilesInv
<1>1. PICK f \in que : /\ First(f) /\ top' = f /\ que' = que \ {f}
                       /\ delivered' = [delivered EXCEPT ![f] = @ + 1]
  BY DEF NextTick
<1>2. /\ que \subseteq DataId /\ f \in DataId
      /\ pos \in [DataId -> Nat] /\ remain \in [DataId -> Nat]
      /\ delivered \in [DataId -> Nat]
      /\ \A d \in DataId : delivered[d] \in 0 .. Len(TickFiles[d]) /\ pos[d] \in 1 .. Len(TickFiles[d])
  BY <1>1, FirstTick DEF TypeOK, FilesTypeOK
<1>3. pc = "next" /\ pc' = "OnTick" /\ UNCHANGED <<pos, remain, lastTick>>
  BY DEF NextTick
<1>4. \A d \in DataId : FileInv(d)'
  <2> TAKE d \in DataId
  <2>1. FileInv(d) /\ FileInv(f)
    BY <1>2
  <2>2. Len(TickFiles[d]) \in Nat
    BY FirstTick
  <2> QED
    BY <1>1, <1>2, <1>3, <2>1, <2>2 DEF FileInv
<1>5. \A e \in DataId : e \in que => delivered[e] + 1 = pos[e]
  BY <1>2 DEF FileInv
<1>6. \A e \in DataId : delivered[e] < Len(TickFiles[e]) => e \in que
  <2> SUFFICES ASSUME NEW e \in DataId, e \notin que
               PROVE  ~(delivered[e] < Len(TickFiles[e]))
    OBVIOUS
  <2>1. FileInv(e) /\ Len(TickFiles[e]) \in Nat
    BY FirstTick
  <2> QED
    BY <1>2, <1>3, <2>1 DEF FileInv
<1>7. TimeInv'
  <2> SUFFICES ASSUME NEW d \in DataId, NEW e \in DataId,
                      delivered'[d] > 0, delivered'[e] < Len(TickFiles[e])
               PROVE  TickFiles[d][delivered'[d]].time <= TickFiles[e][delivered'[e] + 1].time
    BY DEF TimeInv
  <2>1. Len(TickFiles[d]) \in Nat /\ Len(TickFiles[e]) \in Nat /\ Len(TickFiles[f]) \in Nat
    BY <1>2, FirstTick
  <2>2. /\ delivered'[f] = pos[f]
        /\ d # f => delivered'[d] = delivered[d]
        /\ e # f => delivered'[e] = delivered[e]
    BY <1>1, <1>2, <1>5
  <2>3. pos[f] + 1 \in 1 .. Len(TickFiles[f]) =>
          TickFiles[f][pos[f]].time <= TickFiles[f][pos[f] + 1].time
    <3> SUFFICES ASSUME pos[f] + 1 \in 1 .. Len(TickFiles[f])
                 PROVE  TickFiles[f][pos[f]].time <= TickFiles[f][pos[f] + 1].time
      OBVIOUS
    <3> DEFINE i == pos[f] + 1
    <3>1. i > 1 /\ i - 1 = pos[f] /\ i \in 1 .. Len(TickFiles[f])
      BY <1>2
    <3> HIDE DEF i
    <3>2. TickFiles[f][i - 1].time <= TickFiles[f][i].time
      BY <1>2, <3>1, FileSorted
    <3> QED
      BY <3>1, <3>2 DEF i
  <2>4. CASE d = f /\ e = f
    BY <2>1, <2>2, <2>3, <2>4, <1>2
  <2>5. CASE d = f /\ e # f
    <3>1. e \in que /\ delivered'[e] + 1 = pos[e]
      BY <1>5, <1>6, <2>2, <2>5
    <3>2. TickFiles[f][pos[f]].time \in Nat /\ TickFiles[e][pos[e]].time \in Nat
      BY <1>2, TickHasTime
    <3>3. TickFiles[f][pos[f]].time <= TickFiles[e][pos[e]].time
      BY <1>1, <3>1, <3>2 DEF First, Tick
    <3> QED
      BY <2>2, <2>5, <3>1, <3>3
  <2>6. CASE d # f /\ e = f
    <3>1. TickFiles[d][delivered[d]].time <= TickFiles[f][pos[f]].time
      <4>1. delivered[d] > 0 /\ delivered[f] < Len(TickFiles[f]) /\ delivered[f] + 1 = pos[f]
        BY <1>2, <1>5, <2>1, <2>2, <2>6
      <4> QED
        BY <1>2, <4>1 DEF TimeInv
    <3>2. pos[f] + 1 \in 1 .. Len(TickFiles[f])
      BY <1>2, <2>1, <2>2, <2>6
    <3>3. /\ TickFiles[d][delivered[d]].time \in Nat
          /\ TickFiles[f][pos[f]].time \in Nat /\ TickFiles[f][pos[f] + 1].time \in Nat
      <4>1. delivered[d] \in 1 .. Len(TickFiles[d])
        BY <1>2, <2>1, <2>2, <2>6
      <4> QED
        BY <1>2, <3>2, <4>1, TickHasTime
    <3>4. TickFiles[f][pos[f]].time <= TickFiles[f][pos[f] + 1].time
      BY <2>3, <3>2
    <3>5. TickFiles[d][delivered[d]].time <= TickFiles[f][pos[f] + 1].time
      BY <3>1, <3>3, <3>4
    <3>6. delivered'[d] = delivered[d] /\ delivered'[e] + 1 = pos[f] + 1
      BY <2>2, <2>6
    <3> QED
      BY <2>6, <3>5, <3>6
  <2>7. CASE d # f /\ e # f
    BY <2>2, <2>7 DEF TimeInv
  <2> QED
    BY <2>4, <2>5, <2>6, <2>7
<1> QED
  BY <1>1, <1>3, <1>4, <1>7

\* The next tick of a file is read.
LEMMA FilesFetch ==
  ASSUME TypeOK, FilesInv, Fetch
  PROVE  FilesInv'
<1> USE DEF FilesInv
<1>1. /\ que \subseteq DataId /\ top \in DataId
      /\ pos \in [DataId -> Nat] /\ remain \in [DataId -> Nat]
      /\ lastTick \in [DataId -> Nat]
  BY DEF TypeOK, FilesTypeOK
<1>2. pc = "fetch" /\ pc' = "next" /\ top' = top /\ delivered' = delivered
  BY DEF Fetch
<1>3. \A d \in DataId : FileInv(d)'
  <2> TAKE d \in DataId
  <2>1. FileInv(d) /\ top \notin que
    BY <1>2
  <2>2. Len(TickFiles[d]) \in Nat
    BY FirstTick
  <2>3. CASE remain[top] > 0
    <3>1. /\ pos' = [pos EXCEPT ![top] = @ + 1] /\ que' = que \cup {top}
          /\ lastTick' = IF remain[top] = 1 THEN [lastTick EXCEPT ![top] = pos'[top]] ELSE lastTick
          /\ remain' = [remain EXCEPT ![top] = @ - 1]
      BY <2>3 DEF Fetch
    <3>2. CASE d = top
      <4>1. pos'[d] = pos[d] + 1 /\ remain'[d] = remain[d] - 1 /\ d \in que'
        BY <1>1, <3>1, <3>2
      <4>2. lastTick'[d] = IF remain[d] = 1 THEN pos[d] + 1 ELSE lastTick[d]
        BY <1>1, <3>1, <3>2
      <4>3. pos[d] \in 1 .. Len(TickFiles[d])
        BY <1>1, FirstTick DEF TypeOK, FilesTypeOK
      <4>4. /\ pos[d] + remain[d] = Len(TickFiles[d]) /\ delivered[d] = pos[d]
            /\ remain[d] \in Nat /\ remain[d] > 0 /\ lastTick[d] = 0
        BY <1>1, <2>1, <2>3, <3>2 DEF FileInv
      <4>5. pos'[d] + remain'[d] = Len(TickFiles[d]) /\ delivered'[d] = pos'[d] - 1
        BY <1>2, <2>2, <4>1, <4>3, <4>4
      <4>6. lastTick'[d] = IF remain'[d] = 0 /\ Len(TickFiles[d]) > 1 THEN Len(TickFiles[d]) ELSE 0
        BY <2>2, <4>1, <4>2, <4>3, <4>4
      <4> QED
        BY <4>1, <4>5, <4>6 DEF FileInv
    <3>3. CASE d # top
      <4>1. /\ pos'[d] = pos[d] /\ remain'[d] = remain[d] /\ lastTick'[d] = lastTick[d]
            /\ d \in que' <=> d \in que
        BY <1>1, <3>1, <3>3
      <4> QED
        BY <1>2, <2>1, <3>3, <4>1 DEF FileInv
    <3> QED
      BY <3>2, <3>3
  <2>4. CASE ~(remain[top] > 0)
    <3>1. UNCHANGED <<pos, que, lastTick, remain>>
      BY <2>4 DEF Fetch
    <3>2. remain[top] = 0
      BY <1>1, <2>4
    <3> QED
      BY <1>2, <2>1, <3>1, <3>2 DEF FileInv
  <2> QED
    BY <2>3, <2>4
<1>4. TimeInv'
  BY <1>2 DEF TimeInv
<1> QED
  BY <1>2, <1>3, <1>4

\* All else leaves the files alone, within the walk or out of it.
LEMMA FilesKept ==
  ASSUME FilesInv, UNCHANGED files,
         \/ pc \notin {"OnInit", "next", "done"} /\ pc' \notin {"OnInit", "next", "done"}
         \/ pc' = pc
         \/ pc = "OnInit" /\ pc' = "next"
         \/ pc = "next" /\ pc' = "done" /\ que = {}
  PROVE  FilesInv'
<1>1. /\ pos' = pos /\ remain' = remain /\ que' = que /\ top' = top
      /\ delivered' = delivered /\ lastTick' = lastTick
  BY DEF files
<1>2. ASSUME NEW d \in DataId PROVE FileInv(d)'
  BY <1>1 DEF FileInv, FilesInv
<1>3. TimeInv'
  BY <1>1 DEF TimeInv, FilesInv
<1> QED
  BY <1>1, <1>2, <1>3 DEF FilesInv

LEMMA FilesNext == TypeOK /\ FilesInv /\ [Next]_vars => FilesInv'
<1> SUFFICES ASSUME TypeOK, FilesInv, [Next]_vars PROVE FilesInv'
  OBVIOUS
<1>1. CASE NextTick
  BY <1>1, FilesNextTick
<1>2. CASE Fetch
  BY <1>2, FilesFetch
<1>3. CASE EnterLoop
  BY <1>3, FilesKept DEF EnterLoop
<1>4. CASE OnEndup
  BY <1>4, FilesKept DEF OnEndup
<1>5. CASE BeginWalk
  BY <1>5, FilesKept DEF BeginWalk
<1>6. CASE EndWalk
  BY <1>6, FilesKept DEF EndWalk
<1>7. CASE \E o \in DOMAIN orders :
             \/ Enqueue(o) \/ Match(o) \/ ReportStatus(o) \/ AfterReport(o)
             \/ ReportCanceled(o) \/ AfterEnd(o)
  <2>1. PICK o \in DOMAIN orders :
          \/ Enqueue(o) \/ Match(o) \/ ReportStatus(o) \/ AfterReport(o)
          \/ ReportCanceled(o) \/ AfterEnd(o)
    BY <1>7
  <2>2. pc \in {"walk", "queued", "OnTrade", "reported", "ended"}
    BY <2>1 DEF Enqueue, Match, ReportStatus, AfterReport, ReportCanceled, AfterEnd, At, Matched
  <2>3. pc' \in {"walk", "queued", "OnTrade", "reported", "ended"}
    BY <2>1, <2>2 DEF Enqueue, Match, ReportStatus, AfterReport, ReportCanceled, AfterEnd
  <2>4. UNCHANGED files
    BY <2>1 DEF Enqueue, Match, ReportStatus, AfterReport, ReportCanceled, AfterEnd
  <2> QED
    BY <2>2, <2>3, <2>4, FilesKept
<1>8. CASE Strategy
  BY <1>8, FilesKept DEF Strategy, MakeOrder, CancelOrder, walk
<1>9. CASE UNCHANGED vars
  BY <1>9, FilesKept DEF vars, walk
<1> QED
  BY <1>1, <1>2, <1>3, <1>4, <1>5, <1>6, <1>7, <1>8, <1>9 DEF Next, StartBackTest

-----------------------------------------------------------------------------
(* The types                                                               *)

LEMMA TypeInit == Init => TypeOK
<1> SUFFICES ASSUME Init PROVE TypeOK
  OBVIOUS
<1>1. FilesTypeOK
  <2>1. \A d \in DataId : Len(TickFiles[d]) \in Nat /\ Len(TickFiles[d]) >= 1
    BY FirstTick
  <2>2. /\ pos \in [DataId -> Nat] /\ delivered \in [DataId -> Nat]
        /\ lastTick \in [DataId -> Nat] /\ \A d \in DataId : pos[d] >= 1
    BY DEF Init
  <2>3. remain \in [DataId -> Nat]
    <3>1. \A d \in DataId : Len(TickFiles[d]) - 1 \in Nat
      BY <2>1
    <3> QED
      BY <3>1 DEF Init
  <2>4. \A d \in DataId :
           /\ pos[d] \in DOMAIN TickFiles[d]
           /\ {remain[d], delivered[d], lastTick[d]} \subseteq 0 .. Len(TickFiles[d])
    BY <2>2, <2>3, FilesInit, FileBounds DEF FilesInv, FileInv
  <2> QED
    BY <2>2, <2>3, <2>4 DEF Init, FilesTypeOK
<1>2. BookTypeOK
  BY KernelAssumption DEF Init, BookTypeOK
<1>3. WalkTypeOK
  <2>1. cur \in 0 .. Len(orders)
    <3>1. cur = 0 /\ Len(orders) = 0
      BY DEF Init
    <3> QED
      BY <3>1
  <2> QED
    BY <2>1, Zenon DEF Init, WalkTypeOK, Callback
<1>4. Life!LifeTypeOK
  <2>1. Canceled = {}
    BY DEF Init, Canceled
  <2> QED
    BY <2>1 DEF Init, Life!LifeTypeOK, Life!Told, Life!Heard, Life!Unplaced
<1> QED
  BY <1>1, <1>2, <1>3, <1>4 DEF TypeOK

LEMMA FilesTypesNext == TypeOK /\ FilesInv /\ FilesInv' /\ [Next]_vars => FilesTypeOK'
<1> SUFFICES ASSUME TypeOK, FilesInv, FilesInv', [Next]_vars PROVE FilesTypeOK'
  OBVIOUS
<1> USE DEF TypeOK, FilesTypeOK
<1>0. \A d \in DataId : pos[d] >= 1
  BY FirstTick
<1>1. CASE NextTick
  <2>1. PICK f \in que : top' = f /\ que' = que \ {f} /\ delivered' = [delivered EXCEPT ![f] = @ + 1]
    BY <1>1 DEF NextTick
  <2>2. UNCHANGED <<config, pos, remain, lastTick>>
    BY <1>1 DEF NextTick
  <2>3. /\ delivered' \in [DataId -> Nat] /\ top' \in DataId /\ que' \subseteq DataId
    BY <2>1
  <2>4. \A d \in DataId :
           /\ pos'[d] \in DOMAIN TickFiles[d]
           /\ {remain'[d], delivered'[d], lastTick'[d]} \subseteq 0 .. Len(TickFiles[d])
    <3> TAKE d \in DataId
    <3>1. FileInv(d)'
      BY DEF FilesInv
    <3>2. pos'[d] \in Nat /\ remain'[d] \in Nat /\ pos'[d] >= 1
      BY <1>0, <2>2
    <3>3. /\ pos'[d] + remain'[d] = Len(TickFiles[d])
          /\ delivered'[d] = pos'[d] - 1 \/ delivered'[d] = pos'[d]
          /\ lastTick'[d] = Len(TickFiles[d]) \/ lastTick'[d] = 0
      BY <3>1 DEF FileInv
    <3> QED
      BY <3>2, <3>3, FileBounds
  <2> QED
    BY <2>2, <2>3, <2>4
<1>2. CASE Fetch
  <2>1. /\ config' = config /\ top' = top /\ delivered' = delivered
        /\ que' \subseteq DataId
    BY <1>2 DEF Fetch
  <2>2. /\ pos' \in [DataId -> Nat] /\ remain' \in [DataId -> Nat] /\ lastTick' \in [DataId -> Nat]
        /\ \A d \in DataId : pos'[d] >= 1
    <3>1. CASE remain[top] > 0
      <4>1. /\ pos' = [pos EXCEPT ![top] = @ + 1]
            /\ remain' = [remain EXCEPT ![top] = @ - 1]
            /\ lastTick' = IF remain[top] = 1 THEN [lastTick EXCEPT ![top] = pos'[top]] ELSE lastTick
        BY <1>2, <3>1 DEF Fetch
      <4>2. pos' \in [DataId -> Nat] /\ \A d \in DataId : pos'[d] >= 1
        BY <1>0, <4>1
      <4>3. remain[top] - 1 \in Nat
        BY <3>1
      <4>4. remain' \in [DataId -> Nat]
        BY <4>1, <4>3
      <4>5. lastTick' \in [DataId -> Nat]
        BY <4>1, <4>2
      <4> QED
        BY <4>2, <4>4, <4>5
    <3>2. CASE ~(remain[top] > 0)
      BY <1>0, <1>2, <3>2 DEF Fetch
    <3> QED
      BY <3>1, <3>2
  <2>3. \A d \in DataId :
           /\ pos'[d] \in DOMAIN TickFiles[d]
           /\ {remain'[d], delivered'[d], lastTick'[d]} \subseteq 0 .. Len(TickFiles[d])
    <3> TAKE d \in DataId
    <3>1. FileInv(d)'
      BY DEF FilesInv
    <3>2. pos'[d] \in Nat /\ remain'[d] \in Nat /\ pos'[d] >= 1
      BY <2>2
    <3>3. /\ pos'[d] + remain'[d] = Len(TickFiles[d])
          /\ delivered'[d] = pos'[d] - 1 \/ delivered'[d] = pos'[d]
          /\ lastTick'[d] = Len(TickFiles[d]) \/ lastTick'[d] = 0
      BY <3>1 DEF FileInv
    <3> QED
      BY <3>2, <3>3, FileBounds
  <2> QED
    BY <2>1, <2>2, <2>3
<1>3. CASE UNCHANGED <<config, files>>
  BY <1>3 DEF files
<1> QED
  BY <1>1, <1>2, <1>3
  DEF Next, StartBackTest, Strategy, EnterLoop, OnEndup, BeginWalk, EndWalk, Enqueue, Match,
      ReportStatus, AfterReport, ReportCanceled, AfterEnd, MakeOrder, CancelOrder, vars

\* One order changes.
LEMMA ChangeOrder ==
  ASSUME orders \in Seq(OrderType), NEW o \in DOMAIN orders, NEW r \in OrderType,
         orders' = [orders EXCEPT ![o] = r]
  PROVE  /\ orders' \in Seq(OrderType) /\ Len(orders') = Len(orders)
         /\ DOMAIN orders' = DOMAIN orders
         /\ orders'[o] = r
         /\ \A p \in DOMAIN orders : p # o => orders'[p] = orders[p]
<1> HIDE DEF OrderType
<1>1. o \in 1 .. Len(orders)
  OBVIOUS
<1>2. orders' \in Seq(OrderType) /\ Len(orders') = Len(orders)
  BY <1>1, ExceptSeq
<1> QED
  BY <1>2

LEMMA BookTypes == TypeOK /\ [Next]_vars => BookTypeOK' /\ WalkTypeOK'
<1> SUFFICES ASSUME TypeOK, [Next]_vars PROVE BookTypeOK' /\ WalkTypeOK'
  OBVIOUS
<1> USE DEF TypeOK
<1>0. DOMAIN orders = 1 .. Len(orders) /\ Len(orders) \in Nat /\ DOMAIN orders \subseteq Order
  BY KernelAssumption DEF BookTypeOK, Order
<1>c. ASSUME NEW o \in DOMAIN orders
      PROVE  /\ orders[o] \in OrderType /\ orders[o].traded <= orders[o].volume
             /\ orders[o].traded \in Nat /\ orders[o].volume \in Nat
  <2>1. orders[o] \in OrderType /\ orders[o].traded <= orders[o].volume
    BY DEF BookTypeOK
  <2> QED
    BY <2>1, KernelAssumption DEF OrderType
<1>a. ASSUME orders' = orders, list' \subseteq list PROVE BookTypeOK'
  BY <1>a DEF BookTypeOK
<1>1. CASE NextTick \/ EnterLoop \/ OnEndup \/ Fetch
  <2>1. orders' = orders /\ list' = list /\ UNCHANGED <<cur, newOrder, newCancel>>
    BY <1>1 DEF NextTick, EnterLoop, OnEndup, Fetch, book, flags
  <2>2. repeated' \in BOOLEAN /\ taken' \in [Order -> Nat]
    <3>1. repeated' \in BOOLEAN
      BY <1>1, Zenon DEF NextTick, EnterLoop, OnEndup, Fetch, WalkTypeOK
    <3>2. taken' \in [Order -> Nat]
      BY <1>1 DEF NextTick, EnterLoop, OnEndup, Fetch, WalkTypeOK
    <3> QED
      BY <3>1, <3>2
  <2>3. pc' \in {"OnTick", "next", "done"}
    BY <1>1 DEF NextTick, EnterLoop, OnEndup, Fetch
  <2> QED
    BY <1>a, <2>1, <2>2, <2>3 DEF WalkTypeOK, Callback
<1>2. CASE BeginWalk
  <2>1. orders' = [o \in DOMAIN orders |-> [orders[o] EXCEPT !.active = @ \/ Activated(o)]]
    BY <1>2 DEF BeginWalk
  <2>2. \A o \in DOMAIN orders :
           /\ orders'[o] \in OrderType
           /\ orders'[o].traded = orders[o].traded /\ orders'[o].volume = orders[o].volume
    <3> TAKE o \in DOMAIN orders
    <3>1. orders[o] \in OrderType
      BY DEF BookTypeOK
    <3>2. (orders[o].active \/ Activated(o)) \in BOOLEAN
      OBVIOUS
    <3> DEFINE a == orders[o].active \/ Activated(o)
    <3>3. orders'[o] = [orders[o] EXCEPT !.active = a]
      BY <2>1
    <3> HIDE DEF a
    <3>4. a \in BOOLEAN
      BY <3>2 DEF a
    <3> QED
      BY <3>1, <3>3, <3>4 DEF OrderType
  <2>3. orders' \in [1 .. Len(orders) -> OrderType]
    BY <1>0, <2>1, <2>2
  <2> HIDE DEF OrderType
  <2>4. orders' \in Seq(OrderType)
    BY <1>0, <2>3, SeqDef
  <2>5. DOMAIN orders' = DOMAIN orders /\ Len(orders') = Len(orders)
    <3>1. DOMAIN orders' = 1 .. Len(orders) /\ DOMAIN orders' = 1 .. Len(orders')
      BY <2>3, <2>4
    <3>2. Len(orders') \in Nat
      BY <2>4
    <3> QED
      BY <1>0, <3>1, <3>2
  <2>6. list' = list
    BY <1>2 DEF BeginWalk
  <2>7. BookTypeOK'
    BY <2>2, <2>4, <2>5, <2>6 DEF BookTypeOK
  <2>8. cur' \in 0 .. Len(orders') /\ UNCHANGED <<repeated, taken>>
    BY <1>0, <1>2, <2>5 DEF BeginWalk
  <2>9. pc' \in {"fetch", "walk"}
    BY <1>2 DEF BeginWalk
  <2>10. newOrder' \in BOOLEAN /\ newCancel' \in BOOLEAN
    BY <1>2, Zenon DEF BeginWalk, flags, WalkTypeOK
  <2> QED
    BY <2>7, <2>8, <2>9, <2>10 DEF WalkTypeOK
<1>3. CASE EndWalk
  <2>1. orders' = orders /\ list' = list /\ taken' = taken
    BY <1>3 DEF EndWalk, book
  <2>2. cur' \in {cur, 0} /\ pc' \in {"walk", "fetch"}
    BY <1>3 DEF EndWalk
  <2>3. newOrder' \in BOOLEAN /\ newCancel' \in BOOLEAN /\ repeated' \in BOOLEAN
    BY <1>3, Zenon DEF EndWalk, flags, WalkTypeOK
  <2>4. cur' \in 0 .. Len(orders')
    BY <1>0, <2>1, <2>2 DEF WalkTypeOK
  <2> QED
    BY <1>a, <2>1, <2>2, <2>3, <2>4 DEF WalkTypeOK
<1>b. ASSUME NEW o \in DOMAIN orders, NEW r \in OrderType, orders' = [orders EXCEPT ![o] = r],
             r.traded <= r.volume, list' = list
      PROVE  BookTypeOK' /\ Len(orders') = Len(orders)
  <2>1. /\ orders' \in Seq(OrderType) /\ Len(orders') = Len(orders)
        /\ DOMAIN orders' = DOMAIN orders /\ orders'[o] = r
        /\ \A p \in DOMAIN orders : p # o => orders'[p] = orders[p]
    BY <1>b, ChangeOrder DEF BookTypeOK
  <2> QED
    BY <1>b, <2>1 DEF BookTypeOK
<1>4. ASSUME NEW o \in DOMAIN orders, Enqueue(o) PROVE BookTypeOK' /\ WalkTypeOK'
  <2> DEFINE r == [orders[o] EXCEPT !.status = "NoTradeQueueing"]
  <2>1. r \in OrderType /\ r.traded <= r.volume
    BY <1>c DEF OrderType, Status
  <2>2. orders' = [orders EXCEPT ![o] = r] /\ list' = list
    BY <1>4 DEF Enqueue
  <2>3. BookTypeOK' /\ Len(orders') = Len(orders)
    BY <1>b, <2>1, <2>2
  <2>4. cur' = o /\ pc' = "queued" /\ UNCHANGED <<repeated, newOrder, newCancel, taken>>
    BY <1>4 DEF Enqueue, flags
  <2> QED
    BY <1>0, <2>3, <2>4 DEF WalkTypeOK, Callback
<1>5. ASSUME NEW o \in DOMAIN orders, Match(o) PROVE BookTypeOK' /\ WalkTypeOK'
  <2>1. cur' = o /\ UNCHANGED <<repeated, newOrder, newCancel, list>>
    BY <1>5 DEF Match, flags
  <2>2. CASE pc' = "walk" /\ UNCHANGED <<orders, taken>>
    BY <1>0, <1>a, <2>1, <2>2 DEF WalkTypeOK
  <2>3. ASSUME NEW v \in 1 .. orders[o].volume - orders[o].traded,
               orders' = [orders EXCEPT ![o].traded = orders[o].traded + v,
                            ![o].status = IF orders[o].traded + v = orders[o].volume
                                            THEN "AllTraded" ELSE "PartTradedQueueing"],
               taken' = [taken EXCEPT ![o] = @ + v], pc' = "OnTrade"
        PROVE  BookTypeOK' /\ WalkTypeOK'
    <3> DEFINE r == [orders[o] EXCEPT !.traded = orders[o].traded + v,
                       !.status = IF orders[o].traded + v = orders[o].volume
                                    THEN "AllTraded" ELSE "PartTradedQueueing"]
    <3>1. orders[o] \in OrderType /\ orders[o].traded \in Nat /\ orders[o].volume \in Nat
      BY <1>c
    <3>2. r \in OrderType /\ r.traded <= r.volume
      <4> DEFINE t == orders[o].traded + v
                 status == IF t = orders[o].volume THEN "AllTraded" ELSE "PartTradedQueueing"
      <4>1. t \in Nat /\ t <= orders[o].volume /\ status \in Status
        BY <3>1 DEF Status
      <4>2. r = [orders[o] EXCEPT !.traded = t, !.status = status]
        OBVIOUS
      <4> HIDE DEF t, status, r
      <4> QED
        BY <3>1, <4>1, <4>2 DEF OrderType
    <3>3. orders' = [orders EXCEPT ![o] = r]
      BY <2>3
    <3>4. BookTypeOK' /\ Len(orders') = Len(orders)
      BY <1>b, <2>1, <3>2, <3>3
    <3>5. taken' \in [Order -> Nat]
      BY <1>0, <2>3, <3>1 DEF WalkTypeOK
    <3> QED
      BY <1>0, <2>1, <2>3, <3>4, <3>5 DEF WalkTypeOK, Callback
  <2> QED
    BY <1>5, <2>2, <2>3 DEF Match
<1>6. ASSUME NEW o \in DOMAIN orders, ReportStatus(o) \/ AfterReport(o) \/ AfterEnd(o)
      PROVE  BookTypeOK' /\ WalkTypeOK'
  <2>1. /\ orders' = orders /\ list' \subseteq list
        /\ UNCHANGED <<cur, repeated, newOrder, newCancel, taken>>
    BY <1>6 DEF ReportStatus, AfterReport, AfterEnd, flags, book
  <2>2. pc' \in {"reported", "walk"}
    BY <1>6 DEF ReportStatus, AfterReport, AfterEnd
  <2> QED
    BY <1>a, <2>1, <2>2 DEF WalkTypeOK, Callback
<1>7. ASSUME NEW o \in DOMAIN orders, ReportCanceled(o) PROVE BookTypeOK' /\ WalkTypeOK'
  <2>1. /\ orders' = orders /\ list' = list /\ cur' = o
        /\ UNCHANGED <<repeated, newOrder, newCancel, taken>>
    BY <1>7 DEF ReportCanceled, flags, book
  <2>2. pc' \in {"ended", pc}
    BY <1>7 DEF ReportCanceled
  <2> QED
    BY <1>0, <1>a, <2>1, <2>2 DEF WalkTypeOK, Callback
<1>8. ASSUME NEW v \in Volume, NEW limit \in Price, NEW d \in DataId, MakeOrder(v, limit, d)
      PROVE  BookTypeOK' /\ WalkTypeOK'
  <2> DEFINE r == [dataid |-> d, limit |-> limit, volume |-> v, traded |-> 0,
                   status |-> "Unknown", time |-> Now, try |-> 0, active |-> FALSE]
             n == Len(orders) + 1
  <2>1. Now \in Nat
    BY TickHasTime, FirstTick DEF FilesTypeOK, Now, Tick
  <2>2. r \in OrderType /\ r.traded <= r.volume
    BY <1>8, <2>1, KernelAssumption DEF OrderType, Status
  <2>3. /\ orders' = Append(orders, r) /\ list' = list \cup {n} /\ Len(orders) < MaxOrders
        /\ newOrder' = TRUE /\ UNCHANGED <<pc, cur, repeated, newCancel, taken>>
    BY <1>8 DEF MakeOrder, walk
  <2> HIDE DEF r, OrderType
  <2>4. orders' \in Seq(OrderType) /\ Len(orders') = n
        /\ \A p \in 1 .. Len(orders) : orders'[p] = orders[p]
        /\ orders'[n] = r
    BY <1>0, <2>2, <2>3, AppendProperties DEF BookTypeOK
  <2>5. DOMAIN orders' = 1 .. n /\ DOMAIN orders' = DOMAIN orders \cup {n}
    BY <1>0, <2>4
  <2>6. BookTypeOK'
    BY <1>0, <2>2, <2>3, <2>4, <2>5, KernelAssumption DEF BookTypeOK
  <2> QED
    BY <1>0, <2>3, <2>4, <2>6 DEF WalkTypeOK
<1>9. ASSUME NEW o \in Order, CancelOrder(o) PROVE BookTypeOK' /\ WalkTypeOK'
  <2>1. newCancel' = TRUE /\ UNCHANGED <<pc, cur, repeated, newOrder, taken, list>>
    BY <1>9 DEF CancelOrder, walk
  <2>2. CASE orders' = orders
    BY <1>a, <2>1, <2>2 DEF WalkTypeOK
  <2>3. CASE o \in list /\ orders' = [orders EXCEPT ![o].status = "Canceled", ![o].try = Now]
    <3> DEFINE r == [orders[o] EXCEPT !.status = "Canceled", !.try = Now]
    <3>1. Now \in Nat
      BY TickHasTime, FirstTick DEF FilesTypeOK, Now, Tick
    <3>2. o \in DOMAIN orders
      BY <2>3 DEF BookTypeOK
    <3>3. r \in OrderType /\ r.traded <= r.volume
      BY <1>c, <3>1, <3>2 DEF OrderType, Status
    <3>4. orders' = [orders EXCEPT ![o] = r]
      BY <2>3
    <3>5. BookTypeOK' /\ Len(orders') = Len(orders)
      BY <1>b, <2>1, <3>2, <3>3, <3>4
    <3> QED
      BY <2>1, <3>5 DEF WalkTypeOK
  <2> QED
    BY <1>9, <2>2, <2>3 DEF CancelOrder
<1>10. CASE UNCHANGED vars
  BY <1>10, <1>a DEF vars, walk, book, flags, WalkTypeOK
<1> QED
  BY <1>1, <1>2, <1>3, <1>4, <1>5, <1>6, <1>7, <1>8, <1>9, <1>10
  DEF Next, StartBackTest, Strategy

-----------------------------------------------------------------------------
(* The orders                                                              *)

\* An order of the book and what was heard of it.
LEMMA OrderTypes ==
  ASSUME TypeOK, NEW o \in DOMAIN orders
  PROVE  /\ o \in Order /\ o \in 1 .. Len(orders) /\ Len(orders) \in Nat
         /\ orders[o] \in OrderType /\ orders[o].status \in Status
         /\ orders[o].volume \in Volume /\ orders[o].volume \in Nat
         /\ orders[o].traded \in Nat /\ orders[o].traded <= orders[o].volume
         /\ told[o] \in Life!Told /\ told[o].ends \in 0 .. 2
<1>1. o \in 1 .. Len(orders) /\ Len(orders) \in Nat /\ o \in Order
  BY KernelAssumption DEF TypeOK, BookTypeOK, Order
<1>2. orders[o] \in OrderType /\ orders[o].traded <= orders[o].volume
  BY DEF TypeOK, BookTypeOK
<1>3. told[o] \in Life!Told
  BY <1>1 DEF TypeOK, Life!LifeTypeOK
<1>4. /\ orders[o].status \in Status
      /\ orders[o].volume \in Volume /\ orders[o].volume \in Nat /\ orders[o].traded \in Nat
  BY <1>2, KernelAssumption DEF OrderType
<1>5. told[o].ends \in 0 .. 2
  BY <1>3 DEF Life!Told
<1> QED
  BY <1>1, <1>2, <1>3, <1>4, <1>5

\* What was heard of one order, or of none, changes.
LEMMA Told ==
  ASSUME TypeOK, NEW o \in Order, NEW t, told' = [told EXCEPT ![o] = t]
  PROVE  told'[o] = t /\ \A p \in Order : p # o => told'[p] = told[p]
BY DEF TypeOK, Life!LifeTypeOK

\* Each step of the kernel is one that OrderLife allows.
LEMMA LifeStep == TypeOK /\ BookInv /\ [Next]_vars => [Life!LifeNext]_(Life!life)
<1> SUFFICES ASSUME TypeOK, BookInv, [Next]_vars PROVE [Life!LifeNext]_(Life!life)
  OBVIOUS
<1>a. ASSUME orders' = orders, told' = told, late' = late PROVE UNCHANGED Life!life
  BY <1>a DEF Life!life, Canceled
<1>1. CASE NextTick \/ EnterLoop \/ OnEndup \/ Fetch \/ EndWalk \/ UNCHANGED vars
  <2>1. orders' = orders /\ told' = told /\ late' = late
    BY <1>1 DEF NextTick, EnterLoop, OnEndup, Fetch, EndWalk, vars, book, heard
  <2> QED
    BY <1>a, <2>1
<1>2. CASE BeginWalk
  <2>1. \A o \in DOMAIN orders : orders'[o].status = orders[o].status
    <3> TAKE o \in DOMAIN orders
    <3> DEFINE a == orders[o].active \/ Activated(o)
    <3>1. orders'[o] = [orders[o] EXCEPT !.active = a]
      BY <1>2 DEF BeginWalk
    <3> HIDE DEF a
    <3> QED
      BY <3>1, OrderTypes DEF OrderType
  <2>2. DOMAIN orders' = DOMAIN orders /\ told' = told /\ late' = late
    BY <1>2 DEF BeginWalk, heard
  <2>3. Canceled' = Canceled
    BY <2>1, <2>2 DEF Canceled
  <2> QED
    BY <2>2, <2>3 DEF Life!life
<1>b. ASSUME NEW o \in DOMAIN orders, NEW r, r.status # "Canceled",
             orders' = [orders EXCEPT ![o] = r]
      PROVE  Canceled' = Canceled \ {o}
  <2>1. DOMAIN orders' = DOMAIN orders /\ orders'[o] = r
        /\ \A p \in DOMAIN orders : p # o => orders'[p] = orders[p]
    BY <1>b
  <2> QED
    BY <1>b, <2>1 DEF Canceled
<1>3. ASSUME NEW o \in DOMAIN orders, Enqueue(o) PROVE Life!Queue(o)
  <2> DEFINE r == [orders[o] EXCEPT !.status = "NoTradeQueueing"]
  <2>1. orders[o].status = "Unknown" /\ r.status = "NoTradeQueueing" /\ o \notin Canceled
    BY <1>3, OrderTypes DEF Enqueue, OrderType, Canceled
  <2>2. orders' = [orders EXCEPT ![o] = r]
    BY <1>3 DEF Enqueue
  <2> HIDE DEF r
  <2>3. Canceled' = Canceled
    BY <1>b, <2>1, <2>2
  <2>4. told[o].heard = "nothing"
    BY <2>1 DEF BookInv, HeardOf
  <2> QED
    BY <1>3, <2>3, <2>4 DEF Enqueue, Life!Queue
<1>4. ASSUME NEW o \in DOMAIN orders, Match(o)
      PROVE  (\E v \in 1 .. told[o].volume : Life!Trade(o, v)) \/ UNCHANGED Life!life
  <2>1. CASE orders' = orders /\ told' = told
    BY <1>a, <1>4, <2>1 DEF Match
  <2>2. ASSUME NEW v \in 1 .. orders[o].volume - orders[o].traded,
               orders' = [orders EXCEPT ![o].traded = orders[o].traded + v,
                            ![o].status = IF orders[o].traded + v = orders[o].volume
                                            THEN "AllTraded" ELSE "PartTradedQueueing"],
               told' = [told EXCEPT ![o].heard = "trade", ![o].traded = orders[o].traded + v]
        PROVE  v \in 1 .. told[o].volume /\ Life!Trade(o, v)
    <3> DEFINE r == [orders[o] EXCEPT !.traded = orders[o].traded + v,
                       !.status = IF orders[o].traded + v = orders[o].volume
                                    THEN "AllTraded" ELSE "PartTradedQueueing"]
    <3>1. r.status # "Canceled" /\ orders' = [orders EXCEPT ![o] = r]
      BY <2>2, OrderTypes DEF OrderType
    <3> HIDE DEF r
    <3>2. Canceled' = Canceled \ {o}
      BY <1>b, <3>1
    <3>3. told[o].volume = orders[o].volume /\ told[o].traded = orders[o].traded /\ HeardOf(o)
      BY DEF BookInv
    <3>4. /\ told[o].heard \in {"queueing", "part"}
          /\ o \in Canceled => told[o].traded = 0
      <4>1. CASE At(o) /\ orders[o].status \in {"NoTradeQueueing", "PartTradedQueueing"}
        BY <3>3, <4>1 DEF At, HeardOf, Here, Canceled
      <4>2. CASE pc = "queued" /\ cur = o
        <5>1. told[o].heard = "queueing"
          BY <4>2 DEF BookInv
        <5>2. o \in Canceled => told[o].traded = 0
          BY <3>3, <5>1 DEF HeardOf, Canceled
        <5> QED
          BY <5>1, <5>2
      <4> QED
        BY <1>4, <4>1, <4>2 DEF Match, Matched
    <3>5. /\ orders[o].traded + v <= told[o].volume /\ v \in 1 .. told[o].volume
          /\ told[o].traded + v = orders[o].traded + v
      BY <3>3, OrderTypes
    <3>6. told' = [told EXCEPT ![o].heard = "trade", ![o].traded = @ + v]
      BY <2>2, <3>3
    <3>7. late' = late
      BY <1>4 DEF Match
    <3> QED
      BY <3>2, <3>4, <3>5, <3>6, <3>7 DEF Life!Trade
  <2> QED
    BY <1>4, <2>1, <2>2 DEF Match
<1>5. ASSUME NEW o \in DOMAIN orders, ReportStatus(o) PROVE Life!Status(o) \/ Life!End(o)
  <2>1. /\ pc = "OnTrade" /\ cur = o /\ Canceled' = Canceled /\ late' = late
        /\ Here("OnTrade", o) /\ told[o].heard = "trade"
    BY <1>5 DEF ReportStatus, book, Canceled, Here, BookInv
  <2>2. /\ told[o].volume = orders[o].volume /\ told[o].traded = orders[o].traded /\ HeardOf(o)
        /\ orders[o].status \in Status
    BY OrderTypes DEF BookInv
  <2>3. CASE orders[o].status = "PartTradedQueueing"
    <3>1. told[o].traded # told[o].volume /\ o \notin late
      BY <2>2, <2>3, OrderTypes DEF HeardOf
    <3> QED
      BY <1>5, <2>1, <2>3, <3>1 DEF ReportStatus, Life!Status
  <2>4. CASE orders[o].status = "AllTraded"
    <3>1. told[o].traded = told[o].volume /\ o \notin late /\ told[o].ends = 0
      BY <2>1, <2>2, <2>4 DEF HeardOf
    <3>2. told' = [told EXCEPT ![o].heard = "all", ![o].ends = 1]
      BY <1>5, <2>4, <3>1 DEF ReportStatus
    <3> QED
      BY <2>1, <3>1, <3>2 DEF Life!Status
  <2>5. CASE orders[o].status = "Canceled"
    <3>1. o \in Canceled /\ o \in late /\ told[o].ends = 0
      BY <2>1, <2>2, <2>5 DEF HeardOf, Here, Canceled
    <3>2. told' = [told EXCEPT ![o].heard = "canceled", ![o].ends = @ + 1]
      BY <1>5, <2>5 DEF ReportStatus
    <3> QED
      BY <2>1, <3>1, <3>2 DEF Life!End
  <2>6. orders[o].status \in {"PartTradedQueueing", "AllTraded", "Canceled"}
    BY <2>1, <2>2 DEF HeardOf, Status
  <2> QED
    BY <2>3, <2>4, <2>5, <2>6
<1>6. ASSUME NEW o \in DOMAIN orders, AfterReport(o) \/ AfterEnd(o) PROVE UNCHANGED Life!life
  BY <1>a, <1>6 DEF AfterReport, AfterEnd, heard
<1>7. ASSUME NEW o \in DOMAIN orders, ReportCanceled(o) PROVE Life!End(o) \/ UNCHANGED Life!life
  <2>1. /\ orders[o].status = "Canceled" /\ o \in list /\ pc = "walk"
        /\ orders' = orders /\ late' = late
    BY <1>7 DEF ReportCanceled, At, book
  <2>2. o \in Canceled /\ Canceled' = Canceled
    BY <2>1 DEF Canceled
  <2>3. HeardOf(o) /\ \A p \in {"OnTrade", "ended"} : ~Here(p, o)
    BY <2>1 DEF BookInv, Here
  <2>4. /\ told[o].ends < 2
        /\ \/ told[o].heard \in {"queueing", "part"}
           \/ o \in late /\ told[o].heard \in {"trade", "all", "canceled"}
    BY <2>1, <2>3 DEF HeardOf
  <2>5. CASE told' = [told EXCEPT ![o].heard = "canceled", ![o].ends = @ + 1]
    BY <2>1, <2>2, <2>4, <2>5 DEF Life!End
  <2> QED
    BY <1>7, <1>a, <2>1, <2>5 DEF ReportCanceled
<1>8. ASSUME NEW v \in Volume, NEW limit \in Price, NEW d \in DataId, MakeOrder(v, limit, d)
      PROVE  \E o \in Order : Life!Place(o, v)
  <2> DEFINE n == Len(orders) + 1
  <2>1. PICK r : orders' = Append(orders, r) /\ r.status = "Unknown"
    BY <1>8 DEF MakeOrder
  <2>2. /\ told' = [told EXCEPT ![n].heard = "nothing", ![n].volume = v]
        /\ late' = late /\ Len(orders) < MaxOrders
    BY <1>8 DEF MakeOrder
  <2>3. Len(orders) \in Nat /\ DOMAIN orders = 1 .. Len(orders)
    BY DEF TypeOK, BookTypeOK
  <2>4. n \in Order \ DOMAIN orders
    BY <2>2, <2>3, KernelAssumption DEF Order
  <2>5. told[n] = Life!Unplaced
    BY <2>4 DEF BookInv
  <2>6. Canceled' = Canceled
    <3>1. /\ DOMAIN orders' = 1 .. n /\ orders'[n] = r
          /\ \A p \in 1 .. Len(orders) : orders'[p] = orders[p]
      BY <2>1, <2>3 DEF TypeOK, BookTypeOK
    <3> QED
      BY <2>1, <2>3, <3>1 DEF Canceled
  <2> QED
    BY <2>2, <2>4, <2>5, <2>6 DEF Life!Place
<1>9. ASSUME NEW o \in Order, CancelOrder(o)
      PROVE  Life!Ask(o) \/ Life!AskLate(o) \/ UNCHANGED Life!life
  <2>1. CASE ~(told[o].heard \notin {"unplaced", "nothing"} /\ o \in list /\ orders[o].status # "Canceled")
    BY <1>9, <1>a, <2>1 DEF CancelOrder, heard
  <2>2. CASE told[o].heard \notin {"unplaced", "nothing"} /\ o \in list /\ orders[o].status # "Canceled"
    <3>1. /\ orders' = [orders EXCEPT ![o].status = "Canceled", ![o].try = Now] /\ told' = told
          /\ late' = IF told[o].heard \in {"trade", "all"} THEN late \cup {o} ELSE late
      BY <1>9, <2>2 DEF CancelOrder
    <3>2. o \in DOMAIN orders
      BY <2>2 DEF TypeOK, BookTypeOK
    <3>3. Canceled' = Canceled \cup {o}
      <4>1. /\ DOMAIN orders' = DOMAIN orders /\ orders'[o].status = "Canceled"
            /\ \A p \in DOMAIN orders : p # o => orders'[p] = orders[p]
        BY <3>1, <3>2, OrderTypes DEF OrderType
      <4> QED
        BY <3>2, <4>1 DEF Canceled
    <3>4. HeardOf(o) /\ orders[o].status \in Status
      BY <3>2, OrderTypes DEF BookInv
    <3>5. o \notin late /\ told[o].heard \in {"queueing", "part", "trade", "all"}
      BY <2>2, <3>4 DEF HeardOf, Status
    <3> QED
      BY <3>1, <3>3, <3>5 DEF Life!Ask, Life!AskLate
  <2> QED
    BY <2>1, <2>2
<1>0. DOMAIN orders \subseteq Order
  BY OrderTypes
<1> QED
  <2>1. CASE NextTick \/ EnterLoop \/ OnEndup \/ Fetch \/ BeginWalk \/ EndWalk \/ UNCHANGED vars
    BY <1>1, <1>2, <2>1
  <2>2. ASSUME NEW o \in DOMAIN orders,
               \/ Enqueue(o) \/ Match(o) \/ ReportStatus(o) \/ AfterReport(o)
               \/ ReportCanceled(o) \/ AfterEnd(o)
        PROVE  Life!LifeNext \/ UNCHANGED Life!life
    BY <1>0, <1>3, <1>4, <1>5, <1>6, <1>7, <2>2 DEF Life!LifeNext
  <2>3. CASE Strategy
    BY <1>8, <1>9, <2>3 DEF Strategy, Life!LifeNext
  <2> QED
    BY <2>1, <2>2, <2>3 DEF Next, StartBackTest

\* The types of OrderLife are kept by its steps.
LEMMA LifeTypes == Life!LifeTypeOK /\ [Life!LifeNext]_(Life!life) => Life!LifeTypeOK'
<1> SUFFICES ASSUME Life!LifeTypeOK, [Life!LifeNext]_(Life!life) PROVE Life!LifeTypeOK'
  OBVIOUS
<1> USE DEF Life!LifeTypeOK
<1>1. ASSUME NEW o \in Order, NEW t \in Life!Told, told' = [told EXCEPT ![o] = t]
      PROVE  told' \in [Order -> Life!Told]
  BY <1>1
<1>2. ASSUME NEW o \in Order, NEW v \in Volume, Life!Place(o, v) PROVE Life!LifeTypeOK'
  <2> DEFINE t == [told[o] EXCEPT !.heard = "nothing", !.volume = v]
  <2>1. t \in Life!Told
    BY DEF Life!Told, Life!Heard
  <2>2. told' = [told EXCEPT ![o] = t]
    BY <1>2 DEF Life!Place
  <2> HIDE DEF t
  <2> QED
    BY <1>1, <1>2, <2>1, <2>2 DEF Life!Place
<1>3. ASSUME NEW o \in Order, NEW v \in 1 .. told[o].volume, Life!Trade(o, v) PROVE Life!LifeTypeOK'
  <2> DEFINE t == [told[o] EXCEPT !.heard = "trade", !.traded = @ + v]
  <2>1. t \in Life!Told
    <3>1. told[o] \in Life!Told
      OBVIOUS
    <3>2. told[o].volume \in Nat /\ told[o].traded \in Nat
      <4>1. Volume \cup {0} \subseteq Nat
        BY KernelAssumption
      <4>2. told[o].volume \in Volume \cup {0} /\ told[o].traded \in Nat
        BY <3>1 DEF Life!Told
      <4> QED
        BY <4>1, <4>2
    <3>3. told[o].traded + v \in Nat
      BY <3>2
    <3> QED
      BY <3>1, <3>3 DEF Life!Told, Life!Heard
  <2>2. told' = [told EXCEPT ![o] = t]
    BY <1>3 DEF Life!Trade
  <2> HIDE DEF t
  <2> QED
    BY <1>1, <1>3, <2>1, <2>2 DEF Life!Trade
<1>4. ASSUME NEW o \in Order, Life!Queue(o) PROVE Life!LifeTypeOK'
  <2> DEFINE t == [told[o] EXCEPT !.heard = "queueing"]
  <2>1. t \in Life!Told
    BY DEF Life!Told, Life!Heard
  <2>2. told' = [told EXCEPT ![o] = t]
    BY <1>4 DEF Life!Queue
  <2> HIDE DEF t
  <2> QED
    BY <1>1, <1>4, <2>1, <2>2 DEF Life!Queue
<1>5. ASSUME NEW o \in Order, Life!Status(o) PROVE Life!LifeTypeOK'
  <2> DEFINE t == IF told[o].traded = told[o].volume
                    THEN [told[o] EXCEPT !.heard = "all", !.ends = 1]
                    ELSE [told[o] EXCEPT !.heard = "part"]
  <2>1. t \in Life!Told
    <3>1. [told[o] EXCEPT !.heard = "all", !.ends = 1] \in Life!Told
      <4>1. 1 \in 0 .. 2 /\ "all" \in Life!Heard /\ told[o] \in Life!Told
        BY DEF Life!Heard
      <4> QED
        BY <4>1 DEF Life!Told
    <3>2. [told[o] EXCEPT !.heard = "part"] \in Life!Told
      BY DEF Life!Told, Life!Heard
    <3> QED
      BY <3>1, <3>2
  <2>2. told' = [told EXCEPT ![o] = t]
    BY <1>5 DEF Life!Status
  <2> HIDE DEF t
  <2> QED
    BY <1>1, <1>5, <2>1, <2>2 DEF Life!Status
<1>6. ASSUME NEW o \in Order, Life!Ask(o) \/ Life!AskLate(o) PROVE Life!LifeTypeOK'
  BY <1>6 DEF Life!Ask, Life!AskLate
<1>7. ASSUME NEW o \in Order, Life!End(o) PROVE Life!LifeTypeOK'
  <2> DEFINE t == [told[o] EXCEPT !.heard = "canceled", !.ends = @ + 1]
  <2>1. t \in Life!Told
    BY <1>7 DEF Life!Told, Life!Heard, Life!End
  <2>2. told' = [told EXCEPT ![o] = t]
    BY <1>7 DEF Life!End
  <2> HIDE DEF t
  <2> QED
    BY <1>1, <1>7, <2>1, <2>2 DEF Life!End
<1>8. CASE UNCHANGED Life!life
  BY <1>8 DEF Life!life
<1> QED
  BY <1>2, <1>3, <1>4, <1>5, <1>6, <1>7, <1>8 DEF Life!LifeNext

LEMMA TypeNext == TypeOK /\ FilesInv /\ BookInv /\ [Next]_vars => TypeOK' /\ FilesInv'
<1> SUFFICES ASSUME TypeOK, FilesInv, BookInv, [Next]_vars PROVE TypeOK' /\ FilesInv'
  OBVIOUS
<1>1. FilesInv' /\ FilesTypeOK'
  BY FilesNext, FilesTypesNext
<1>2. BookTypeOK' /\ WalkTypeOK'
  BY BookTypes
<1>3. Life!LifeTypeOK'
  BY LifeStep, LifeTypes DEF TypeOK
<1> QED
  BY <1>1, <1>2, <1>3 DEF TypeOK

LEMMA BookInit == Init => BookInv
<1> SUFFICES ASSUME Init PROVE BookInv
  OBVIOUS
<1>1. DOMAIN orders = {} /\ pc = "OnInit" /\ late = {} /\ told = [o \in Order |-> Life!Unplaced]
  BY DEF Init
<1> QED
  BY <1>1 DEF BookInv

\* An order of which nothing changes, neither the walk's place at it.
LEMMA HeardKept ==
  ASSUME NEW o \in DOMAIN orders, HeardOf(o),
         told'[o] = told[o], orders'[o].status = orders[o].status,
         o \in list' <=> o \in list, o \in late' <=> o \in late,
         \A p \in {"OnTrade", "reported", "ended"} : Here(p, o)' <=> Here(p, o)
  PROVE  HeardOf(o)'
<1> DEFINE a == Here("OnTrade", o)
           b == Here("reported", o)
           c == Here("ended", o)
<1>1. (a' <=> a) /\ (b' <=> b) /\ (c' <=> c)
  OBVIOUS
<1> HIDE DEF a, b, c
<1> QED
  BY <1>1 DEF HeardOf, a, b, c

BookOf(o) ==
  told[o].volume = orders[o].volume /\ told[o].traded = orders[o].traded /\ HeardOf(o)

PlaceInv ==
  /\ pc \in {"queued", "OnTrade", "reported", "ended"} => cur \in list
  /\ pc = "queued" => told[cur].heard = "queueing"
  /\ pc = "OnTrade" => told[cur].heard = "trade"
  /\ pc = "ended" => orders[cur].status = "Canceled" /\ told[cur].heard = "canceled"

\* A step that changes at most one order.
LEMMA BookOneOrder ==
  ASSUME TypeOK, BookInv, NEW o \in DOMAIN orders,
         DOMAIN orders' = DOMAIN orders,
         \A p \in Order : p # o =>
           /\ told'[p] = told[p] /\ (p \in list' <=> p \in list) /\ (p \in late' <=> p \in late),
         \A p \in DOMAIN orders : p # o => orders'[p] = orders[p],
         pc = "walk" \/ cur = o \/ (pc' = pc /\ cur' = cur),
         pc' = "walk" \/ cur' = o \/ (pc' = pc /\ cur' = cur),
         BookOf(o)', PlaceInv'
  PROVE  BookInv'
<1>1. o \in Order
  BY OrderTypes
<1>2. ASSUME NEW p \in DOMAIN orders, p # o PROVE BookOf(p)'
  <2>1. p \in Order /\ orders'[p] = orders[p] /\ told'[p] = told[p]
    BY <1>2, OrderTypes
  <2>2. \A x \in {"OnTrade", "reported", "ended"} : Here(x, p)' <=> Here(x, p)
    BY <1>2 DEF Here
  <2>3. HeardOf(p) /\ told[p].volume = orders[p].volume /\ told[p].traded = orders[p].traded
    BY DEF BookInv
  <2>4. HeardOf(p)'
    BY <1>2, <2>1, <2>2, <2>3, HeardKept
  <2> QED
    BY <2>1, <2>3, <2>4 DEF BookOf
<1>3. \A p \in DOMAIN orders' : BookOf(p)'
  BY <1>2
<1>4. \A p \in Order \ DOMAIN orders' : told'[p] = Life!Unplaced /\ p \notin late'
  BY DEF BookInv
<1> QED
  BY <1>3, <1>4 DEF BookInv, BookOf, PlaceInv

\* A step that changes no order, in what is said of it here.
LEMMA BookKept ==
  ASSUME TypeOK, BookInv, DOMAIN orders' = DOMAIN orders,
         \A o \in DOMAIN orders :
           /\ orders'[o].status = orders[o].status
           /\ orders'[o].volume = orders[o].volume /\ orders'[o].traded = orders[o].traded,
         list' = list, told' = told, late' = late,
         \/ pc' = pc /\ cur' = cur
         \/ {pc, pc'} \cap {"queued", "OnTrade", "reported", "ended"} = {}
  PROVE  BookInv'
<1>1. ASSUME NEW o \in DOMAIN orders PROVE BookOf(o)'
  <2>1. \A x \in {"OnTrade", "reported", "ended"} : Here(x, o)' <=> Here(x, o)
    BY DEF Here
  <2>2. HeardOf(o)'
    BY <2>1, HeardKept DEF BookInv
  <2> QED
    BY <2>2 DEF BookInv, BookOf
<1>2. PlaceInv'
  BY DEF BookInv, PlaceInv, TypeOK, BookTypeOK
<1> QED
  BY <1>1, <1>2 DEF BookInv, BookOf, PlaceInv

LEMMA BookNext == TypeOK /\ BookInv /\ [Next]_vars => BookInv'
<1> SUFFICES ASSUME TypeOK, BookInv, [Next]_vars PROVE BookInv'
  OBVIOUS
<1>0. list \subseteq DOMAIN orders /\ DOMAIN orders \subseteq Order
  BY OrderTypes DEF TypeOK, BookTypeOK
<1>1. CASE NextTick \/ EnterLoop \/ OnEndup \/ Fetch \/ EndWalk \/ UNCHANGED vars
  <2>1. orders' = orders /\ list' = list /\ told' = told /\ late' = late
    BY <1>1 DEF NextTick, EnterLoop, OnEndup, Fetch, EndWalk, vars, book, heard
  <2>2. \/ pc' = pc /\ cur' = cur
        \/ {pc, pc'} \cap {"queued", "OnTrade", "reported", "ended"} = {}
    BY <1>1 DEF NextTick, EnterLoop, OnEndup, Fetch, EndWalk, vars, walk
  <2> QED
    BY <2>1, <2>2, BookKept
<1>2. CASE BeginWalk
  <2>1. \A o \in DOMAIN orders :
           /\ orders'[o].status = orders[o].status
           /\ orders'[o].volume = orders[o].volume /\ orders'[o].traded = orders[o].traded
    <3> TAKE o \in DOMAIN orders
    <3> DEFINE a == orders[o].active \/ Activated(o)
    <3>1. orders'[o] = [orders[o] EXCEPT !.active = a]
      BY <1>2 DEF BeginWalk
    <3> HIDE DEF a
    <3> QED
      BY <3>1, OrderTypes DEF OrderType
  <2>2. /\ DOMAIN orders' = DOMAIN orders /\ list' = list /\ told' = told /\ late' = late
        /\ pc = "OnTick" /\ pc' \in {"fetch", "walk"}
    BY <1>2 DEF BeginWalk, heard
  <2> QED
    BY <2>1, <2>2, BookKept
<1>a. ASSUME NEW o \in DOMAIN orders, NEW r, orders' = [orders EXCEPT ![o] = r]
      PROVE  /\ DOMAIN orders' = DOMAIN orders /\ orders'[o] = r
             /\ \A p \in DOMAIN orders : p # o => orders'[p] = orders[p]
  BY <1>a
<1>b. ASSUME NEW o \in Order, NEW t, told' = [told EXCEPT ![o] = t]
      PROVE  told'[o] = t /\ \A p \in Order : p # o => told'[p] = told[p]
  BY <1>b, Told
<1>c. ASSUME NEW o \in DOMAIN orders
      PROVE  /\ told[o].volume = orders[o].volume /\ told[o].traded = orders[o].traded
             /\ HeardOf(o) /\ orders[o].status \in Status /\ o \in Order
             /\ told[o] \in [heard : Life!Heard, volume : Volume \cup {0}, traded : Nat, ends : 0 .. 2]
  BY OrderTypes DEF BookInv, Life!Told
<1>3. ASSUME NEW o \in DOMAIN orders, Enqueue(o) PROVE BookInv'
  <2> DEFINE r == [orders[o] EXCEPT !.status = "NoTradeQueueing"]
             t == [told[o] EXCEPT !.heard = "queueing"]
  <2>1. /\ pc = "walk" /\ o \in list /\ orders[o].status = "Unknown"
        /\ cur' = o /\ pc' = "queued" /\ list' = list /\ late' = late
        /\ orders' = [orders EXCEPT ![o] = r] /\ told' = [told EXCEPT ![o] = t]
    BY <1>3 DEF Enqueue, At
  <2>2. /\ r.status = "NoTradeQueueing" /\ r.volume = orders[o].volume /\ r.traded = orders[o].traded
        /\ t.heard = "queueing" /\ t.volume = told[o].volume /\ t.traded = told[o].traded
        /\ t.ends = told[o].ends
    BY <1>c, OrderTypes DEF OrderType
  <2> HIDE DEF r, t
  <2>3. orders'[o] = r /\ told'[o] = t
    BY <1>a, <1>b, <1>c, <2>1
  <2>4. told[o].ends = 0 /\ told[o].traded = 0 /\ o \notin late
    BY <1>c, <2>1 DEF HeardOf
  <2>5. BookOf(o)'
    BY <1>c, <2>1, <2>2, <2>3, <2>4 DEF BookOf, HeardOf
  <2>6. PlaceInv'
    BY <2>1, <2>2, <2>3 DEF PlaceInv
  <2> QED
    BY <1>a, <1>b, <1>c, <2>1, <2>5, <2>6, BookOneOrder
<1>4. ASSUME NEW o \in DOMAIN orders, Match(o) PROVE BookInv'
  <2>0. /\ cur' = o /\ list' = list /\ late' = late
        /\ pc = "walk" \/ (pc = "queued" /\ cur = o)
        /\ pc = "walk" => o \in list /\ orders[o].status \in {"NoTradeQueueing", "PartTradedQueueing"}
    BY <1>4 DEF Match, Matched, At
  <2>1. CASE pc' = "walk" /\ orders' = orders /\ told' = told
    <3>1. BookOf(o)'
      <4>1. ~Here("OnTrade", o) /\ ~Here("reported", o) /\ ~Here("ended", o)
        BY <2>0 DEF Here
      <4>2. ~Here("OnTrade", o)' /\ ~Here("reported", o)' /\ ~Here("ended", o)'
        BY <2>1 DEF Here
      <4>3. HeardOf(o)'
        BY <1>c, <2>0, <2>1, <4>1, <4>2, HeardKept
      <4> QED
        BY <1>c, <2>1, <4>3 DEF BookOf
    <3>2. PlaceInv'
      BY <2>1 DEF PlaceInv
    <3> QED
      BY <2>0, <2>1, <3>1, <3>2, BookOneOrder
  <2>2. ASSUME NEW v \in 1 .. orders[o].volume - orders[o].traded,
               orders' = [orders EXCEPT ![o].traded = orders[o].traded + v,
                            ![o].status = IF orders[o].traded + v = orders[o].volume
                                            THEN "AllTraded" ELSE "PartTradedQueueing"],
               told' = [told EXCEPT ![o].heard = "trade", ![o].traded = orders[o].traded + v],
               pc' = "OnTrade"
        PROVE  BookInv'
    <3> DEFINE n == orders[o].traded + v
               status == IF n = orders[o].volume THEN "AllTraded" ELSE "PartTradedQueueing"
               r == [orders[o] EXCEPT !.traded = n, !.status = status]
               t == [told[o] EXCEPT !.heard = "trade", !.traded = n]
    <3>1. orders' = [orders EXCEPT ![o] = r] /\ told' = [told EXCEPT ![o] = t]
      BY <2>2
    <3>2. /\ n \in Nat /\ n <= orders[o].volume /\ orders[o].volume \in Nat
          /\ n = orders[o].volume => status = "AllTraded"
          /\ n # orders[o].volume => status = "PartTradedQueueing"
      BY OrderTypes
    <3> HIDE DEF n, status
    <3>3. /\ r.status = status /\ r.volume = orders[o].volume /\ r.traded = n
          /\ t.heard = "trade" /\ t.volume = told[o].volume /\ t.traded = n
          /\ t.ends = told[o].ends
      BY <1>c, OrderTypes DEF OrderType
    <3> HIDE DEF r, t
    <3>4. orders'[o] = r /\ told'[o] = t
      BY <1>a, <1>b, <1>c, <3>1
    <3>5. told[o].ends = 0 /\ o \notin late /\ o \in list
      <4>1. CASE pc = "walk"
        BY <1>c, <2>0, <4>1 DEF HeardOf
      <4>2. CASE pc = "queued" /\ cur = o
        <5>1. told[o].heard = "queueing" /\ o \in list
          BY <4>2 DEF BookInv
        <5>2. ~Here("OnTrade", o)
          BY <4>2 DEF Here
        <5>3. HeardOf(o) /\ orders[o].status \in Status
          BY <1>c
        <5> QED
          BY <5>1, <5>2, <5>3 DEF HeardOf, Status
      <4> QED
        BY <2>0, <4>1, <4>2
    <3>6. Here("OnTrade", o)'
      BY <2>0, <2>2 DEF Here
    <3>7. BookOf(o)'
      <4>1. CASE n = orders[o].volume
        BY <1>c, <2>0, <3>2, <3>3, <3>4, <3>5, <3>6, <4>1 DEF BookOf, HeardOf
      <4>2. CASE n # orders[o].volume
        <5>1. t.traded < t.volume
          BY <1>c, <3>2, <3>3, <4>2
        <5> QED
          BY <1>c, <2>0, <3>2, <3>3, <3>4, <3>5, <3>6, <4>2, <5>1 DEF BookOf, HeardOf
      <4> QED
        BY <4>1, <4>2
    <3>8. PlaceInv'
      BY <2>0, <2>2, <3>3, <3>4, <3>5 DEF PlaceInv
    <3> QED
      BY <1>a, <1>b, <1>c, <2>0, <3>1, <3>7, <3>8, BookOneOrder
  <2> QED
    BY <1>4, <2>1, <2>2 DEF Match
<1>5. ASSUME NEW o \in DOMAIN orders, ReportStatus(o) PROVE BookInv'
  <2>0. /\ pc = "OnTrade" /\ cur = o /\ pc' = "reported" /\ cur' = cur
        /\ orders' = orders /\ list' = list /\ late' = late
    BY <1>5 DEF ReportStatus, book
  <2>1. Here("OnTrade", o) /\ o \in list /\ told[o].heard = "trade" /\ ~Here("ended", o)
    BY <2>0 DEF Here, BookInv
  <2>2. ~Here("OnTrade", o)' /\ Here("reported", o)' /\ ~Here("ended", o)'
    BY <2>0 DEF Here
  <2>3. PlaceInv'
    BY <2>0, <2>1 DEF PlaceInv
  <2>4. HeardOf(o) /\ orders[o].status \in {"PartTradedQueueing", "AllTraded", "Canceled"}
    BY <1>c, <2>1 DEF HeardOf, Status
  <2>5. PICK t : /\ told' = [told EXCEPT ![o] = t]
                 /\ t.volume = told[o].volume /\ t.traded = told[o].traded
                 /\ orders[o].status = "PartTradedQueueing" =>
                      t.heard = "part" /\ t.ends = told[o].ends
                 /\ orders[o].status # "PartTradedQueueing" =>
                      /\ t.heard = IF orders[o].status = "AllTraded" THEN "all" ELSE "canceled"
                      /\ t.ends = told[o].ends + 1
    <3>1. CASE orders[o].status = "PartTradedQueueing"
      <4> DEFINE u == [told[o] EXCEPT !.heard = "part"]
      <4>1. told' = [told EXCEPT ![o] = u]
        BY <1>5, <3>1 DEF ReportStatus
      <4>2. /\ u.volume = told[o].volume /\ u.traded = told[o].traded /\ u.heard = "part"
            /\ u.ends = told[o].ends
        BY <1>c
      <4> HIDE DEF u
      <4> QED
        BY <3>1, <4>1, <4>2
    <3>2. CASE orders[o].status # "PartTradedQueueing"
      <4> DEFINE h == IF orders[o].status = "AllTraded" THEN "all" ELSE "canceled"
                 u == [told[o] EXCEPT !.heard = h, !.ends = @ + 1]
      <4>1. told' = [told EXCEPT ![o] = u]
        BY <1>5, <3>2 DEF ReportStatus
      <4> HIDE DEF h
      <4>2. /\ u.volume = told[o].volume /\ u.traded = told[o].traded /\ u.heard = h
            /\ u.ends = told[o].ends + 1
        BY <1>c
      <4> HIDE DEF u
      <4> QED
        BY <3>2, <4>1, <4>2 DEF h
    <3> QED
      BY <3>1, <3>2
  <2>6. told'[o] = t /\ \A p \in Order : p # o => told'[p] = told[p]
    BY <1>b, <1>c, <2>5
  <2>7. HeardOf(o)'
    <3>1. CASE orders[o].status = "PartTradedQueueing"
      BY <2>0, <2>1, <2>2, <2>4, <2>5, <2>6, <3>1 DEF HeardOf
    <3>2. CASE orders[o].status = "AllTraded"
      BY <2>0, <2>1, <2>2, <2>4, <2>5, <2>6, <3>2 DEF HeardOf
    <3>3. CASE orders[o].status = "Canceled"
      BY <2>0, <2>1, <2>2, <2>4, <2>5, <2>6, <3>3 DEF HeardOf
    <3> QED
      BY <2>4, <3>1, <3>2, <3>3
  <2>8. BookOf(o)'
    BY <1>c, <2>0, <2>5, <2>6, <2>7 DEF BookOf
  <2> QED
    BY <2>0, <2>3, <2>6, <2>8, BookOneOrder
<1>6. ASSUME NEW o \in DOMAIN orders, AfterReport(o) PROVE BookInv'
  <2>0. /\ pc = "reported" /\ cur = o /\ pc' = "walk" /\ cur' = cur
        /\ orders' = orders /\ told' = told /\ late' = late
        /\ list' = IF orders[o].status = "AllTraded" THEN list \ {o} ELSE list
    BY <1>6 DEF AfterReport, heard
  <2>1. Here("reported", o) /\ ~Here("OnTrade", o) /\ ~Here("ended", o)
    BY <2>0 DEF Here
  <2>2. ~Here("OnTrade", o)' /\ ~Here("reported", o)' /\ ~Here("ended", o)'
    BY <2>0 DEF Here
  <2>3. HeardOf(o)'
    <3>1. CASE orders[o].status = "AllTraded"
      BY <1>c, <2>0, <2>1, <2>2, <3>1 DEF HeardOf
    <3>2. CASE orders[o].status # "AllTraded"
      BY <1>c, <2>0, <2>1, <2>2, <3>2 DEF HeardOf
    <3> QED
      BY <3>1, <3>2
  <2>4. PlaceInv' /\ BookOf(o)'
    BY <1>c, <2>0, <2>3 DEF BookOf, PlaceInv
  <2> QED
    BY <2>0, <2>4, BookOneOrder
<1>7. ASSUME NEW o \in DOMAIN orders, AfterEnd(o) PROVE BookInv'
  <2>0. /\ pc = "ended" /\ cur = o /\ pc' = "walk" /\ cur' = cur
        /\ orders' = orders /\ told' = told /\ late' = late /\ list' = list \ {o}
    BY <1>7 DEF AfterEnd, heard
  <2>1. orders[o].status = "Canceled" /\ o \in list
    BY <2>0 DEF BookInv
  <2>2. told[o].heard = "canceled"
    BY <2>0 DEF BookInv
  <2>3. HeardOf(o)'
    <3>1. HeardOf(o) /\ Here("ended", o) /\ ~Here("reported", o) /\ ~Here("OnTrade", o)
      BY <1>c, <2>0 DEF Here
    <3>2. told[o].ends = IF o \in late THEN 2 ELSE 1
      BY <2>1, <2>2, <3>1 DEF HeardOf
    <3> QED
      BY <2>0, <2>1, <2>2, <3>2 DEF HeardOf
  <2>4. PlaceInv' /\ BookOf(o)'
    BY <1>c, <2>0, <2>3 DEF BookOf, PlaceInv
  <2> QED
    BY <2>0, <2>4, BookOneOrder
<1>8. ASSUME NEW o \in DOMAIN orders, ReportCanceled(o) PROVE BookInv'
  <2>0. /\ pc = "walk" /\ o \in list /\ orders[o].status = "Canceled" /\ cur' = o
        /\ orders' = orders /\ list' = list /\ late' = late
    BY <1>8 DEF ReportCanceled, At, book
  <2>1. ~Here("OnTrade", o) /\ ~Here("reported", o) /\ ~Here("ended", o)
    BY <2>0 DEF Here
  <2>2. CASE pc' = "ended" /\ told' = [told EXCEPT ![o].heard = "canceled", ![o].ends = @ + 1]
    <3> DEFINE t == [told[o] EXCEPT !.heard = "canceled", !.ends = @ + 1]
    <3>1. /\ t.volume = told[o].volume /\ t.traded = told[o].traded
          /\ t.heard = "canceled" /\ t.ends = told[o].ends + 1
      BY <1>c
    <3>2. told' = [told EXCEPT ![o] = t]
      BY <2>2
    <3> HIDE DEF t
    <3>3. told'[o] = t /\ \A p \in Order : p # o => told'[p] = told[p]
      BY <1>b, <1>c, <3>2
    <3>4. Here("ended", o)'
      BY <2>0, <2>2 DEF Here
    <3>5. HeardOf(o)'
      <4>1. told[o].ends = IF o \in late THEN 1 ELSE 0
        BY <1>c, <2>0, <2>1 DEF HeardOf
      <4>2. t.ends = IF o \in late THEN 2 ELSE 1
        BY <3>1, <4>1
      <4> QED
        BY <2>0, <3>1, <3>3, <3>4, <4>2 DEF HeardOf
    <3>6. PlaceInv' /\ BookOf(o)'
      BY <1>c, <2>0, <2>2, <3>1, <3>3, <3>5 DEF BookOf, PlaceInv
    <3> QED
      BY <2>0, <3>3, <3>6, BookOneOrder
  <2>3. CASE pc' = pc /\ told' = told
    <3>1. ~Here("OnTrade", o)' /\ ~Here("reported", o)' /\ ~Here("ended", o)'
      BY <2>0, <2>3 DEF Here
    <3>2. HeardOf(o)'
      BY <1>c, <2>0, <2>1, <2>3, <3>1, HeardKept
    <3>3. PlaceInv' /\ BookOf(o)'
      BY <1>c, <2>0, <2>3, <3>2 DEF BookOf, PlaceInv
    <3> QED
      BY <2>0, <2>3, <3>3, BookOneOrder
  <2> QED
    BY <1>8, <2>2, <2>3 DEF ReportCanceled
<1>9. ASSUME NEW v \in Volume, NEW limit \in Price, NEW d \in DataId, MakeOrder(v, limit, d)
      PROVE  BookInv'
  <2>0. PICK n : n = Len(orders) + 1
    OBVIOUS
  <2> DEFINE t == [told[n] EXCEPT !.heard = "nothing", !.volume = v]
  <2>1. PICK r : /\ orders' = Append(orders, r) /\ r.status = "Unknown" /\ r.volume = v /\ r.traded = 0
    BY <1>9 DEF MakeOrder
  <2>2. /\ told' = [told EXCEPT ![n] = t] /\ list' = list \cup {n}
        /\ late' = late /\ Len(orders) < MaxOrders /\ pc' = pc /\ cur' = cur
    BY <1>9, <2>0 DEF MakeOrder, walk
  <2>3. Len(orders) \in Nat /\ DOMAIN orders = 1 .. Len(orders)
    BY DEF TypeOK, BookTypeOK
  <2>4. n \in Order \ DOMAIN orders
    BY <2>0, <2>2, <2>3, KernelAssumption DEF Order
  <2>5. told[n] = Life!Unplaced /\ n \notin late
    BY <2>4 DEF BookInv
  <2>6. t.heard = "nothing" /\ t.volume = v /\ t.traded = 0 /\ t.ends = 0
    BY <2>5 DEF Life!Unplaced
  <2> HIDE DEF t
  <2>7. /\ DOMAIN orders' = DOMAIN orders \cup {n} /\ orders'[n] = r
        /\ \A p \in DOMAIN orders : orders'[p] = orders[p]
    BY <2>0, <2>1, <2>3 DEF TypeOK, BookTypeOK
  <2>8. told'[n] = t /\ \A p \in Order : p # n => told'[p] = told[p]
    BY <1>b, <2>2, <2>4
  <2>9. BookOf(n)'
    <3>1. /\ orders'[n].status = "Unknown" /\ orders'[n].volume = v /\ orders'[n].traded = 0
          /\ told'[n].heard = "nothing" /\ told'[n].volume = v /\ told'[n].traded = 0
          /\ told'[n].ends = 0 /\ n \in list' /\ n \notin late'
      BY <2>1, <2>2, <2>5, <2>6, <2>7, <2>8
    <3>2. HeardOf(n)'
      BY <3>1 DEF HeardOf
    <3> QED
      BY <3>1, <3>2 DEF BookOf
  <2>10. ASSUME NEW p \in DOMAIN orders PROVE BookOf(p)'
    <3>1. p # n /\ p \in Order
      BY <1>0, <2>4
    <3>2. \A x \in {"OnTrade", "reported", "ended"} : Here(x, p)' <=> Here(x, p)
      BY <2>2 DEF Here
    <3>3. HeardOf(p)'
      BY <1>c, <2>2, <2>7, <2>8, <3>1, <3>2, HeardKept
    <3> QED
      BY <1>c, <2>7, <2>8, <3>1, <3>3 DEF BookOf
  <2>11. PlaceInv'
    <3>1. cur \in list => cur # n /\ cur \in DOMAIN orders /\ cur \in Order
      BY <1>0, <2>4
    <3> QED
      BY <2>2, <2>7, <2>8, <3>1 DEF BookInv, PlaceInv
  <2>12. \A p \in Order \ DOMAIN orders' : told'[p] = Life!Unplaced /\ p \notin late'
    BY <2>2, <2>7, <2>8 DEF BookInv
  <2>13. \A p \in DOMAIN orders' : BookOf(p)'
    BY <2>7, <2>9, <2>10
  <2> QED
    BY <2>11, <2>12, <2>13 DEF BookInv, BookOf, PlaceInv
<1>10. ASSUME NEW o \in Order, CancelOrder(o) PROVE BookInv'
  <2>0. pc' = pc /\ cur' = cur /\ list' = list
    BY <1>10 DEF CancelOrder, walk
  <2>1. CASE ~(told[o].heard \notin {"unplaced", "nothing"} /\ o \in list /\ orders[o].status # "Canceled")
    <3>1. orders' = orders /\ told' = told /\ late' = late
      BY <1>10, <2>1 DEF CancelOrder, heard
    <3> QED
      BY <2>0, <3>1, BookKept
  <2>2. CASE told[o].heard \notin {"unplaced", "nothing"} /\ o \in list /\ orders[o].status # "Canceled"
    <3> DEFINE r == [orders[o] EXCEPT !.status = "Canceled", !.try = Now]
    <3>1. /\ orders' = [orders EXCEPT ![o] = r] /\ told' = told
          /\ late' = IF told[o].heard \in {"trade", "all"} THEN late \cup {o} ELSE late
      BY <1>10, <2>2 DEF CancelOrder
    <3>2. o \in DOMAIN orders
      BY <1>0, <2>2
    <3>3. r.status = "Canceled" /\ r.volume = orders[o].volume /\ r.traded = orders[o].traded
      BY <3>2, OrderTypes DEF OrderType
    <3> HIDE DEF r
    <3>4. DOMAIN orders' = DOMAIN orders /\ orders'[o] = r
          /\ \A p \in DOMAIN orders : p # o => orders'[p] = orders[p]
      BY <1>a, <3>1, <3>2
    <3>5. \A x \in {"OnTrade", "reported", "ended"} : Here(x, o)' <=> Here(x, o)
      BY <2>0 DEF Here
    <3>6. HeardOf(o) /\ orders[o].status \in Status
      BY <1>c, <3>2
    <3>7. HeardOf(o)'
      <4>1. CASE orders[o].status = "NoTradeQueueing"
        BY <2>0, <2>2, <3>1, <3>3, <3>4, <3>5, <3>6, <4>1 DEF HeardOf
      <4>2. CASE orders[o].status = "PartTradedQueueing"
        BY <2>0, <2>2, <3>1, <3>3, <3>4, <3>5, <3>6, <4>2 DEF HeardOf
      <4>3. CASE orders[o].status = "AllTraded"
        <5>1. ~Here("ended", o)
          BY <4>3 DEF BookInv, Here
        <5> QED
          BY <2>0, <2>2, <3>1, <3>3, <3>4, <3>5, <3>6, <4>3, <5>1 DEF HeardOf
      <4> QED
        BY <2>2, <3>6, <4>1, <4>2, <4>3 DEF HeardOf, Status
    <3>8. PlaceInv'
      BY <1>0, <2>0, <3>1, <3>3, <3>4 DEF BookInv, PlaceInv
    <3>9. BookOf(o)'
      BY <1>c, <3>1, <3>2, <3>3, <3>4, <3>7 DEF BookOf
    <3> QED
      BY <2>0, <3>1, <3>2, <3>4, <3>8, <3>9, BookOneOrder
  <2> QED
    BY <2>1, <2>2
<1> QED
  BY <1>1, <1>2, <1>3, <1>4, <1>5, <1>6, <1>7, <1>8, <1>9, <1>10
  DEF Next, StartBackTest, Strategy
-----------------------------------------------------------------------------
(* The walk                                                                *)

\* A tick is with the strategy, or the walk for it is under way.
Walking == pc \notin {"OnInit", "next", "done"}

\* An active order has waited for long enough, at this tick and at all to come.
DueOf(o) ==
  orders[o].active =>
    /\ Walking => Now >= orders[o].time + config.submit
    /\ \A e \in DataId : delivered[e] < Len(TickFiles[e]) =>
         TickFiles[e][delivered[e] + 1].time >= orders[o].time + config.submit

\* An order that was not enqueued is of this tick, or of the first one, and the
\* walk will come to it.
FreshOf(o) ==
  orders[o].status = "Unknown" =>
    /\ orders[o].time = Now
    /\ orders[o].active => config.submit = 0
    /\ \/ pc \in {"OnInit", "next"} /\ que = DataId /\ First(top)
       \/ pc = "OnTick"
       \/ pc \in {"walk", "queued", "OnTrade", "reported", "ended"} /\ (cur < o \/ newOrder)

\* In the first walk of a tick no order has taken from it that is still to come.
TakenInv ==
  /\ pc \in {"OnInit", "OnTick"} => \A o \in Order : taken[o] = 0
  /\ ~repeated /\ pc \in {"walk", "queued", "OnTrade", "reported", "ended"} =>
       \A o \in Order : cur < o \/ (pc = "queued" /\ cur = o) => taken[o] = 0
  /\ OffersTakenOnce

\* The order in whose callback the strategy is was enqueued, and is active at
\* once only without a delay.
AtOrder ==
  /\ pc \in {"queued", "OnTrade", "reported", "ended"} => orders[cur].status # "Unknown"
  /\ pc = "queued" /\ orders[cur].active => config.submit = 0

WalkInv ==
  /\ \A o \in DOMAIN orders : DueOf(o) /\ FreshOf(o)
  /\ pc = "OnInit" => que = DataId /\ First(top)
  /\ AtOrder
  /\ TakenInv

InWalk == {"walk", "queued", "OnTrade", "reported", "ended"}

\* The steps at an order the walk has come to.
WalkStep(o) ==
  \/ Enqueue(o) \/ Match(o) \/ ReportStatus(o) \/ AfterReport(o)
  \/ ReportCanceled(o) \/ AfterEnd(o)

LEMMA WalkStepKeeps ==
  ASSUME NEW o \in DOMAIN orders, WalkStep(o)
  PROVE  /\ UNCHANGED <<config, files, repeated, flags>>
         /\ pc \in InWalk /\ pc' \in InWalk /\ cur' = o /\ (At(o) \/ cur = o)
<1> USE DEF WalkStep, InWalk
<1>1. UNCHANGED <<config, files, repeated, flags>>
  BY DEF Enqueue, Match, ReportStatus, AfterReport, ReportCanceled, AfterEnd
<1>2. pc \in InWalk /\ (At(o) \/ cur = o)
  BY DEF Enqueue, Match, ReportStatus, AfterReport, ReportCanceled, AfterEnd, Matched, At
<1>3. pc' \in InWalk /\ cur' = o
  <2>1. CASE Match(o)
    BY <2>1 DEF Match
  <2>2. CASE ~Match(o)
    BY <2>2, <1>2 DEF Enqueue, ReportStatus, AfterReport, ReportCanceled, AfterEnd
  <2> QED
    BY <2>1, <2>2
<1> QED
  BY <1>1, <1>2, <1>3

\* What a step of the walk may change of an order is its status and what it
\* has traded, and of the order the walk is at only.
LEMMA WalkStepOrders ==
  ASSUME TypeOK, NEW o \in DOMAIN orders, WalkStep(o)
  PROVE  /\ DOMAIN orders' = DOMAIN orders
         /\ \A p \in DOMAIN orders :
              /\ orders'[p].time = orders[p].time /\ orders'[p].active = orders[p].active
              /\ orders'[p].limit = orders[p].limit
              /\ p # o => orders'[p] = orders[p]
<1>1. CASE orders' = orders
  BY <1>1
<1>2. CASE Enqueue(o)
  <2> DEFINE r == [orders[o] EXCEPT !.status = "NoTradeQueueing"]
  <2>1. orders' = [orders EXCEPT ![o] = r]
    BY <1>2 DEF Enqueue
  <2>2. /\ r.time = orders[o].time /\ r.active = orders[o].active /\ r.limit = orders[o].limit
        /\ r \in OrderType
    BY OrderTypes DEF OrderType, Status
  <2> HIDE DEF r
  <2> QED
    BY <2>1, <2>2, ChangeOrder DEF TypeOK, BookTypeOK
<1>3. CASE Match(o) /\ orders' # orders
  <2>1. PICK v \in 1 .. orders[o].volume - orders[o].traded :
          orders' = [orders EXCEPT ![o].traded = orders[o].traded + v,
                       ![o].status = IF orders[o].traded + v = orders[o].volume THEN "AllTraded"
                                     ELSE "PartTradedQueueing"]
    BY <1>3 DEF Match
  <2> DEFINE s == IF orders[o].traded + v = orders[o].volume THEN "AllTraded"
                  ELSE "PartTradedQueueing"
             r == [orders[o] EXCEPT !.traded = orders[o].traded + v, !.status = s]
  <2>2. orders' = [orders EXCEPT ![o] = r]
    BY <2>1
  <2>3. orders[o].traded + v \in Nat /\ s \in Status
    BY OrderTypes DEF Status
  <2> HIDE DEF s
  <2>4. /\ r.time = orders[o].time /\ r.active = orders[o].active /\ r.limit = orders[o].limit
        /\ r \in OrderType
    BY <2>3, OrderTypes DEF OrderType
  <2> HIDE DEF r
  <2> QED
    BY <2>2, <2>4, ChangeOrder DEF TypeOK, BookTypeOK
<1> QED
  BY <1>1, <1>2, <1>3 DEF WalkStep, ReportStatus, AfterReport, ReportCanceled, AfterEnd, book

\* A cancellation by the strategy changes the status of an order.
LEMMA CancelOrders ==
  ASSUME TypeOK, NEW o \in Order, CancelOrder(o)
  PROVE  /\ UNCHANGED <<config, files, walk, list, newOrder, taken>> /\ pc \in Callback
         /\ DOMAIN orders' = DOMAIN orders
         /\ \A p \in DOMAIN orders :
              /\ orders'[p].time = orders[p].time /\ orders'[p].active = orders[p].active
              /\ orders'[p].limit = orders[p].limit /\ orders'[p].traded = orders[p].traded
              /\ orders'[p].status = orders[p].status \/ orders'[p].status = "Canceled"
<1>1. UNCHANGED <<config, files, walk, list, newOrder, taken>> /\ pc \in Callback
  BY DEF CancelOrder
<1>2. CASE orders' = orders
  BY <1>1, <1>2
<1>3. CASE orders' # orders
  <2> DEFINE r == [orders[o] EXCEPT !.status = "Canceled", !.try = Now]
  <2>1. orders' = [orders EXCEPT ![o] = r] /\ o \in list
    BY <1>3 DEF CancelOrder
  <2>2. o \in DOMAIN orders
    BY <2>1 DEF TypeOK, BookTypeOK
  <2>3. Now \in Nat
    BY TickHasTime, FirstTick DEF TypeOK, FilesTypeOK, Now, Tick
  <2>4. /\ r.time = orders[o].time /\ r.active = orders[o].active /\ r.limit = orders[o].limit
        /\ r.traded = orders[o].traded /\ r.status = "Canceled" /\ r \in OrderType
    BY <2>2, <2>3, OrderTypes DEF OrderType, Status
  <2> HIDE DEF r
  <2> QED
    BY <1>1, <2>1, <2>2, <2>4, ChangeOrder DEF TypeOK, BookTypeOK
<1> QED
  BY <1>2, <1>3

\* The order that a strategy places is the last one.
LEMMA NewOrders ==
  ASSUME TypeOK, NEW v \in Volume, NEW limit \in Price, NEW d \in DataId, MakeOrder(v, limit, d)
  PROVE  \E n \in Order :
           /\ n = Len(orders) + 1 /\ n \notin DOMAIN orders
           /\ DOMAIN orders' = DOMAIN orders \cup {n}
           /\ orders'[n].time = Now /\ orders'[n].active = FALSE /\ orders'[n].traded = 0
           /\ \A p \in DOMAIN orders : orders'[p] = orders[p]
<1> DEFINE n == Len(orders) + 1
<1>1. PICK r : /\ orders' = Append(orders, r) /\ r.time = Now /\ r.active = FALSE /\ r.traded = 0
               /\ Len(orders) < MaxOrders
  BY DEF MakeOrder
<1>2. Len(orders) \in Nat /\ DOMAIN orders = 1 .. Len(orders) /\ orders \in Seq(OrderType)
  BY DEF TypeOK, BookTypeOK
<1> HIDE DEF OrderType
<1>3. n \in Order
  BY <1>1, <1>2, KernelAssumption DEF Order
<1>4. n \notin DOMAIN orders /\ DOMAIN orders' = DOMAIN orders \cup {n} /\ orders'[n] = r
      /\ \A p \in DOMAIN orders : orders'[p] = orders[p]
  BY <1>1, <1>2
<1> QED
  BY <1>1, <1>3, <1>4

\* The walk begins: the orders that have waited for long enough become active.
LEMMA BeginOrders ==
  ASSUME TypeOK, BeginWalk
  PROVE  /\ UNCHANGED <<config, files, repeated, list, taken>> /\ pc = "OnTick"
         /\ list = {} => pc' = "fetch" /\ newOrder' = newOrder
         /\ list # {} => pc' = "walk" /\ cur' = 0
         /\ DOMAIN orders' = DOMAIN orders
         /\ \A p \in DOMAIN orders :
              /\ orders'[p].time = orders[p].time /\ orders'[p].limit = orders[p].limit
              /\ orders'[p].status = orders[p].status /\ orders'[p].traded = orders[p].traded
              /\ orders'[p].active =>
                   orders[p].active \/ Now >= orders[p].time + config.submit
<1>1. /\ UNCHANGED <<config, files, repeated, list, taken>> /\ pc = "OnTick"
      /\ list = {} => pc' = "fetch" /\ newOrder' = newOrder
      /\ list # {} => pc' = "walk" /\ cur' = 0
  BY DEF BeginWalk, flags
<1>2. DOMAIN orders' = DOMAIN orders
  BY DEF BeginWalk
<1>3. ASSUME NEW p \in DOMAIN orders
      PROVE  /\ orders'[p].time = orders[p].time /\ orders'[p].limit = orders[p].limit
             /\ orders'[p].status = orders[p].status /\ orders'[p].traded = orders[p].traded
             /\ orders'[p].active =>
                  orders[p].active \/ Now >= orders[p].time + config.submit
  <2> DEFINE a == orders[p].active \/ Activated(p)
  <2>1. orders'[p] = [orders[p] EXCEPT !.active = a]
    BY DEF BeginWalk
  <2>2. a => orders[p].active \/ Now >= orders[p].time + config.submit
    BY DEF Activated
  <2> HIDE DEF a
  <2> QED
    BY <2>1, <2>2, OrderTypes DEF OrderType
<1> QED
  BY <1>1, <1>2, <1>3

\* The other steps leave the orders alone.
LEMMA OtherOrders ==
  ASSUME NextTick \/ EnterLoop \/ OnEndup \/ Fetch \/ EndWalk \/ UNCHANGED vars
  PROVE  UNCHANGED <<config, orders, list>>
BY DEF NextTick, EnterLoop, OnEndup, Fetch, EndWalk, vars, book

\* The kinds of steps.
LEMMA Steps ==
  ASSUME [Next]_vars
  PROVE  \/ NextTick \/ EnterLoop \/ OnEndup \/ Fetch \/ EndWalk \/ UNCHANGED vars
         \/ BeginWalk \/ (\E o \in DOMAIN orders : WalkStep(o))
         \/ (\E v \in Volume, limit \in Price, d \in DataId : MakeOrder(v, limit, d))
         \/ (\E o \in Order : CancelOrder(o))
BY DEF Next, StartBackTest, Strategy, WalkStep

\* The ticks that are dealt with here have times.
LEMMA Times ==
  ASSUME TypeOK
  PROVE  /\ Now \in Nat /\ top \in DataId /\ config.submit \in Nat
         /\ \A d \in DataId : /\ Len(TickFiles[d]) \in Nat /\ delivered[d] \in Nat
                              /\ Tick(d).time \in Nat
         /\ \A d \in DataId : delivered[d] < Len(TickFiles[d]) =>
              TickFiles[d][delivered[d] + 1].time \in Nat
         /\ \A o \in DOMAIN orders : orders[o].time \in Nat
<1> USE DEF TypeOK, FilesTypeOK
<1>1. \A d \in DataId : /\ Len(TickFiles[d]) \in Nat /\ delivered[d] \in Nat
                        /\ pos[d] \in 1 .. Len(TickFiles[d])
  BY FirstTick
<1>2. \A d \in DataId : Tick(d).time \in Nat
  BY <1>1, TickHasTime DEF Tick
<1>3. \A d \in DataId : delivered[d] < Len(TickFiles[d]) =>
        TickFiles[d][delivered[d] + 1].time \in Nat
  BY <1>1, TickHasTime
<1>4. Now \in Nat /\ top \in DataId
  BY <1>2 DEF Now
<1>5. config.submit \in Nat
  BY KernelAssumption
<1>6. \A o \in DOMAIN orders : orders[o].time \in Nat
  BY OrderTypes DEF OrderType
<1> QED
  BY <1>1, <1>2, <1>3, <1>4, <1>5, <1>6

\* The tick that is next in a file is delivered.
LEMMA NextTickTime ==
  ASSUME TypeOK, FilesInv, NextTick
  PROVE  \E f \in que :
           /\ f \in DataId /\ First(f) /\ top' = f /\ pc = "next" /\ pc' = "OnTick"
           /\ delivered[f] < Len(TickFiles[f]) /\ delivered'[f] = delivered[f] + 1
           /\ Now' = TickFiles[f][delivered[f] + 1].time /\ Now' = Tick(f).time
           /\ \A e \in DataId : e # f => delivered'[e] = delivered[e]
           /\ \A o \in Order : taken'[o] = 0
<1>1. PICK f \in que : /\ First(f) /\ top' = f
                       /\ delivered' = [delivered EXCEPT ![f] = @ + 1]
  BY DEF NextTick
<1>2. /\ f \in DataId /\ delivered \in [DataId -> Nat]
      /\ pos[f] \in 1 .. Len(TickFiles[f]) /\ Len(TickFiles[f]) \in Nat
  BY FirstTick DEF TypeOK, FilesTypeOK
<1>3. /\ pc = "next" /\ pc' = "OnTick" /\ UNCHANGED pos
      /\ taken' = [o \in Order |-> 0]
  BY DEF NextTick
<1>4. delivered[f] = pos[f] - 1
  BY <1>2 DEF FilesInv, FileInv
<1>5. delivered'[f] = delivered[f] + 1 /\ \A e \in DataId : e # f => delivered'[e] = delivered[e]
  BY <1>1, <1>2
<1>6. pos[f] = delivered[f] + 1 /\ delivered[f] < Len(TickFiles[f])
  BY <1>2, <1>4
<1>7. Now' = TickFiles[f][pos[f]].time /\ Now' = Tick(f).time
  BY <1>1, <1>3 DEF Now, Tick
<1> QED
  BY <1>1, <1>2, <1>3, <1>5, <1>6, <1>7

LEMMA DueNext ==
  ASSUME TypeOK, FilesInv, \A o \in DOMAIN orders : DueOf(o), [Next]_vars, TypeOK'
  PROVE  \A o \in DOMAIN orders' : DueOf(o)'
<1> DEFINE Same(o) == /\ o \in DOMAIN orders /\ orders'[o].time = orders[o].time
                      /\ orders'[o].active => orders[o].active
<1>1. ASSUME config' = config, delivered' = delivered, Walking' => Walking /\ Now' = Now,
             NEW o, Same(o)
      PROVE  DueOf(o)'
  BY <1>1 DEF DueOf
<1>2. CASE NextTick
  <2>1. PICK f \in que :
           /\ f \in DataId /\ delivered[f] < Len(TickFiles[f])
           /\ delivered'[f] = delivered[f] + 1
           /\ Now' = TickFiles[f][delivered[f] + 1].time
           /\ \A e \in DataId : e # f => delivered'[e] = delivered[e]
    BY <1>2, NextTickTime
  <2>2. UNCHANGED <<config, orders>>
    BY <1>2, OtherOrders
  <2>3. ASSUME NEW o \in DOMAIN orders, orders[o].active
        PROVE  /\ Now' >= orders[o].time + config.submit
               /\ \A e \in DataId : delivered'[e] < Len(TickFiles[e]) =>
                    TickFiles[e][delivered'[e] + 1].time >= orders[o].time + config.submit
    <3>1. TickFiles[f][delivered[f] + 1].time >= orders[o].time + config.submit
      BY <2>1, <2>3 DEF DueOf
    <3>2. delivered'[f] < Len(TickFiles[f]) =>
            TickFiles[f][delivered'[f] + 1].time >= orders[o].time + config.submit
      <4> SUFFICES ASSUME delivered'[f] < Len(TickFiles[f])
                   PROVE  TickFiles[f][delivered'[f] + 1].time >= orders[o].time + config.submit
        OBVIOUS
      <4> DEFINE i == delivered'[f] + 1
      <4>1. /\ i \in 1 .. Len(TickFiles[f]) /\ i > 1 /\ i - 1 = delivered[f] + 1
            /\ i - 1 \in 1 .. Len(TickFiles[f])
        BY <2>1, Times
      <4> HIDE DEF i
      <4>2. TickFiles[f][i - 1].time <= TickFiles[f][i].time
        BY <2>1, <4>1, FileSorted
      <4>3. TickFiles[f][i - 1].time \in Nat /\ TickFiles[f][i].time \in Nat
        BY <2>1, <4>1, TickHasTime
      <4>4. orders[o].time + config.submit \in Nat
        BY Times
      <4>5. TickFiles[f][i].time >= orders[o].time + config.submit
        BY <3>1, <4>1, <4>2, <4>3, <4>4
      <4> QED
        BY <4>5 DEF i
    <3>3. \A e \in DataId : e # f /\ delivered'[e] < Len(TickFiles[e]) =>
            TickFiles[e][delivered'[e] + 1].time >= orders[o].time + config.submit
      BY <2>1, <2>3 DEF DueOf
    <3> QED
      BY <2>1, <3>1, <3>2, <3>3
  <2> QED
    BY <2>2, <2>3 DEF DueOf
<1>3. CASE BeginWalk
  <2>1. /\ config' = config /\ delivered' = delivered /\ Now' = Now /\ pc = "OnTick"
        /\ DOMAIN orders' = DOMAIN orders
        /\ \A p \in DOMAIN orders :
             /\ orders'[p].time = orders[p].time
             /\ orders'[p].active =>
                  orders[p].active \/ Now >= orders[p].time + config.submit
    BY <1>3, BeginOrders DEF files, Now, Tick
  <2>2. ASSUME NEW o \in DOMAIN orders, Now >= orders[o].time + config.submit PROVE DueOf(o)'
    <3>1. delivered[top] > 0 /\ TickFiles[top][delivered[top]].time = Now
      <4>1. delivered[top] = pos[top] /\ pos[top] \in 1 .. Len(TickFiles[top])
        BY <2>1, Times, FirstTick DEF FilesInv, FileInv, TypeOK, FilesTypeOK
      <4> QED
        BY <4>1, Times DEF Now, Tick
    <3>2. ASSUME NEW e \in DataId, delivered[e] < Len(TickFiles[e])
          PROVE  TickFiles[e][delivered[e] + 1].time >= orders[o].time + config.submit
      <4>1. Now <= TickFiles[e][delivered[e] + 1].time
        BY <3>1, <3>2, Times DEF FilesInv, TimeInv
      <4>2. orders[o].time + config.submit \in Nat
        BY Times
      <4> QED
        BY <2>2, <3>2, <4>1, <4>2, Times
    <3> QED
      BY <2>1, <2>2, <3>2 DEF DueOf
  <2>3. Walking /\ (Walking' => Walking)
    BY <2>1 DEF Walking
  <2> QED
    BY <1>1, <2>1, <2>2, <2>3
<1>4. ASSUME NEW v \in Volume, NEW limit \in Price, NEW d \in DataId, MakeOrder(v, limit, d)
      PROVE  \A o \in DOMAIN orders' : DueOf(o)'
  <2>1. /\ config' = config /\ delivered' = delivered /\ Now' = Now /\ pc' = pc
    BY <1>4 DEF MakeOrder, files, Now, Tick, walk
  <2>2. PICK n : /\ DOMAIN orders' = DOMAIN orders \cup {n} /\ orders'[n].active = FALSE
                 /\ \A p \in DOMAIN orders : orders'[p] = orders[p]
    BY <1>4, NewOrders
  <2>3. DueOf(n)'
    BY <2>2 DEF DueOf
  <2>4. Walking' => Walking
    BY <2>1 DEF Walking
  <2> QED
    BY <1>1, <2>1, <2>2, <2>3, <2>4
<1>5. ASSUME NEW o \in Order, CancelOrder(o) PROVE \A p \in DOMAIN orders' : DueOf(p)'
  <2>1. /\ config' = config /\ delivered' = delivered /\ Now' = Now /\ pc' = pc
        /\ DOMAIN orders' = DOMAIN orders /\ \A p \in DOMAIN orders : Same(p)
    BY <1>5, CancelOrders DEF files, Now, Tick, walk
  <2>2. Walking' => Walking
    BY <2>1 DEF Walking
  <2> QED
    BY <1>1, <2>1, <2>2
<1>6. ASSUME NEW o \in DOMAIN orders, WalkStep(o) PROVE \A p \in DOMAIN orders' : DueOf(p)'
  <2>1. /\ config' = config /\ delivered' = delivered /\ Now' = Now /\ pc \in InWalk
    BY <1>6, WalkStepKeeps DEF files, Now, Tick
  <2>2. DOMAIN orders' = DOMAIN orders /\ \A p \in DOMAIN orders : Same(p)
    BY <1>6, WalkStepOrders
  <2>3. Walking
    BY <2>1 DEF Walking, InWalk
  <2> QED
    BY <1>1, <2>1, <2>2, <2>3
<1>7. CASE EnterLoop \/ OnEndup \/ Fetch \/ EndWalk \/ UNCHANGED vars
  <2>1. UNCHANGED <<config, orders>>
    BY <1>7, OtherOrders
  <2>2. delivered' = delivered
    BY <1>7 DEF EnterLoop, OnEndup, Fetch, EndWalk, vars, files
  <2>3. Walking' => Walking /\ Now' = Now
    BY <1>7 DEF EnterLoop, OnEndup, Fetch, EndWalk, vars, files, walk, Walking, Now, Tick
  <2> QED
    BY <1>1, <2>1, <2>2, <2>3
<1> QED
  BY <1>2, <1>3, <1>4, <1>5, <1>6, <1>7, Steps

\* A fresh order stays one, or is enqueued, if the tick and the way of the walk
\* to it do.
LEMMA FreshKept ==
  ASSUME NEW o \in DOMAIN orders, FreshOf(o), UNCHANGED <<config, pos, top>>,
         orders'[o].time = orders[o].time, orders'[o].active = orders[o].active,
         orders'[o].status = "Unknown" => orders[o].status = "Unknown",
         \/ pc' = pc /\ cur' = cur /\ que' = que /\ (newOrder => newOrder')
         \/ pc \in InWalk /\ pc' \in InWalk /\ (newOrder => newOrder') /\ (cur < o => cur' < o)
         \/ orders[o].status = "Unknown" => pc' = "next" /\ pc \in {"OnInit", "next"} /\ que' = que
  PROVE  FreshOf(o)'
<1>1. Now' = Now /\ (First(top) /\ que' = que => First(top)')
  BY DEF Now, Tick, First
<1>2. SUFFICES ASSUME orders'[o].status = "Unknown" PROVE FreshOf(o)'
  BY DEF FreshOf
<1>3. CASE pc' = pc /\ cur' = cur /\ que' = que /\ (newOrder => newOrder')
  BY <1>1, <1>2, <1>3 DEF FreshOf
<1>4. CASE pc \in InWalk /\ pc' \in InWalk /\ (newOrder => newOrder') /\ (cur < o => cur' < o)
  BY <1>1, <1>2, <1>4 DEF FreshOf, InWalk
<1>5. CASE pc' = "next" /\ pc \in {"OnInit", "next"} /\ que' = que
  BY <1>1, <1>2, <1>5 DEF FreshOf, InWalk
<1> QED
  BY <1>2, <1>3, <1>4, <1>5

\* The order of a step of the walk is enqueued now.
LEMMA WalkStepEnqueued ==
  ASSUME TypeOK, AtOrder, NEW o \in DOMAIN orders, WalkStep(o)
  PROVE  orders'[o].status # "Unknown"
<1>1. CASE Enqueue(o)
  <2>1. orders' = [orders EXCEPT ![o].status = "NoTradeQueueing"]
    BY <1>1 DEF Enqueue
  <2> QED
    BY <2>1, OrderTypes DEF OrderType
<1>2. CASE ~Enqueue(o) /\ orders' = orders
  <2>1. \/ Matched(o)
        \/ pc \in {"OnTrade", "reported", "ended"} /\ cur = o
        \/ orders[o].status = "Canceled"
    BY <1>2 DEF WalkStep, Match, ReportStatus, AfterReport, ReportCanceled, AfterEnd
  <2>2. pc \in {"queued", "OnTrade", "reported", "ended"} /\ cur = o =>
          orders[o].status # "Unknown"
    BY DEF AtOrder
  <2> QED
    BY <1>2, <2>1, <2>2 DEF Matched
<1>3. CASE Match(o) /\ orders' # orders
  <2>1. PICK s \in {"AllTraded", "PartTradedQueueing"} :
          \E t : orders' = [orders EXCEPT ![o].traded = t, ![o].status = s]
    BY <1>3 DEF Match
  <2>2. orders[o] \in OrderType
    BY OrderTypes
  <2>3. orders'[o].status = s
    BY <2>1, <2>2 DEF OrderType
  <2> QED
    BY <2>3
<1> QED
  BY <1>1, <1>2, <1>3
  DEF WalkStep, ReportStatus, AfterReport, ReportCanceled, AfterEnd, book

LEMMA FreshNext ==
  ASSUME TypeOK, FilesInv, BookInv, WalkInv, [Next]_vars, TypeOK'
  PROVE  \A o \in DOMAIN orders' : FreshOf(o)'
<1>0. \A o \in DOMAIN orders : FreshOf(o) /\ o \in Order /\ o \in Nat
  BY OrderTypes DEF WalkInv
<1>a. \A o \in DOMAIN orders : orders[o].status = "Unknown" => o \in list
  BY DEF BookInv, HeardOf
<1>1. CASE NextTick
  <2>1. PICK f \in que : f \in DataId /\ First(f) /\ pc = "next" /\ pc' = "OnTick" /\ Now' = Tick(f).time
    BY <1>1, NextTickTime
  <2>2. UNCHANGED <<config, orders>>
    BY <1>1, OtherOrders
  <2>3. ASSUME First(top), que = DataId PROVE Now' = Now
    <3>1. Tick(f).time <= Tick(top).time /\ Tick(top).time <= Tick(f).time
      BY <2>1, <2>3, Times DEF First
    <3> QED
      BY <2>1, <3>1, Times DEF Now
  <2> QED
    BY <1>0, <2>1, <2>2, <2>3 DEF FreshOf
<1>2. CASE EnterLoop
  <2>1. UNCHANGED <<config, pos, top, que, orders>> /\ pc = "OnInit" /\ pc' = "next"
    BY <1>2 DEF EnterLoop, files, book
  <2> QED
    BY <1>0, <2>1, FreshKept
<1>3. CASE OnEndup \/ Fetch
  <2>1. UNCHANGED <<config, orders>>
    BY <1>3, OtherOrders
  <2>2. ASSUME NEW o \in DOMAIN orders PROVE orders[o].status # "Unknown"
    <3>1. pc = "fetch" \/ (pc = "next" /\ que = {})
      BY <1>3 DEF OnEndup, Fetch
    <3>2. que = {} => que # DataId
      BY Times
    <3> QED
      BY <1>0, <3>1, <3>2 DEF FreshOf
  <2> QED
    BY <2>1, <2>2 DEF FreshOf
<1>4. CASE EndWalk
  <2>1. /\ UNCHANGED <<config, orders, pos, top, que>> /\ pc = "walk" /\ \A o \in list : o <= cur
    BY <1>4 DEF EndWalk, files, book
  <2>2. \/ (newOrder \/ newCancel) /\ cur' = 0 /\ pc' = "walk"
        \/ ~newOrder /\ pc' = "fetch"
    BY <1>4, <2>1 DEF EndWalk
  <2>3. ASSUME NEW o \in DOMAIN orders, orders[o].status = "Unknown" PROVE cur' < o /\ pc' = "walk"
    <3>1. o <= cur /\ cur \in Nat /\ o \in 1 .. Len(orders)
      BY <1>a, <2>1, <2>3, OrderTypes DEF TypeOK, WalkTypeOK
    <3>2. newOrder
      BY <1>0, <2>1, <2>3, <3>1 DEF FreshOf
    <3> QED
      BY <2>2, <3>1, <3>2
  <2>4. Now' = Now
    BY <2>1 DEF Now, Tick
  <2> QED
    BY <1>0, <2>1, <2>3, <2>4 DEF FreshOf
<1>5. CASE BeginWalk
  <2>1. /\ UNCHANGED <<config, files, list>> /\ pc = "OnTick"
        /\ list # {} => pc' = "walk" /\ cur' = 0
        /\ DOMAIN orders' = DOMAIN orders
        /\ \A p \in DOMAIN orders :
             /\ orders'[p].time = orders[p].time /\ orders'[p].status = orders[p].status
             /\ orders'[p].active =>
                  orders[p].active \/ Now >= orders[p].time + config.submit
    BY <1>5, BeginOrders
  <2>2. Now' = Now
    BY <2>1 DEF files, Now, Tick
  <2>3. ASSUME NEW o \in DOMAIN orders, orders[o].status = "Unknown" PROVE FreshOf(o)'
    <3>1. orders[o].time = Now /\ (orders[o].active => config.submit = 0)
      BY <1>0, <2>3 DEF FreshOf
    <3>2. orders'[o].active => config.submit = 0
      BY <2>1, <3>1, Times
    <3>3. pc' = "walk" /\ cur' < o
      BY <1>a, <2>1, <2>3, OrderTypes
    <3> QED
      BY <2>1, <2>2, <3>1, <3>2, <3>3 DEF FreshOf
  <2> QED
    BY <2>1, <2>3 DEF FreshOf
<1>6. ASSUME NEW o \in DOMAIN orders, WalkStep(o) PROVE \A p \in DOMAIN orders' : FreshOf(p)'
  <2>1. /\ UNCHANGED <<config, files, flags>> /\ pc \in InWalk /\ pc' \in InWalk /\ cur' = o
        /\ At(o) \/ cur = o
    BY <1>6, WalkStepKeeps
  <2>2. /\ DOMAIN orders' = DOMAIN orders
        /\ \A p \in DOMAIN orders :
             /\ orders'[p].time = orders[p].time /\ orders'[p].active = orders[p].active
             /\ p # o => orders'[p] = orders[p]
    BY <1>6, WalkStepOrders
  <2>3. orders'[o].status # "Unknown"
    BY <1>6, WalkStepEnqueued DEF WalkInv
  <2>4. ASSUME NEW p \in DOMAIN orders, p # o PROVE FreshOf(p)'
    <3>1. orders[p].status = "Unknown" /\ cur < p => cur' < p
      <4> SUFFICES ASSUME orders[p].status = "Unknown", cur < p, At(o) PROVE o < p
        BY <2>1
      <4>1. p \in list
        BY <1>a
      <4> QED
        BY <1>0, <2>4, <4>1 DEF At
    <3>2. CASE orders[p].status = "Unknown"
      BY <1>0, <2>1, <2>2, <2>4, <3>1, <3>2, FreshKept DEF files, flags
    <3>3. CASE orders[p].status # "Unknown"
      BY <2>2, <2>4, <3>3 DEF FreshOf
    <3> QED
      BY <3>2, <3>3
  <2> QED
    BY <2>2, <2>3, <2>4 DEF FreshOf
<1>7. ASSUME NEW v \in Volume, NEW limit \in Price, NEW d \in DataId, MakeOrder(v, limit, d)
      PROVE  \A o \in DOMAIN orders' : FreshOf(o)'
  <2>1. /\ UNCHANGED <<config, pos, top, que, pc, cur>> /\ newOrder' = TRUE /\ pc \in Callback
    BY <1>7 DEF MakeOrder, files, walk
  <2>2. PICK n \in Order :
           /\ DOMAIN orders' = DOMAIN orders \cup {n} /\ orders'[n].active = FALSE
           /\ orders'[n].time = Now /\ \A p \in DOMAIN orders : orders'[p] = orders[p]
    BY <1>7, NewOrders
  <2>3. Now' = Now /\ (First(top) => First(top)')
    BY <2>1 DEF Now, Tick, First
  <2>4. FreshOf(n)'
    BY <2>1, <2>2, <2>3 DEF FreshOf, Callback, WalkInv
  <2>5. ASSUME NEW p \in DOMAIN orders PROVE FreshOf(p)'
    BY <1>0, <2>1, <2>2, FreshKept
  <2> QED
    BY <2>2, <2>4, <2>5
<1>8. ASSUME NEW o \in Order, CancelOrder(o) PROVE \A p \in DOMAIN orders' : FreshOf(p)'
  <2>1. /\ UNCHANGED <<config, pos, top, que, pc, cur, newOrder>>
        /\ DOMAIN orders' = DOMAIN orders
        /\ \A p \in DOMAIN orders :
              /\ orders'[p].time = orders[p].time /\ orders'[p].active = orders[p].active
              /\ orders'[p].status = orders[p].status \/ orders'[p].status = "Canceled"
    BY <1>8, CancelOrders DEF files, walk
  <2> QED
    BY <1>0, <2>1, FreshKept
<1>9. CASE UNCHANGED vars
  <2>1. UNCHANGED <<config, pos, top, que, pc, cur, newOrder, orders>>
    BY <1>9 DEF vars, files, walk, flags, book
  <2> QED
    BY <1>0, <2>1, FreshKept
<1> QED
  BY <1>1, <1>2, <1>3, <1>4, <1>5, <1>6, <1>7, <1>8, <1>9, Steps

\* What an order is offered stays the same while the tick does.
LEMMA OfferKept ==
  ASSUME UNCHANGED <<config, pos, top>>, NEW limit
  PROVE  Offer(limit)' = Offer(limit)
BY DEF Offer, Tick

LEMMA TakenNext ==
  ASSUME TypeOK, FilesInv, BookInv, WalkInv, [Next]_vars, TypeOK'
  PROVE  TakenInv'
<1>0. TakenInv /\ \A o \in DOMAIN orders : o \in Order
  BY OrderTypes DEF WalkInv
<1>a. \A o \in Order : o \in Nat /\ taken[o] \in Nat /\ taken \in [Order -> Nat]
  BY KernelAssumption DEF Order, TypeOK, WalkTypeOK
<1>b. cur \in Nat
  BY OrderTypes DEF TypeOK, WalkTypeOK, BookTypeOK
<1>1. CASE NextTick
  <2>1. pc' = "OnTick" /\ \A o \in Order : taken'[o] = 0
    BY <1>1, NextTickTime
  <2>2. DOMAIN orders' = DOMAIN orders
    BY <1>1, OtherOrders
  <2> QED
    BY <1>0, <2>1, <2>2 DEF TakenInv, OffersTakenOnce
<1>2. CASE EnterLoop \/ OnEndup \/ Fetch
  <2>1. pc' \in {"next", "done"}
    BY <1>2 DEF EnterLoop, OnEndup, Fetch
  <2> QED
    BY <2>1 DEF TakenInv, OffersTakenOnce
<1>3. CASE EndWalk
  <2>1. /\ UNCHANGED <<config, orders, taken>> /\ pc = "walk"
    BY <1>3 DEF EndWalk, book
  <2>2. \A limit : Offer(limit)' = Offer(limit)
    BY <1>3, OfferKept DEF EndWalk, files
  <2>3. CASE repeated' = TRUE /\ pc' = pc
    BY <2>1, <2>3 DEF TakenInv, OffersTakenOnce
  <2>4. CASE repeated' = repeated /\ pc' = "fetch"
    <3>1. OffersTakenOnce'
      BY <1>0, <2>1, <2>2, <2>4 DEF TakenInv, OffersTakenOnce
    <3> QED
      BY <2>4, <3>1 DEF TakenInv
  <2> QED
    BY <1>3, <2>3, <2>4 DEF EndWalk
<1>4. CASE BeginWalk
  <2>1. pc = "OnTick" /\ pc' \in {"walk", "fetch"} /\ taken' = taken /\ DOMAIN orders' = DOMAIN orders
    BY <1>4, BeginOrders
  <2> QED
    BY <1>0, <2>1 DEF TakenInv, OffersTakenOnce
<1>5. ASSUME NEW v \in Volume, NEW limit \in Price, NEW d \in DataId, MakeOrder(v, limit, d)
      PROVE  TakenInv'
  <2>1. /\ UNCHANGED <<config, pos, top, pc, cur, repeated, taken>>
        /\ pc \in Callback
    BY <1>5 DEF MakeOrder, files, walk
  <2>2. PICK n \in Order :
           /\ n = Len(orders) + 1 /\ DOMAIN orders' = DOMAIN orders \cup {n}
           /\ \A p \in DOMAIN orders : orders'[p] = orders[p]
    BY <1>5, NewOrders
  <2>3. \A lim : Offer(lim)' = Offer(lim)
    BY <2>1, OfferKept
  <2>4. cur < n
    BY <1>b, <2>2 DEF TypeOK, WalkTypeOK, BookTypeOK
  <2>5. ~repeated => taken[n] = 0
    BY <1>0, <2>1, <2>4 DEF TakenInv, Callback
  <2> QED
    BY <1>0, <2>1, <2>2, <2>3, <2>5 DEF TakenInv, OffersTakenOnce
<1>6. ASSUME NEW o \in Order, CancelOrder(o) PROVE TakenInv'
  <2>1. /\ UNCHANGED <<config, pos, top, pc, cur, repeated, taken>>
        /\ DOMAIN orders' = DOMAIN orders
        /\ \A p \in DOMAIN orders : orders'[p].limit = orders[p].limit
    BY <1>6, CancelOrders DEF files, walk
  <2>2. \A lim : Offer(lim)' = Offer(lim)
    BY <2>1, OfferKept
  <2> QED
    BY <1>0, <2>1, <2>2 DEF TakenInv, OffersTakenOnce
<1>7. ASSUME NEW o \in DOMAIN orders, WalkStep(o) PROVE TakenInv'
  <2>1. /\ UNCHANGED <<config, pos, top, repeated>> /\ pc \in InWalk /\ pc' \in InWalk
        /\ cur' = o /\ (At(o) \/ cur = o) /\ o \in Nat
    BY <1>7, <1>0, <1>a, WalkStepKeeps DEF files
  <2>2. /\ DOMAIN orders' = DOMAIN orders
        /\ \A p \in DOMAIN orders : orders'[p].limit = orders[p].limit
    BY <1>7, WalkStepOrders
  <2>3. \A lim : Offer(lim)' = Offer(lim)
    BY <2>1, OfferKept
  <2>4. \A p \in Order : cur' < p => cur < p
    BY <1>a, <1>b, <2>1 DEF At
  <2>5. pc' = "queued" => Enqueue(o)
    BY <1>7, <2>1 DEF WalkStep, Match, ReportStatus, AfterReport, ReportCanceled, AfterEnd, At, Matched
  <2>6. CASE taken' = taken
    BY <1>0, <2>1, <2>2, <2>3, <2>4, <2>5, <2>6
       DEF TakenInv, OffersTakenOnce, InWalk, Enqueue, At
  <2>7. CASE taken' # taken
    <3>1. Match(o)
      BY <1>7, <2>7 DEF WalkStep, Enqueue, ReportStatus, AfterReport, ReportCanceled, AfterEnd
    <3>2. PICK w \in 1 .. orders[o].volume - orders[o].traded :
            w = Deals(o) /\ taken' = [taken EXCEPT ![o] = @ + w] /\ pc' = "OnTrade"
      BY <2>7, <3>1 DEF Match
    <3>3. w <= Offer(orders[o].limit)
      BY <3>2, OrderTypes DEF Deals
    <3>4. ~repeated => taken[o] = 0
      BY <1>0, <2>1, <3>1 DEF TakenInv, Match, Matched, At
    <3>5. ~repeated => taken'[o] <= Offer(orders[o].limit)'
      BY <1>0, <1>a, <2>2, <2>3, <3>2, <3>3, <3>4
    <3>6. \A p \in Order : p # o => taken'[p] = taken[p]
      BY <1>a, <3>2
    <3>7. OffersTakenOnce'
      BY <1>0, <2>1, <2>2, <2>3, <3>5, <3>6 DEF TakenInv, OffersTakenOnce, InWalk
    <3>8. \A p \in Order : cur' < p => p # o
      BY <1>a, <2>1
    <3> QED
      BY <1>0, <2>1, <2>4, <3>2, <3>6, <3>7, <3>8 DEF TakenInv, InWalk
  <2> QED
    BY <2>6, <2>7
<1>8. CASE UNCHANGED vars
  <2>1. UNCHANGED <<config, pos, top, pc, cur, repeated, taken, orders>>
    BY <1>8 DEF vars, files, walk, book
  <2>2. \A lim : Offer(lim)' = Offer(lim)
    BY <2>1, OfferKept
  <2> QED
    BY <1>0, <2>1, <2>2 DEF TakenInv, OffersTakenOnce
<1> QED
  BY <1>1, <1>2, <1>3, <1>4, <1>5, <1>6, <1>7, <1>8, Steps

LEMMA WalkNext ==
  ASSUME TypeOK, FilesInv, BookInv, WalkInv, [Next]_vars, TypeOK', BookInv'
  PROVE  WalkInv'
<1>1. \A o \in DOMAIN orders' : DueOf(o)' /\ FreshOf(o)'
  BY DueNext, FreshNext DEF WalkInv
<1>2. TakenInv'
  BY TakenNext
<1>3. pc' = "OnInit" => que' = DataId /\ First(top)'
  <2> SUFFICES ASSUME pc' = "OnInit" PROVE que' = DataId /\ First(top)'
    OBVIOUS
  <2>1. pc = "OnInit" /\ UNCHANGED files
    <3>1. ~(\E o \in DOMAIN orders : WalkStep(o)) /\ ~BeginWalk
      BY WalkStepKeeps, BeginOrders DEF InWalk, BeginWalk
    <3> QED
      BY <3>1, Steps
      DEF NextTick, EnterLoop, OnEndup, Fetch, EndWalk, vars, walk, MakeOrder, CancelOrder
  <2> QED
    BY <2>1 DEF WalkInv, files, First, Tick
<1>4. AtOrder'
  <2> DEFINE In == {"queued", "OnTrade", "reported", "ended"}
  <2>0. pc \in In => cur \in DOMAIN orders /\ cur \in list
    BY DEF BookInv, TypeOK, BookTypeOK
  <2>1. ASSUME pc' = pc, cur' = cur, config' = config,
               pc \in In =>
                 /\ orders'[cur].active = orders[cur].active
                 /\ orders'[cur].status \in {orders[cur].status, "Canceled"}
        PROVE  AtOrder'
    BY <2>1 DEF WalkInv, AtOrder
  <2>2. CASE NextTick \/ EnterLoop \/ OnEndup \/ Fetch \/ EndWalk \/ BeginWalk
    <3>1. pc' \notin In
      BY <2>2 DEF NextTick, EnterLoop, OnEndup, Fetch, EndWalk, BeginWalk
    <3> QED
      BY <3>1 DEF AtOrder
  <2>3. CASE UNCHANGED vars
    BY <2>1, <2>3 DEF vars, walk, book
  <2>4. ASSUME NEW v \in Volume, NEW limit \in Price, NEW d \in DataId, MakeOrder(v, limit, d)
        PROVE  AtOrder'
    <3>1. \A p \in DOMAIN orders : orders'[p] = orders[p]
      BY <2>4, NewOrders
    <3> QED
      BY <2>0, <2>1, <2>4, <3>1 DEF MakeOrder, walk
  <2>5. ASSUME NEW o \in Order, CancelOrder(o) PROVE AtOrder'
    BY <2>0, <2>1, <2>5, CancelOrders DEF walk
  <2>6. ASSUME NEW o \in DOMAIN orders, WalkStep(o) PROVE AtOrder'
    <3>1. cur' = o /\ config' = config /\ orders'[o].active = orders[o].active
      BY <2>6, WalkStepKeeps, WalkStepOrders
    <3>2. orders'[o].status # "Unknown"
      BY <2>6, WalkStepEnqueued DEF WalkInv
    <3>3. pc' = "queued" => orders[o].status = "Unknown"
      BY <2>6 DEF WalkStep, Enqueue, Match, ReportStatus, AfterReport, ReportCanceled, AfterEnd,
                  At, Matched
    <3>4. FreshOf(o)
      BY DEF WalkInv
    <3> QED
      BY <3>1, <3>2, <3>3, <3>4 DEF AtOrder, FreshOf
  <2> QED
    BY <2>2, <2>3, <2>4, <2>5, <2>6, Steps
<1> QED
  BY <1>1, <1>2, <1>3, <1>4 DEF WalkInv

LEMMA WalkInit == Init => WalkInv
<1> SUFFICES ASSUME Init PROVE WalkInv
  OBVIOUS
<1>1. DOMAIN orders = {} /\ pc = "OnInit" /\ que = DataId /\ First(top) /\ \A o \in Order : taken[o] = 0
  BY DEF Init
<1> QED
  BY <1>1 DEF WalkInv, TakenInv, OffersTakenOnce, AtOrder
-----------------------------------------------------------------------------
(* The theorems                                                            *)

IInv == TypeOK /\ FilesInv /\ BookInv /\ WalkInv

LEMMA Inductive == Spec => []IInv
<1>1. Init => IInv
  BY TypeInit, FilesInit, BookInit, WalkInit DEF IInv
<1>2. IInv /\ [Next]_vars => IInv'
  BY TypeNext, BookNext, WalkNext DEF IInv
<1> QED
  BY <1>1, <1>2, PTL DEF Spec

\* The variables of StartBackTest keep their types, whatever the strategy
\* places and cancels in its callbacks.
THEOREM TypeCorrect == Spec => []TypeOK
<1>1. IInv => TypeOK
  BY DEF IInv
<1> QED
  BY <1>1, Inductive, PTL

\* What the strategy has heard of an order agrees with its status in m_mapOrders
\* and its place in m_listOrdersTobeHandle.
THEOREM BookCorrect == Spec => []BookInv
<1>1. IInv => BookInv
  BY DEF IInv
<1> QED
  BY <1>1, Inductive, PTL

\* When the backtest ends each tick of each file was given to the strategy once.
THEOREM EveryTickDelivered == Spec => []EveryTick
<1>1. IInv => EveryTick
  <2> SUFFICES ASSUME IInv, pc = "done", NEW d \in DataId
               PROVE  /\ delivered[d] = Len(TickFiles[d])
                      /\ lastTick[d] = (IF Len(TickFiles[d]) > 1 THEN Len(TickFiles[d]) ELSE 0)
    BY DEF EveryTick
  <2>1. FileInv(d) /\ d \notin que
    BY DEF IInv, FilesInv
  <2>2. pos[d] \in Nat /\ remain[d] = 0
    BY <2>1 DEF FileInv, IInv, TypeOK, FilesTypeOK
  <2> QED
    BY <2>1, <2>2 DEF FileInv
<1> QED
  BY <1>1, Inductive, PTL

\* The files are merged by time: no tick is older than one the strategy has
\* seen.
THEOREM TicksDeliveredInOrder == Spec => TicksInOrder
<1> DEFINE InOrder ==
      \A d, e \in DataId : delivered[d] > 0 /\ delivered'[e] > delivered[e] =>
        TickFiles[d][delivered[d]].time <= TickFiles[e][delivered'[e]].time
<1>1. IInv /\ IInv' /\ [Next]_vars => [InOrder]_vars
  <2> SUFFICES ASSUME IInv, IInv', [Next]_vars,
                      NEW d \in DataId, NEW e \in DataId,
                      delivered[d] > 0, delivered'[e] > delivered[e]
               PROVE  TickFiles[d][delivered[d]].time <= TickFiles[e][delivered'[e]].time
    OBVIOUS
  <2>1. /\ delivered[e] \in Nat /\ delivered'[e] \in 0 .. Len(TickFiles[e])
        /\ Len(TickFiles[e]) \in Nat
    BY FirstTick DEF IInv, TypeOK, FilesTypeOK
  <2>2. delivered'[e] = delivered[e] + 1
    <3>1. CASE NextTick
      <4>1. PICK f \in que : delivered' = [delivered EXCEPT ![f] = @ + 1]
        BY <3>1 DEF NextTick
      <4>2. delivered \in [DataId -> Nat]
        BY DEF IInv, TypeOK, FilesTypeOK
      <4>3. e = f
        BY <2>1, <4>1, <4>2
      <4> QED
        BY <4>1, <4>2, <4>3
    <3>2. CASE delivered' = delivered
      BY <2>1, <3>2
    <3> QED
      BY <3>1, <3>2
      DEF Next, StartBackTest, Strategy, EnterLoop, OnEndup, Fetch, BeginWalk, EndWalk, Enqueue,
          Match, ReportStatus, AfterReport, ReportCanceled, AfterEnd, MakeOrder, CancelOrder,
          vars, files
  <2>3. delivered[e] < Len(TickFiles[e])
    BY <2>1, <2>2
  <2> QED
    BY <2>2, <2>3 DEF IInv, FilesInv, TimeInv
<1> QED
  BY <1>1, Inductive, PTL DEF Spec, TicksInOrder

\* The kernel implements OrderLife: the reports of an order come in the order
\* promised there, and a cancellation takes hold as it is promised there.
THEOREM ImplementsOrderLife == Spec => LifeSpec
<1>1. Init => Life!LifeInit
  BY DEF Init, Life!LifeInit, Canceled
<1>2. IInv /\ [Next]_vars => [Life!LifeNext]_(Life!life)
  BY LifeStep DEF IInv
<1> QED
  BY <1>1, <1>2, Inductive, PTL DEF Spec, LifeSpec, Life!LifeSpec

\* What OrderLife promises of each order holds of the kernel: no order trades
\* more than its volume, one that was not cancelled in the callback of a trade
\* or of its end does not end twice, and one that was reported as canceled had
\* been cancelled.
THEOREM LifeInvariants ==
  Spec => [](Life!TradedWithinVolume /\ Life!OneEnd /\ Life!CanceledWasAsked)
<1>1. IInv => Life!TradedWithinVolume /\ Life!OneEnd /\ Life!CanceledWasAsked
  <2> SUFFICES ASSUME IInv, NEW o \in Order
               PROVE  /\ told[o].traded <= told[o].volume
                      /\ told[o].heard = "all" => told[o].traded = told[o].volume
                      /\ o \notin late => told[o].ends <= 1
                      /\ told[o].heard = "canceled" => o \in Canceled
    BY DEF Life!TradedWithinVolume, Life!OneEnd, Life!CanceledWasAsked
  <2>1. CASE o \notin DOMAIN orders
    BY <2>1 DEF IInv, BookInv, Life!Unplaced
  <2>2. CASE o \in DOMAIN orders
    <3>1. /\ told[o].volume = orders[o].volume /\ told[o].traded = orders[o].traded
          /\ orders[o].traded <= orders[o].volume
          /\ HeardOf(o) /\ orders[o].status \in Status
      BY <2>2, OrderTypes DEF IInv, BookInv
    <3>2. CASE orders[o].status = "Canceled"
      BY <2>2, <3>1, <3>2 DEF HeardOf, Canceled
    <3>3. CASE orders[o].status # "Canceled"
      BY <3>1, <3>3 DEF HeardOf, Status
    <3> QED
      BY <3>2, <3>3
  <2> QED
    BY <2>1, <2>2
<1> QED
  BY <1>1, Inductive, PTL

\* In the first walk for a tick no order takes more than the tick offers it:
\* the walk comes to an order once, and after a callback goes on behind it.
THEOREM OffersAreTakenOnce == Spec => []OffersTakenOnce
<1>1. IInv => OffersTakenOnce
  BY DEF IInv, WalkInv, TakenInv
<1> QED
  BY <1>1, Inductive, PTL

LEMMA MatchDeals ==
  ASSUME TypeOK, NEW o \in DOMAIN orders, Match(o), orders' # orders
  PROVE  Deals(o) > 0
<1>1. PICK v \in 1 .. orders[o].volume - orders[o].traded : v = Deals(o)
  BY DEF Match
<1> QED
  BY <1>1, OrderTypes

\* A trade is a step of the walk that matches the order with the tick.
LEMMA TradeIsMatch ==
  ASSUME IInv, [Next]_vars, NEW o \in Order, Trades(o)
  PROVE  /\ o \in DOMAIN orders /\ Match(o) /\ Deals(o) > 0
<1>1. TypeOK /\ o \in DOMAIN orders /\ orders'[o].traded > orders[o].traded
      /\ orders[o].traded \in Nat
  BY OrderTypes DEF IInv, Trades
<1>2. ASSUME orders'[o].traded = orders[o].traded PROVE FALSE
  BY <1>1, <1>2
<1>3. CASE BeginWalk
  BY <1>1, <1>2, <1>3, BeginOrders
<1>4. ASSUME NEW v \in Volume, NEW limit \in Price, NEW d \in DataId, MakeOrder(v, limit, d)
      PROVE  FALSE
  BY <1>1, <1>2, <1>4, NewOrders
<1>5. ASSUME NEW p \in Order, CancelOrder(p) PROVE FALSE
  BY <1>1, <1>2, <1>5, CancelOrders
<1>6. CASE NextTick \/ EnterLoop \/ OnEndup \/ Fetch \/ EndWalk \/ UNCHANGED vars
  BY <1>2, <1>6, OtherOrders
<1>7. ASSUME NEW p \in DOMAIN orders, WalkStep(p) PROVE Match(o) /\ Deals(o) > 0
  <2>1. p = o
    BY <1>1, <1>2, <1>7, WalkStepOrders
  <2>2. ~Enqueue(p)
    <3> SUFFICES ASSUME Enqueue(p) PROVE FALSE
      OBVIOUS
    <3> DEFINE r == [orders[o] EXCEPT !.status = "NoTradeQueueing"]
    <3>1. orders' = [orders EXCEPT ![o] = r]
      BY <2>1 DEF Enqueue
    <3>2. r.traded = orders[o].traded /\ r \in OrderType
      BY <1>1, OrderTypes DEF OrderType, Status
    <3> HIDE DEF r
    <3> QED
      BY <1>1, <1>2, <3>1, <3>2, ChangeOrder DEF TypeOK, BookTypeOK
  <2>3. Match(o)
    BY <1>2, <1>7, <2>1, <2>2 DEF WalkStep, ReportStatus, AfterReport, ReportCanceled, AfterEnd, book
  <2> QED
    BY <1>1, <1>2, <2>3, MatchDeals
<1> QED
  BY <1>1, <1>3, <1>4, <1>5, <1>6, <1>7, Steps

\* No order trades before the delay of its submission is over, or with the tick
\* of another instrument, but for the first one of another file.
THEOREM OrdersTradeInTime == Spec => TradesInTime
<1> DEFINE InTime ==
      \A o \in Order : Trades(o) =>
        /\ Now >= orders[o].time + config.submit
        /\ top = orders[o].dataid \/ (orders[o].dataid = 1 /\ delivered[top] = 1)
<1>1. IInv /\ [Next]_vars => [InTime]_vars
  <2> SUFFICES ASSUME IInv, [Next]_vars, NEW o \in Order, Trades(o)
               PROVE  /\ Now >= orders[o].time + config.submit
                      /\ top = orders[o].dataid \/ (orders[o].dataid = 1 /\ delivered[top] = 1)
    OBVIOUS
  <2>1. o \in DOMAIN orders /\ Match(o) /\ Deals(o) > 0
    BY TradeIsMatch
  <2>2. orders[o].active /\ orders[o].dataid = DataIdOfTick
    BY <2>1 DEF Deals
  <2>3. pc \in {"walk", "queued"}
    BY <2>1 DEF Match, Matched, At
  <2>4. Now >= orders[o].time + config.submit
    BY <2>1, <2>2, <2>3 DEF IInv, WalkInv, DueOf, Walking
  <2>5. delivered[top] = pos[top]
    BY <2>3, Times DEF IInv, FilesInv, FileInv
  <2> QED
    BY <2>2, <2>4, <2>5 DEF DataIdOfTick
<1> QED
  BY <1>1, Inductive, PTL DEF Spec, TradesInTime

\* Once cancelled an order stays so and trades no more, but in the callback
\* that reports it as queueing, where orders are submitted without a delay.
THEOREM CancellationsTakeHold == Spec => CancelTakesHold
<1> DEFINE Holds == \A o \in Canceled : Trades(o) \/ o \notin Canceled' =>
                      config.submit = 0 /\ pc = "queued" /\ cur = o
<1>1. IInv /\ [Next]_vars => [Holds]_vars
  <2> SUFFICES ASSUME IInv, [Next]_vars, NEW o \in Canceled, Trades(o) \/ o \notin Canceled'
               PROVE  config.submit = 0 /\ pc = "queued" /\ cur = o
    OBVIOUS
  <2>1. TypeOK /\ o \in DOMAIN orders /\ orders[o].status = "Canceled" /\ o \in Order
    BY OrderTypes DEF IInv, Canceled
  <2>2. Match(o) /\ Deals(o) > 0
    <3>1. CASE Trades(o)
      BY <2>1, <3>1, TradeIsMatch
    <3>2. ASSUME ~(o \in DOMAIN orders' /\ orders'[o].status = "Canceled")
          PROVE  Match(o) /\ Deals(o) > 0
      <4>1. orders' # orders
        BY <2>1, <3>2
      <4>2. ~BeginWalk /\ ~(\E p \in Order : CancelOrder(p))
        BY <2>1, <3>2, BeginOrders, CancelOrders
      <4>3. ~(\E v \in Volume, limit \in Price, d \in DataId : MakeOrder(v, limit, d))
        <5> SUFFICES ASSUME NEW v \in Volume, NEW limit \in Price, NEW d \in DataId,
                            MakeOrder(v, limit, d)
                     PROVE  FALSE
          OBVIOUS
        <5> QED
          BY <2>1, <3>2, NewOrders
      <4>4. PICK p \in DOMAIN orders : WalkStep(p)
        BY <4>1, <4>2, <4>3, Steps, OtherOrders
      <4>5. p = o
        BY <2>1, <3>2, <4>4, WalkStepOrders
      <4>6. Match(o)
        BY <2>1, <4>1, <4>4, <4>5
        DEF WalkStep, Enqueue, ReportStatus, AfterReport, ReportCanceled, AfterEnd, book
      <4> QED
        BY <2>1, <4>1, <4>6, MatchDeals
    <3> QED
      BY <3>1, <3>2 DEF Canceled
  <2>3. pc = "queued" /\ cur = o
    BY <2>1, <2>2 DEF Match, Matched
  <2>4. orders[o].active
    BY <2>2 DEF Deals
  <2> QED
    BY <2>3, <2>4 DEF IInv, WalkInv, AtOrder
<1> QED
  BY <1>1, Inductive, PTL DEF Spec, CancelTakesHold
=============================================================================
