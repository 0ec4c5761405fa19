------------------------- MODULE MeddleQueuesProofs -------------------------
(***************************************************************************)
(* Proofs about MeddleQueues, for any number of threads, strategies,       *)
(* commands and responses.                                                 *)
(***************************************************************************)
EXTENDS MeddleQueues, FiniteSetTheorems, SequenceTheorems, TLAPS

(***************************************************************************)
(* Items of one strategy are a sequence; the next one goes to its end, and *)
(* the first ones can be taken from its front.                             *)
(***************************************************************************)
LEMMA ItemsAreSeq ==
  ASSUME NEW o \in 1 .. MaxDeploy, NEW a \in Nat, NEW b \in Nat, a <= b
  PROVE  Items(o, a, b) \in Seq(Item) /\ Len(Items(o, a, b)) = b - a
<1>1. b - a \in Nat OBVIOUS
<1>2. \A i \in 1 .. b - a : [of |-> o, nr |-> a + i] \in Item BY DEF Item
<1> DEFINE q == Items(o, a, b)
<1>3. q \in [1 .. b - a -> Item] BY <1>2 DEF Items
<1> HIDE DEF q
<1>4. q \in Seq(Item) /\ Len(q) = b - a BY <1>1, <1>3
<1>5. QED BY <1>4 DEF q

(***************************************************************************)
(* When a sequence is another one with an element at its end, or without   *)
(* its first elements.                                                     *)
(***************************************************************************)
LEMMA AppendIs ==
  ASSUME NEW S, NEW q \in Seq(S), NEW e \in S, NEW z \in Seq(S),
         Len(z) = Len(q) + 1, \A i \in 1 .. Len(q) : z[i] = q[i], z[Len(q) + 1] = e
  PROVE  Append(q, e) = z
<1>1. /\ Append(q, e) \in Seq(S) /\ Len(Append(q, e)) = Len(q) + 1
      /\ \A i \in 1 .. Len(q) : Append(q, e)[i] = q[i]
      /\ Append(q, e)[Len(q) + 1] = e
  BY AppendProperties
<1>2. Len(q) \in Nat OBVIOUS
<1>3. ASSUME NEW i \in 1 .. Len(q) + 1 PROVE Append(q, e)[i] = z[i]
  <2>1. CASE i \in 1 .. Len(q) BY <1>1, <2>1
  <2>2. CASE i = Len(q) + 1 BY <1>1, <2>2
  <2>3. QED BY <1>2, <2>1, <2>2
<1> DEFINE r == Append(q, e)
<1>4. r \in Seq(S) /\ Len(r) = Len(z) /\ \A i \in 1 .. Len(r) : r[i] = z[i]
  BY <1>1, <1>3
<1> HIDE DEF r
<1>5. r = z BY <1>4, SeqEqual
<1>6. QED BY <1>5 DEF r

LEMMA SubSeqIs ==
  ASSUME NEW S, NEW q \in Seq(S), NEW k \in Nat, k <= Len(q), NEW z \in Seq(S),
         Len(z) = Len(q) - k, \A i \in 1 .. Len(z) : z[i] = q[k + i]
  PROVE  SubSeq(q, k + 1, Len(q)) = z
<1> DEFINE r == SubSeq(q, k + 1, Len(q))  n == Len(q)
<1>1. n \in Nat /\ \A i \in 1 .. n : q[i] \in S OBVIOUS
<1>2. Len(z) = n - k /\ k <= n OBVIOUS
<1>3. \A i \in k + 1 .. n : q[i] \in S BY <1>1
<1> HIDE DEF n
<1>4. /\ SubSeq(q, k + 1, n) \in Seq(S)
      /\ Len(SubSeq(q, k + 1, n)) = IF k + 1 <= n THEN n - (k + 1) + 1 ELSE 0
      /\ \A i \in 1 .. n - (k + 1) + 1 : SubSeq(q, k + 1, n)[i] = q[(k + 1) + i - 1]
  BY <1>1, <1>3, SubSeqProperties
<1>5. r = SubSeq(q, k + 1, n) BY DEF n
<1> HIDE DEF r
<1>6. r \in Seq(S) /\ Len(r) = n - k BY <1>1, <1>2, <1>4, <1>5
<1>7. ASSUME NEW i \in 1 .. Len(r) PROVE r[i] = z[i]
  <2>1. i \in 1 .. n - (k + 1) + 1 /\ i \in 1 .. Len(z) /\ (k + 1) + i - 1 = k + i
    BY <1>1, <1>2, <1>6
  <2>2. r[i] = q[k + i] BY <1>4, <1>5, <2>1
  <2>3. QED BY <2>1, <2>2
<1>8. Len(r) = Len(z) BY <1>2, <1>6
<1>9. r = z BY <1>6, <1>7, <1>8, SeqEqual
<1>10. QED BY <1>9 DEF r

LEMMA ItemsAppend ==
  ASSUME NEW o \in 1 .. MaxDeploy, NEW a \in Nat, NEW b \in Nat, a <= b
  PROVE  Append(Items(o, a, b), [of |-> o, nr |-> b + 1]) = Items(o, a, b + 1)
<1> DEFINE q == Items(o, a, b)  e == [of |-> o, nr |-> b + 1]  z == Items(o, a, b + 1)
<1>1. q \in Seq(Item) /\ Len(q) = b - a BY ItemsAreSeq
<1>2. z \in Seq(Item) /\ Len(z) = b + 1 - a
  <2>1. PICK c \in Nat : c = b + 1 OBVIOUS
  <2>2. a <= c BY <2>1
  <2>3. Items(o, a, c) \in Seq(Item) /\ Len(Items(o, a, c)) = c - a BY <2>2, ItemsAreSeq
  <2>4. QED BY <2>1, <2>3
<1>3. e \in Item BY DEF Item
<1>4. \A i \in 1 .. b - a : z[i] = q[i] BY DEF Items
<1>5. z[(b - a) + 1] = e
  <2>1. (b - a) + 1 \in 1 .. b + 1 - a /\ a + ((b - a) + 1) = b + 1 OBVIOUS
  <2>2. QED BY <2>1 DEF Items
<1> HIDE DEF q, e, z
<1>6. Append(q, e) = z BY <1>1, <1>2, <1>3, <1>4, <1>5, AppendIs
<1>7. QED BY <1>6 DEF q, e, z

LEMMA ItemsFront ==
  ASSUME NEW o \in 1 .. MaxDeploy, NEW a \in Nat, NEW b \in Nat, NEW k \in Nat, a + k <= b
  PROVE  SubSeq(Items(o, a, b), k + 1, b - a) = Items(o, a + k, b)
<1> DEFINE q == Items(o, a, b)  z == Items(o, a + k, b)
<1>0. a <= b /\ a + k \in Nat OBVIOUS
<1>1. q \in Seq(Item) /\ Len(q) = b - a BY <1>0, ItemsAreSeq
<1>2. z \in Seq(Item) /\ Len(z) = b - (a + k) BY <1>0, ItemsAreSeq
<1>3. ASSUME NEW i \in 1 .. b - (a + k) PROVE z[i] = q[k + i]
  <2>1. k + i \in 1 .. b - a /\ a + (k + i) = (a + k) + i OBVIOUS
  <2>2. QED BY <2>1 DEF Items
<1> HIDE DEF q, z
<1>4. k <= Len(q) /\ Len(z) = Len(q) - k BY <1>1, <1>2
<1>5. SubSeq(q, k + 1, Len(q)) = z BY <1>1, <1>2, <1>3, <1>4, SubSeqIs
<1>6. QED BY <1>1, <1>5 DEF q, z

-----------------------------------------------------------------------------
(***************************************************************************)
(* In every step one thread goes on.  It comes to own a lock only when the *)
(* lock is free, and to share ST only when nobody owns it.                 *)
(***************************************************************************)
Moves(t, to) ==
  /\ pc' = [pc EXCEPT ![t] = to]
  /\ to \in PC
  /\ to = "deploy" => OwnsST
  /\ to \in Shares => pc[t] \in Shares \/ SharesST
  /\ to \in Meddling => Free(Meddling)
  /\ to \in Responding => Free(Responding)
  /\ to = "take" => meddles # << >>
  /\ t \in Net => to \notin {"tick", "take", "callback", "say"}
  /\ t \in Report => to \in {"idle", "callback", "say"}
  /\ t = Tick => to \in {"idle", "tick", "take", "say"}

LEMMA OneMoves ==
  ASSUME TypeOK, ThreadInv, Next PROVE \E t \in Thread : \E to \in PC : Moves(t, to)
<1> USE MeddleAssumption
    DEF Moves, Goes, TypeOK, PC, Shares, Meddling, Responding, Clearing
<1>1. ASSUME NEW n \in Net,
             \/ ReqMeddle(n) \/ LockQueue(n) \/ Push(n)
             \/ ReqGetMeddleResponse(n) \/ LockResponses(n) \/ Fetch(n)
      PROVE  \E to \in PC : Moves(n, to)
  <2>1. CASE ReqMeddle(n) BY <2>1 DEF ReqMeddle
  <2>2. CASE LockQueue(n) BY <2>2 DEF LockQueue
  <2>3. CASE Push(n) BY <2>3 DEF Push
  <2>4. CASE ReqGetMeddleResponse(n) BY <2>4 DEF ReqGetMeddleResponse
  <2>5. CASE LockResponses(n) BY <2>5 DEF LockResponses
  <2>6. CASE Fetch(n) BY <2>6 DEF Fetch
  <2>7. QED BY <1>1, <2>1, <2>2, <2>3, <2>4, <2>5, <2>6
<1>2. ASSUME NEW n \in Net,
             \/ DeployStrategy(n) \/ DeployEnds(n)
             \/ CancelStrategy(n) \/ EndStrategy(n) \/ ClearMeddles(n) \/ ClearResponses(n)
      PROVE  \E to \in PC : Moves(n, to)
  <2>1. CASE DeployStrategy(n) BY <2>1 DEF DeployStrategy
  <2>2. CASE DeployEnds(n) BY <2>2 DEF DeployEnds
  <2>3. CASE CancelStrategy(n) BY <2>3 DEF CancelStrategy
  <2>4. CASE EndStrategy(n) BY <2>4 DEF EndStrategy
  <2>5. CASE ClearMeddles(n) BY <2>5 DEF ClearMeddles
  <2>6. CASE ClearResponses(n) BY <2>6 DEF ClearResponses
  <2>7. QED BY <1>2, <2>1, <2>2, <2>3, <2>4, <2>5, <2>6
<1>3. ASSUME NEW t \in Report \cup {Tick}, MeddleResponse(t) PROVE \E to \in PC : Moves(t, to)
  BY <1>3 DEF MeddleResponse
<1>4. ASSUME NEW t \in Report \cup {Tick}, Say(t) PROVE \E to \in PC : Moves(t, to)
  <2>1. CASE t = Tick BY <1>4, <2>1 DEF Say
  <2>2. CASE t # Tick BY <1>4, <2>2 DEF Say
  <2>3. QED BY <2>1, <2>2
<1>5. ASSUME NEW r \in Report, OnReport(r) PROVE \E to \in PC : Moves(r, to)
  BY <1>5 DEF OnReport
<1>6. CASE GetNextMeddle \/ Take \/ OnTick
  <2>1. CASE GetNextMeddle BY <2>1 DEF GetNextMeddle, Thread
  <2>2. CASE Take BY <2>2 DEF Take, Thread
  <2>3. CASE OnTick BY <2>3 DEF OnTick, Thread
  <2>4. QED BY <1>6, <2>1, <2>2, <2>3
<1> HIDE DEF Moves, Goes, TypeOK, PC, Shares, Meddling, Responding, Clearing
<1>7. QED BY <1>1, <1>2, <1>3, <1>4, <1>5, <1>6 DEF Next, Thread

(***************************************************************************)
(* So each thread keeps to its states, and the locks stay with one thread. *)
(***************************************************************************)
LEMMA LockStep == ASSUME IInv, [Next]_vars PROVE ThreadInv' /\ LockInv'
<1> USE DEF IInv, TypeOK
<1>1. CASE UNCHANGED vars BY <1>1 DEF vars, ThreadInv, LockInv
<1>2. CASE Next
  <2>1. PICK t \in Thread, to \in PC : Moves(t, to) BY <1>2, OneMoves
  <2>2. pc' = [pc EXCEPT ![t] = to] BY <2>1 DEF Moves
  <2>3. ThreadInv' BY <2>1, <2>2, MeddleAssumption DEF Moves, ThreadInv, Thread
  <2>4. ASSUME NEW u \in Thread, u # t
        PROVE  /\ to = "deploy" => pc[u] \notin Shares \cup {"deploy"}
               /\ to \in Shares => pc[u] # "deploy"
               /\ to \in Meddling => pc[u] \notin Meddling
               /\ to \in Responding => pc[u] \notin Responding
    <3>1. to = "deploy" => pc[u] \notin Shares \cup {"deploy"} BY <2>1 DEF Moves, OwnsST
    <3>2. to \in Shares => pc[u] # "deploy"
      BY <2>1, <2>4 DEF Moves, SharesST, LockInv
    <3>3. QED BY <2>1, <3>1, <3>2 DEF Moves, Free
  <2>5. LockInv' BY <2>2, <2>4 DEF LockInv, Shares
  <2>6. QED BY <2>3, <2>5
<1>3. QED BY <1>1, <1>2

-----------------------------------------------------------------------------
(***************************************************************************)
(* Which steps change the slot, the commands and the responses.            *)
(***************************************************************************)
LEMMA Effects ==
  ASSUME Next
  PROVE  /\ \/ UNCHANGED slot
            \/ \E n \in Net : DeployStrategy(n) \/ DeployEnds(n) \/ EndStrategy(n)
         /\ \/ UNCHANGED commands
            \/ Take \/ \E n \in Net : Push(n) \/ DeployStrategy(n) \/ ClearMeddles(n)
         /\ \/ UNCHANGED answers
            \/ \E t \in Report \cup {Tick} : Say(t)
            \/ \E n \in Net : Fetch(n) \/ DeployStrategy(n) \/ ClearResponses(n)
<1>1. ASSUME NEW n \in Net,
             \/ ReqMeddle(n) \/ LockQueue(n)
             \/ ReqGetMeddleResponse(n) \/ LockResponses(n) \/ CancelStrategy(n)
      PROVE  UNCHANGED <<slot, commands, answers>>
  BY <1>1 DEF ReqMeddle, LockQueue, ReqGetMeddleResponse, LockResponses, CancelStrategy
<1>2. ASSUME NEW n \in Net, Push(n) \/ ClearMeddles(n) PROVE UNCHANGED <<slot, answers>>
  BY <1>2 DEF Push, ClearMeddles
<1>3. ASSUME NEW n \in Net, Fetch(n) \/ ClearResponses(n) PROVE UNCHANGED <<slot, commands>>
  BY <1>3 DEF Fetch, ClearResponses
<1>4. ASSUME NEW n \in Net, DeployEnds(n) \/ EndStrategy(n)
      PROVE  UNCHANGED <<commands, answers>>
  BY <1>4 DEF DeployEnds, EndStrategy
<1>5. ASSUME NEW t \in Report \cup {Tick}, MeddleResponse(t)
      PROVE  UNCHANGED <<slot, commands, answers>>
  BY <1>5 DEF MeddleResponse
<1>6. ASSUME NEW t \in Report \cup {Tick}, Say(t) PROVE UNCHANGED <<slot, commands>>
  BY <1>6 DEF Say
<1>7. ASSUME NEW r \in Report, OnReport(r) PROVE UNCHANGED <<slot, commands, answers>>
  BY <1>7 DEF OnReport
<1>8. GetNextMeddle \/ OnTick => UNCHANGED <<slot, commands, answers>>
  BY DEF GetNextMeddle, OnTick
<1>9. Take => UNCHANGED <<slot, answers>> BY DEF Take
<1>10. QED BY <1>1, <1>2, <1>3, <1>4, <1>5, <1>6, <1>7, <1>8, <1>9 DEF Next

(***************************************************************************)
(* A strategy is attached under the exclusive lock of its deployment and   *)
(* detached before it is cleared.                                          *)
(***************************************************************************)
LEMMA LifeStep == ASSUME IInv, [Next]_vars PROVE LifeInv'
<1> USE MeddleAssumption DEF IInv, TypeOK, LifeInv, Goes, Clearing, Thread
<1>1. CASE UNCHANGED vars BY <1>1 DEF vars, slot
<1>2. ASSUME NEW n \in Net, ReqMeddle(n) \/ ReqGetMeddleResponse(n) \/ CancelStrategy(n)
      PROVE  LifeInv'
  BY <1>2 DEF ReqMeddle, ReqGetMeddleResponse, CancelStrategy, slot
<1>3. ASSUME NEW n \in Net, LockQueue(n) \/ LockResponses(n) PROVE LifeInv'
  BY <1>3 DEF LockQueue, LockResponses, slot
<1>4. ASSUME NEW n \in Net, Push(n) \/ Fetch(n) PROVE LifeInv'
  <2>1. CASE Push(n) BY <2>1 DEF Push, slot
  <2>2. CASE Fetch(n) BY <2>2 DEF Fetch, slot
  <2>3. QED BY <1>4, <2>1, <2>2
<1>5. ASSUME NEW n \in Net, ClearMeddles(n) \/ ClearResponses(n) PROVE LifeInv'
  BY <1>5 DEF ClearMeddles, ClearResponses, slot
<1>6. ASSUME NEW n \in Net, DeployStrategy(n) PROVE LifeInv'
  <2>1. \A t \in Thread : pc[t] \notin Clearing BY <1>6 DEF DeployStrategy, OwnsST, Shares
  <2>2. QED BY <1>6, <2>1 DEF DeployStrategy
<1>7. ASSUME NEW n \in Net, DeployEnds(n) PROVE LifeInv'
  <2>1. /\ pc[n] = "deploy" /\ pc' = [pc EXCEPT ![n] = "idle"] /\ UNCHANGED deployed
        /\ \/ attached' = TRUE /\ UNCHANGED strategy
           \/ strategy' = 0 /\ UNCHANGED attached
    BY <1>7 DEF DeployEnds
  <2>2. \A t \in Thread : t # n => pc[t] \notin Clearing \cup {"deploy"}
    BY <2>1 DEF LockInv, Shares
  <2>3. QED BY <2>1, <2>2
<1>8. ASSUME NEW n \in Net, EndStrategy(n) PROVE LifeInv'
  <2>1. /\ pc[n] = "cancel" /\ pc' = [pc EXCEPT ![n] = "clearMeddles"] /\ pc[Tick] = "idle"
        /\ attached' = FALSE /\ strategy' = 0 /\ UNCHANGED deployed
    BY <1>8 DEF EndStrategy
  <2>2. \A t \in Thread : pc[t] # "deploy" BY <2>1 DEF LockInv, Shares
  <2>3. QED BY <2>1, <2>2
<1>9. ASSUME NEW t \in Report \cup {Tick}, MeddleResponse(t) \/ Say(t) PROVE LifeInv'
  <2>1. CASE MeddleResponse(t) BY <2>1 DEF MeddleResponse, slot
  <2>2. CASE Say(t) BY <2>2 DEF Say, slot
  <2>3. QED BY <1>9, <2>1, <2>2
<1>10. ASSUME NEW r \in Report, OnReport(r) PROVE LifeInv' BY <1>10 DEF OnReport, slot
<1>11. CASE GetNextMeddle \/ Take \/ OnTick
  BY <1>11 DEF GetNextMeddle, Take, OnTick, slot
<1> HIDE DEF IInv, TypeOK, LifeInv, Goes, Clearing, Thread
<1>12. QED
  BY <1>1, <1>2, <1>3, <1>4, <1>5, <1>6, <1>7, <1>8, <1>9, <1>10, <1>11 DEF Next

(***************************************************************************)
(* A strategy that is attached is the last one; nobody clears its queues.  *)
(***************************************************************************)
LEMMA Present ==
  ASSUME IInv, strategy # 0
  PROVE  /\ strategy = deployed /\ strategy \in 1 .. MaxDeploy
         /\ \A t \in Thread : pc[t] \notin Clearing
BY MeddleAssumption DEF IInv, TypeOK, LifeInv

(***************************************************************************)
(* The commands of a strategy stay complete: the queue gains the next one  *)
(* at its end, loses the first one, or starts anew.                        *)
(***************************************************************************)
LEMMA MeddlesStep == ASSUME IInv, [Next]_vars PROVE MeddlesComplete'
<1> SUFFICES ASSUME strategy' # 0 PROVE meddles' = Items(strategy, taken, sent)'
  BY DEF MeddlesComplete
<1> USE MeddleAssumption
<1>1. TypeOK /\ MeddlesComplete /\ CountInv BY DEF IInv
<1>2. ASSUME UNCHANGED <<strategy, commands>> PROVE meddles' = Items(strategy, taken, sent)'
  BY <1>1, <1>2 DEF MeddlesComplete, commands, Items
<1>3. ASSUME NEW n \in Net, DeployStrategy(n) PROVE meddles' = Items(strategy, taken, sent)'
  <2>1. meddles' = << >> /\ taken' = 0 /\ sent' = 0 BY <1>3 DEF DeployStrategy
  <2>2. Items(strategy', 0, 0) = << >> BY DEF Items
  <2>3. QED BY <2>1, <2>2
<1>4. ASSUME NEW n \in Net, DeployEnds(n) \/ EndStrategy(n)
      PROVE  meddles' = Items(strategy, taken, sent)'
  <2>1. UNCHANGED <<strategy, commands>> BY <1>4 DEF DeployEnds, EndStrategy
  <2>2. QED BY <1>2, <2>1
<1>5. ASSUME UNCHANGED slot, NEW n \in Net, Push(n)
      PROVE  meddles' = Items(strategy, taken, sent)'
  <2>1. /\ strategy' = strategy /\ strategy # 0 /\ taken' = taken /\ sent' = sent + 1
        /\ meddles' = Append(meddles, [of |-> deployed, nr |-> sent + 1])
    BY <1>5 DEF Push, slot
  <2>2. strategy = deployed /\ strategy \in 1 .. MaxDeploy BY <2>1, Present
  <2>3. meddles = Items(strategy, taken, sent) BY <1>1, <2>1 DEF MeddlesComplete
  <2>4. taken \in Nat /\ sent \in Nat /\ taken <= sent BY <1>1 DEF TypeOK
  <2>5. meddles' = Items(strategy, taken, sent + 1) BY <2>1, <2>2, <2>3, <2>4, ItemsAppend
  <2>6. QED BY <2>1, <2>5
<1>6. ASSUME UNCHANGED slot, Take PROVE meddles' = Items(strategy, taken, sent)'
  <2>1. /\ strategy' = strategy /\ strategy # 0 /\ taken' = taken + 1 /\ sent' = sent
        /\ meddles' = Tail(meddles) /\ meddles # << >>
    BY <1>1, <1>6 DEF Take, slot, Goes, CountInv
  <2>2. strategy \in 1 .. MaxDeploy BY <2>1, Present
  <2>3. meddles = Items(strategy, taken, sent) BY <1>1, <2>1 DEF MeddlesComplete
  <2>4. taken \in Nat /\ sent \in Nat /\ taken <= sent BY <1>1 DEF TypeOK
  <2>5. meddles \in Seq(Item) /\ Len(meddles) = sent - taken BY <2>2, <2>3, <2>4, ItemsAreSeq
  <2>6. Tail(meddles) = SubSeq(meddles, 1 + 1, sent - taken)
    BY <2>1, <2>5, TailIsSubSeq
  <2>7. taken + 1 <= sent BY <2>1, <2>4, <2>5, EmptySeq
  <2>8. Tail(meddles) = Items(strategy, taken + 1, sent)
    BY <2>2, <2>3, <2>4, <2>6, <2>7, ItemsFront
  <2>9. QED BY <2>1, <2>8
<1>7. ASSUME UNCHANGED slot, NEW n \in Net, ClearMeddles(n) PROVE FALSE
  <2>1. n \in Thread /\ pc[n] \in Clearing /\ strategy # 0
    BY <1>7 DEF ClearMeddles, Goes, Clearing, Thread, slot
  <2>2. QED BY <2>1, Present
<1>8. CASE UNCHANGED vars BY <1>2, <1>8 DEF vars, slot, commands
<1>9. CASE Next
  <2>1. UNCHANGED slot \/ \E n \in Net : DeployStrategy(n) \/ DeployEnds(n) \/ EndStrategy(n)
    BY <1>9, Effects
  <2>2. CASE UNCHANGED slot
    <3>1. CASE UNCHANGED commands BY <1>2, <2>2, <3>1 DEF slot
    <3>2. QED BY <1>3, <1>5, <1>6, <1>7, <1>9, <2>2, <3>1, Effects
  <2>3. QED BY <1>3, <1>4, <2>1, <2>2
<1>10. QED BY <1>8, <1>9

(***************************************************************************)
(* The responses of a strategy stay complete.                              *)
(***************************************************************************)
LEMMA ResponsesStep == ASSUME IInv, [Next]_vars PROVE ResponsesComplete'
<1> SUFFICES ASSUME strategy' # 0 PROVE responses' = Items(strategy, fetched, said)'
  BY DEF ResponsesComplete
<1> USE MeddleAssumption
<1>1. TypeOK /\ ResponsesComplete /\ CountInv BY DEF IInv
<1>2. ASSUME UNCHANGED <<strategy, answers>> PROVE responses' = Items(strategy, fetched, said)'
  BY <1>1, <1>2 DEF ResponsesComplete, answers, Items
<1>3. ASSUME NEW n \in Net, DeployStrategy(n) PROVE responses' = Items(strategy, fetched, said)'
  <2>1. responses' = << >> /\ fetched' = 0 /\ said' = 0 BY <1>3 DEF DeployStrategy
  <2>2. Items(strategy', 0, 0) = << >> BY DEF Items
  <2>3. QED BY <2>1, <2>2
<1>4. ASSUME NEW n \in Net, DeployEnds(n) \/ EndStrategy(n)
      PROVE  responses' = Items(strategy, fetched, said)'
  <2>1. UNCHANGED <<strategy, answers>> BY <1>4 DEF DeployEnds, EndStrategy
  <2>2. QED BY <1>2, <2>1
<1>5. ASSUME UNCHANGED slot, NEW t \in Report \cup {Tick}, Say(t)
      PROVE  responses' = Items(strategy, fetched, said)'
  <2>1. /\ strategy' = strategy /\ strategy # 0 /\ fetched' = fetched /\ said' = said + 1
        /\ responses' = Append(responses, [of |-> deployed, nr |-> said + 1])
    BY <1>5 DEF Say, slot
  <2>2. strategy = deployed /\ strategy \in 1 .. MaxDeploy BY <2>1, Present
  <2>3. responses = Items(strategy, fetched, said) BY <1>1, <2>1 DEF ResponsesComplete
  <2>4. fetched \in Nat /\ said \in Nat /\ fetched <= said BY <1>1 DEF TypeOK
  <2>5. responses' = Items(strategy, fetched, said + 1) BY <2>1, <2>2, <2>3, <2>4, ItemsAppend
  <2>6. QED BY <2>1, <2>5
<1>6. ASSUME UNCHANGED slot, NEW n \in Net, Fetch(n)
      PROVE  responses' = Items(strategy, fetched, said)'
  <2>1. PICK k : /\ k = IF Len(responses) < BatchSize THEN Len(responses) ELSE BatchSize
                 /\ strategy' = strategy /\ strategy # 0 /\ said' = said
                 /\ responses' = SubSeq(responses, k + 1, Len(responses))
                 /\ fetched' = fetched + k
    BY <1>6 DEF Fetch, slot
  <2>2. strategy \in 1 .. MaxDeploy BY <2>1, Present
  <2>3. responses = Items(strategy, fetched, said) BY <1>1, <2>1 DEF ResponsesComplete
  <2>4. fetched \in Nat /\ said \in Nat /\ fetched <= said BY <1>1 DEF TypeOK
  <2>5. responses \in Seq(Item) /\ Len(responses) = said - fetched
    BY <2>2, <2>3, <2>4, ItemsAreSeq
  <2>6. k \in Nat /\ fetched + k <= said BY <2>1, <2>4, <2>5
  <2>7. \A i \in Nat : fetched + i <= said =>
          SubSeq(Items(strategy, fetched, said), i + 1, said - fetched)
            = Items(strategy, fetched + i, said)
    BY <2>2, <2>4, ItemsFront
  <2>8. SubSeq(responses, k + 1, said - fetched) = Items(strategy, fetched + k, said)
    BY <2>3, <2>6, <2>7
  <2>9. QED BY <2>1, <2>5, <2>8
<1>7. ASSUME UNCHANGED slot, NEW n \in Net, ClearResponses(n) PROVE FALSE
  <2>1. n \in Thread /\ pc[n] \in Clearing /\ strategy # 0
    BY <1>7 DEF ClearResponses, Goes, Clearing, Thread, slot
  <2>2. QED BY <2>1, Present
<1>8. CASE UNCHANGED vars BY <1>2, <1>8 DEF vars, slot, answers
<1>9. CASE Next
  <2>1. UNCHANGED slot \/ \E n \in Net : DeployStrategy(n) \/ DeployEnds(n) \/ EndStrategy(n)
    BY <1>9, Effects
  <2>2. CASE UNCHANGED slot
    <3>1. CASE UNCHANGED answers BY <1>2, <2>2, <3>1 DEF slot
    <3>2. QED BY <1>3, <1>5, <1>6, <1>7, <1>9, <2>2, <3>1, Effects
  <2>3. QED BY <1>3, <1>4, <2>1, <2>2
<1>10. QED BY <1>8, <1>9

(***************************************************************************)
(* A thread asks for the queue of commands only after ReqMeddle, and says  *)
(* something only after MeddleResponse has found it within the bound.      *)
(***************************************************************************)
LEMMA NewRequest ==
  ASSUME TypeOK, Next, \A n \in Net : ~ReqMeddle(n),
         NEW t \in Thread, pc'[t] \in {"request", "push"}
  PROVE  pc[t] \in {"request", "push"}
<1> USE MeddleAssumption DEF TypeOK, Goes, Thread
<1>1. ASSUME NEW n \in Net, LockQueue(n) \/ Push(n) PROVE pc[t] \in {"request", "push"}
  BY <1>1 DEF LockQueue, Push
<1>2. ASSUME NEW n \in Net, ReqGetMeddleResponse(n) \/ LockResponses(n) \/ Fetch(n)
      PROVE  pc[t] \in {"request", "push"}
  <2>1. \E to \in {"poll", "fetch", "idle"} : pc' = [pc EXCEPT ![n] = to]
    BY <1>2 DEF ReqGetMeddleResponse, LockResponses, Fetch
  <2>2. QED BY <2>1
<1>3. ASSUME NEW n \in Net,
             \/ DeployStrategy(n) \/ DeployEnds(n) \/ CancelStrategy(n)
             \/ EndStrategy(n) \/ ClearMeddles(n) \/ ClearResponses(n)
      PROVE  pc[t] \in {"request", "push"}
  <2>1. \E to \in {"deploy", "idle", "cancel", "clearMeddles", "clearResponses"} :
          pc' = [pc EXCEPT ![n] = to]
    BY <1>3 DEF DeployStrategy, DeployEnds, CancelStrategy, EndStrategy, ClearMeddles,
                ClearResponses
  <2>2. QED BY <2>1
<1>4. ASSUME NEW u \in Report \cup {Tick}, MeddleResponse(u) \/ Say(u)
      PROVE  pc[t] \in {"request", "push"}
  <2>1. \E to \in {"say", "tick", "callback"} : pc' = [pc EXCEPT ![u] = to]
    BY <1>4 DEF MeddleResponse, Say
  <2>2. QED BY <2>1
<1>5. ASSUME NEW r \in Report, OnReport(r) PROVE pc[t] \in {"request", "push"}
  BY <1>5 DEF OnReport
<1>6. CASE GetNextMeddle \/ Take \/ OnTick
  BY <1>6 DEF GetNextMeddle, Take, OnTick
<1> HIDE DEF TypeOK, Goes, Thread
<1>7. QED BY <1>1, <1>2, <1>3, <1>4, <1>5, <1>6 DEF Next

LEMMA NewSay ==
  ASSUME TypeOK, Next, NEW t \in Thread, pc'[t] = "say"
  PROVE  pc[t] = "say" \/ said < MaxSaid
<1> USE MeddleAssumption DEF TypeOK, Goes, Thread
<1>1. ASSUME NEW n \in Net,
             \/ ReqMeddle(n) \/ LockQueue(n) \/ Push(n)
             \/ ReqGetMeddleResponse(n) \/ LockResponses(n) \/ Fetch(n)
      PROVE  pc[t] = "say"
  <2>1. \E to \in {"request", "push", "poll", "fetch", "idle"} : pc' = [pc EXCEPT ![n] = to]
    BY <1>1 DEF ReqMeddle, LockQueue, Push, ReqGetMeddleResponse, LockResponses, Fetch
  <2>2. QED BY <2>1
<1>2. ASSUME NEW n \in Net,
             \/ DeployStrategy(n) \/ DeployEnds(n) \/ CancelStrategy(n)
             \/ EndStrategy(n) \/ ClearMeddles(n) \/ ClearResponses(n)
      PROVE  pc[t] = "say"
  <2>1. \E to \in {"deploy", "idle", "cancel", "clearMeddles", "clearResponses"} :
          pc' = [pc EXCEPT ![n] = to]
    BY <1>2 DEF DeployStrategy, DeployEnds, CancelStrategy, EndStrategy, ClearMeddles,
                ClearResponses
  <2>2. QED BY <2>1
<1>3. ASSUME NEW u \in Report \cup {Tick}, MeddleResponse(u) PROVE said < MaxSaid
  BY <1>3 DEF MeddleResponse
<1>4. ASSUME NEW u \in Report \cup {Tick}, Say(u) PROVE pc[t] = "say"
  <2>1. \E to \in {"tick", "callback"} : pc' = [pc EXCEPT ![u] = to] BY <1>4 DEF Say
  <2>2. QED BY <2>1
<1>5. ASSUME NEW r \in Report, OnReport(r) PROVE pc[t] = "say"
  BY <1>5 DEF OnReport
<1>6. CASE GetNextMeddle \/ Take \/ OnTick
  BY <1>6 DEF GetNextMeddle, Take, OnTick
<1> HIDE DEF TypeOK, Goes, Thread
<1>7. QED BY <1>1, <1>2, <1>3, <1>4, <1>5, <1>6 DEF Next

(***************************************************************************)
(* The number of requests under way changes by at most one in a step.      *)
(***************************************************************************)
Asking == {"request", "push"}

LEMMA UnderWayStep ==
  ASSUME TypeOK, NEW t \in Thread, NEW to \in PC, pc' = [pc EXCEPT ![t] = to]
  PROVE  /\ UnderWay \in Nat /\ UnderWay' \in Nat
         /\ to \notin Asking => UnderWay' <= UnderWay
         /\ to \notin Asking /\ pc[t] \in Asking => UnderWay' = UnderWay - 1
         /\ to \in Asking /\ pc[t] \in Asking => UnderWay' = UnderWay
         /\ to \in Asking => UnderWay' <= UnderWay + 1
<1> DEFINE S == {u \in Thread : pc[u] \in Asking}
           T == {u \in Thread : pc'[u] \in Asking}
<1>1. IsFiniteSet(S) /\ IsFiniteSet(T)
  <2>1. S \subseteq Thread /\ T \subseteq Thread OBVIOUS
  <2>2. QED BY <2>1, FS_Subset, MeddleAssumption
<1>2. UnderWay = Cardinality(S) /\ UnderWay' = Cardinality(T) BY DEF UnderWay, Asking
<1>3. T = IF to \in Asking THEN S \cup {t} ELSE S \ {t} BY DEF TypeOK
<1>4. t \in S <=> pc[t] \in Asking OBVIOUS
<1> HIDE DEF S, T
<1>5. Cardinality(S) \in Nat BY <1>1, FS_CardinalityType
<1>6. Cardinality(S \cup {t}) = IF t \in S THEN Cardinality(S) ELSE Cardinality(S) + 1
  BY <1>1, FS_AddElement
<1>7. Cardinality(S \ {t}) = IF t \in S THEN Cardinality(S) - 1 ELSE Cardinality(S)
  BY <1>1, FS_RemoveElement
<1>8. Cardinality(T) \in Nat BY <1>1, FS_CardinalityType
<1>9. QED BY <1>2, <1>3, <1>4, <1>5, <1>6, <1>7, <1>8

(***************************************************************************)
(* The bounds counted in the guards hold when the threads come to use      *)
(* them, and a queue keeps its type.                                       *)
(***************************************************************************)
SentInv == sent + UnderWay <= MaxSent

LEMMA Within ==
  ASSUME NEW s \in Nat, NEW t \in Nat, NEW u \in Nat, NEW v \in Nat, NEW m \in Nat,
         s + u <= m, t <= s, v <= u
  PROVE  t + v <= m
OBVIOUS

\* A command that is pushed is no longer under way.
LEMMA OneSent ==
  ASSUME NEW s \in Nat, NEW t \in Nat, NEW u \in Nat, NEW v \in Nat, NEW m \in Nat,
         s + u <= m, t = s + 1, v = u - 1
  PROVE  t + v <= m
OBVIOUS

\* One more command under way, while there is room.
LEMMA Room ==
  ASSUME NEW s \in Nat, NEW t \in Nat, NEW u \in Nat, NEW v \in Nat, NEW m \in Nat,
         s + u < m, t = s, v <= u + 1
  PROVE  t + v <= m
OBVIOUS

LEMMA SentStep == ASSUME IInv, [Next]_vars PROVE SentInv' /\ sent' \in Nat
<1> USE MeddleAssumption DEF SentInv
<1>1. TypeOK /\ SentInv /\ sent \in Nat BY DEF IInv, TypeOK, CountInv
<1>2. CASE UNCHANGED vars BY <1>1, <1>2 DEF vars, commands, UnderWay
<1>3. CASE Next
  <2>1. PICK t \in Thread, to \in PC : Moves(t, to) BY <1>3, OneMoves DEF IInv
  <2>2. pc' = [pc EXCEPT ![t] = to] BY <2>1 DEF Moves
  <2>3. /\ UnderWay \in Nat /\ UnderWay' \in Nat
        /\ to \notin Asking => UnderWay' <= UnderWay
        /\ to \notin Asking /\ pc[t] \in Asking => UnderWay' = UnderWay - 1
        /\ to \in Asking /\ pc[t] \in Asking => UnderWay' = UnderWay
        /\ to \in Asking => UnderWay' <= UnderWay + 1
    BY <1>1, <2>2, UnderWayStep
  <2>4. ASSUME NEW n \in Net, Push(n) PROVE SentInv' /\ sent' \in Nat
    <3>1. pc[n] = "push" /\ pc'[n] = "idle" /\ sent' = sent + 1
      BY <1>1, <2>4 DEF Push, Goes, TypeOK, Thread
    <3>2. n = t BY <1>1, <2>2, <3>1 DEF TypeOK, Thread
    <3>3. pc[t] \in Asking /\ to \notin Asking
      BY <1>1, <2>2, <3>1, <3>2 DEF Asking, TypeOK
    <3>4. UnderWay' = UnderWay - 1 BY <2>3, <3>3
    <3>5. sent' \in Nat BY <1>1, <3>1
    <3>6. QED BY <1>1, <2>3, <3>1, <3>4, <3>5, OneSent
  <2>5. ASSUME NEW n \in Net, DeployStrategy(n) PROVE SentInv' /\ sent' \in Nat
    <3>1. pc[n] = "idle" /\ pc'[n] = "deploy" /\ sent' = 0
      BY <1>1, <2>5 DEF DeployStrategy, Goes, TypeOK, Thread
    <3>2. n = t BY <1>1, <2>2, <3>1 DEF TypeOK, Thread
    <3>3. to \notin Asking BY <1>1, <2>2, <3>1, <3>2 DEF Asking, TypeOK
    <3>4. UnderWay' <= UnderWay /\ sent' \in Nat /\ sent' <= sent BY <1>1, <2>3, <3>1, <3>3
    <3>5. QED BY <1>1, <2>3, <3>4, Within
  <2>6. ASSUME UNCHANGED sent, NEW n \in Net, ReqMeddle(n) PROVE SentInv' /\ sent' \in Nat
    <3>1. sent + UnderWay < MaxSent /\ pc[n] = "idle" /\ pc'[n] = "request"
      BY <1>1, <2>6 DEF ReqMeddle, Goes, TypeOK, Thread
    <3>2. UnderWay' <= UnderWay + 1
      <4>1. CASE to \in Asking BY <2>3, <4>1
      <4>2. CASE to \notin Asking BY <2>3, <4>2
      <4>3. QED BY <4>1, <4>2
    <3>3. sent' = sent /\ sent' \in Nat BY <1>1, <2>6
    <3>4. QED BY <1>1, <2>3, <3>1, <3>2, <3>3, Room
  <2>7. ASSUME UNCHANGED sent, \A n \in Net : ~ReqMeddle(n) PROVE SentInv' /\ sent' \in Nat
    <3>1. to \in Asking => pc[t] \in Asking
      <4>1. ASSUME to \in Asking, pc[t] \notin Asking PROVE FALSE
        <5>1. pc'[t] \in {"request", "push"} /\ pc[t] \notin {"request", "push"}
          BY <1>1, <2>2, <4>1 DEF Asking, TypeOK
        <5>2. QED BY <1>1, <1>3, <2>7, <5>1, NewRequest
      <4>2. QED BY <4>1
    <3>2. UnderWay' <= UnderWay BY <2>3, <3>1
    <3>3. sent' \in Nat /\ sent' <= sent BY <1>1, <2>7
    <3>4. QED BY <1>1, <2>3, <3>2, <3>3, Within
  <2>8. UNCHANGED sent \/ \E n \in Net : Push(n) \/ DeployStrategy(n)
    <3>1. Take => UNCHANGED sent BY DEF Take
    <3>2. \A n \in Net : ClearMeddles(n) => UNCHANGED sent BY DEF ClearMeddles
    <3>3. QED BY <1>3, <3>1, <3>2, Effects DEF commands
  <2>9. QED BY <2>4, <2>5, <2>6, <2>7, <2>8
<1>4. QED BY <1>2, <1>3

(***************************************************************************)
(* The responses in the queue have not been fetched, and one that is about *)
(* to be put there is within the bound.                                    *)
(***************************************************************************)
SaidInv ==
  /\ responses \in Seq(Item) /\ fetched \in 0 .. said /\ said \in 0 .. MaxSaid
  /\ fetched + Len(responses) <= said
  /\ \A t \in Thread : pc[t] = "say" => said < MaxSaid

LEMMA SaidStep == ASSUME IInv, [Next]_vars PROVE SaidInv'
<1> USE MeddleAssumption
<1>1. TypeOK /\ SaidInv BY DEF IInv, TypeOK, CountInv, SaidInv
<1>2. ASSUME UNCHANGED answers, \A t \in Thread : pc'[t] = "say" => pc[t] = "say" \/ said < MaxSaid
      PROVE  SaidInv'
  BY <1>1, <1>2 DEF SaidInv, answers
<1>3. ASSUME NEW t \in Report \cup {Tick}, Say(t) PROVE SaidInv'
  <2>1. /\ pc[t] = "say" /\ t \in Thread /\ said' = said + 1 /\ fetched' = fetched
        /\ responses' = Append(responses, [of |-> deployed, nr |-> said + 1])
        /\ pc' = [pc EXCEPT ![t] = IF t = Tick THEN "tick" ELSE "callback"]
    BY <1>3 DEF Say, Goes, Thread
  <2>2. deployed \in 1 .. MaxDeploy BY <1>1, <2>1 DEF IInv, LifeInv, TypeOK
  <2>3. said \in 0 .. MaxSaid /\ said < MaxSaid BY <1>1, <2>1 DEF SaidInv
  <2>4. [of |-> deployed, nr |-> said + 1] \in Item BY <2>2, <2>3 DEF Item
  <2>5. responses' \in Seq(Item) /\ Len(responses') = Len(responses) + 1
    BY <1>1, <2>1, <2>4, AppendProperties DEF SaidInv
  <2>6. \A u \in Thread : pc'[u] # "say"
    <3>1. \A u \in Thread : u # t => pc[u] # "say"
      BY <2>1 DEF IInv, LockInv, Responding
    <3>2. QED BY <1>1, <2>1, <3>1 DEF TypeOK
  <2>7. Len(responses) \in Nat BY <1>1 DEF SaidInv
  <2>8. /\ fetched \in 0 .. said /\ fetched + Len(responses) <= said
    BY <1>1 DEF SaidInv
  <2>9. QED BY <2>1, <2>3, <2>5, <2>6, <2>7, <2>8 DEF SaidInv
<1>4. ASSUME NEW n \in Net, Fetch(n) PROVE SaidInv'
  <2>1. PICK k : /\ k = IF Len(responses) < BatchSize THEN Len(responses) ELSE BatchSize
                 /\ responses' = SubSeq(responses, k + 1, Len(responses))
                 /\ fetched' = fetched + k /\ said' = said
                 /\ pc' = [pc EXCEPT ![n] = "idle"]
    BY <1>4 DEF Fetch, Goes
  <2>2. PICK len \in Nat : len = Len(responses) BY <1>1 DEF SaidInv
  <2>3. k \in Nat /\ k <= len BY <2>1, <2>2
  <2>4. \A i \in k + 1 .. len : responses[i] \in Item BY <1>1, <2>2, <2>3 DEF SaidInv
  <2>5. /\ SubSeq(responses, k + 1, len) \in Seq(Item)
        /\ Len(SubSeq(responses, k + 1, len)) = IF k + 1 <= len THEN len - (k + 1) + 1 ELSE 0
    BY <2>2, <2>3, <2>4, SubSeqProperties
  <2>6. responses' \in Seq(Item) /\ Len(responses') = len - k
    <3>1. responses' = SubSeq(responses, k + 1, len) BY <2>1, <2>2
    <3>2. (IF k + 1 <= len THEN len - (k + 1) + 1 ELSE 0) = len - k BY <2>3
    <3>3. QED BY <2>5, <3>1, <3>2
  <2>7. fetched \in 0 .. said /\ said \in 0 .. MaxSaid /\ fetched + len <= said
    BY <1>1, <2>2 DEF SaidInv
  <2>8. \A t \in Thread : pc'[t] = "say" => pc[t] = "say" BY <1>1, <2>1 DEF TypeOK
  <2>9. \A t \in Thread : pc'[t] = "say" => said' < MaxSaid BY <1>1, <2>1, <2>8 DEF SaidInv
  <2>10. fetched' \in 0 .. said /\ fetched' + (len - k) <= said BY <2>1, <2>3, <2>7
  <2>11. QED BY <2>1, <2>6, <2>7, <2>9, <2>10 DEF SaidInv
<1>5. ASSUME NEW n \in Net, DeployStrategy(n) PROVE SaidInv'
  <2>1. /\ responses' = << >> /\ fetched' = 0 /\ said' = 0 /\ OwnsST
        /\ pc' = [pc EXCEPT ![n] = "deploy"]
    BY <1>5 DEF DeployStrategy, Goes
  <2>2. \A t \in Thread : pc'[t] # "say"
    BY <1>1, <2>1 DEF TypeOK, OwnsST, Shares, Responding
  <2>3. QED BY <2>1, <2>2 DEF SaidInv
<1>6. ASSUME NEW n \in Net, ClearResponses(n) PROVE SaidInv'
  <2>1. /\ responses' = << >> /\ UNCHANGED <<fetched, said>>
        /\ pc' = [pc EXCEPT ![n] = "idle"]
    BY <1>6 DEF ClearResponses, Goes
  <2>2. \A t \in Thread : pc'[t] = "say" => pc[t] = "say" BY <1>1, <2>1 DEF TypeOK
  <2>3. QED BY <1>1, <2>1, <2>2 DEF SaidInv
<1>7. CASE UNCHANGED vars
  <2>1. UNCHANGED answers /\ pc' = pc BY <1>7 DEF vars, answers
  <2>2. QED BY <1>2, <2>1
<1>8. CASE Next
  <2>1. CASE UNCHANGED answers
    <3>1. \A t \in Thread : pc'[t] = "say" => pc[t] = "say" \/ said < MaxSaid
      BY <1>1, <1>8, NewSay
    <3>2. QED BY <1>2, <2>1, <3>1
  <2>2. QED BY <1>3, <1>4, <1>5, <1>6, <1>8, <2>1, Effects
<1>9. QED BY <1>7, <1>8

(***************************************************************************)
(* The slot keeps its type.                                                *)
(***************************************************************************)
SlotInv ==
  strategy \in {0, deployed} /\ deployed \in 0 .. MaxDeploy /\ attached \in BOOLEAN

LEMMA SlotStep == ASSUME IInv, [Next]_vars PROVE SlotInv'
<1> USE MeddleAssumption
<1>1. SlotInv BY DEF IInv, TypeOK, SlotInv
<1>2. CASE UNCHANGED slot BY <1>1, <1>2 DEF SlotInv, slot
<1>3. ASSUME NEW n \in Net, DeployStrategy(n) PROVE SlotInv'
  BY <1>1, <1>3 DEF DeployStrategy, SlotInv
<1>4. ASSUME NEW n \in Net, DeployEnds(n) PROVE SlotInv'
  BY <1>1, <1>4 DEF DeployEnds, SlotInv
<1>5. ASSUME NEW n \in Net, EndStrategy(n) PROVE SlotInv'
  BY <1>1, <1>5 DEF EndStrategy, SlotInv
<1>6. CASE UNCHANGED vars BY <1>2, <1>6 DEF vars, slot
<1>7. CASE Next BY <1>2, <1>3, <1>4, <1>5, <1>7, Effects
<1>8. QED BY <1>6, <1>7

(***************************************************************************)
(* So do the commands, and one that the strategy is about to take is there *)
(* still: nobody clears the queue of a strategy that is called.            *)
(***************************************************************************)
CommandInv ==
  /\ meddles \in Seq(Item) /\ taken \in 0 .. sent
  /\ pc[Tick] = "take" => meddles # << >>

LEMMA CommandStep == ASSUME IInv, [Next]_vars PROVE CommandInv'
<1> USE MeddleAssumption
<1>1. TypeOK /\ CommandInv /\ ThreadInv /\ LifeInv /\ Tick \in Thread
  BY DEF IInv, TypeOK, CountInv, CommandInv, Thread
<1>2. ASSUME UNCHANGED commands, pc'[Tick] = "take" => pc[Tick] = "take" \/ meddles # << >>
      PROVE  CommandInv'
  BY <1>1, <1>2 DEF CommandInv, commands
<1>3. ASSUME Take PROVE CommandInv'
  <2>1. /\ pc[Tick] = "take" /\ pc'[Tick] = "tick" /\ sent' = sent
        /\ meddles' = Tail(meddles) /\ taken' = taken + 1
    BY <1>1, <1>3 DEF Take, Goes, TypeOK
  <2>2. strategy # 0 BY <1>1, <2>1 DEF LifeInv
  <2>3. taken \in Nat /\ sent \in Nat /\ taken <= sent BY <1>1 DEF TypeOK
  <2>4. meddles \in Seq(Item) /\ meddles # << >> BY <1>1, <2>1 DEF CommandInv
  <2>5. meddles = Items(strategy, taken, sent) BY <2>2 DEF IInv, MeddlesComplete
  <2>6. Len(meddles) = sent - taken BY <2>2, <2>3, <2>5, Present, ItemsAreSeq
  <2>7. Len(meddles) # 0 BY <2>4, EmptySeq
  <2>8. taken + 1 <= sent BY <2>3, <2>6, <2>7
  <2>9. Tail(meddles) \in Seq(Item) BY <2>4
  <2>10. QED BY <2>1, <2>3, <2>8, <2>9 DEF CommandInv
<1>4. ASSUME NEW n \in Net, Push(n) PROVE CommandInv'
  <2>1. /\ pc[n] = "push" /\ n \in Thread /\ sent' = sent + 1 /\ taken' = taken
        /\ meddles' = Append(meddles, [of |-> deployed, nr |-> sent + 1])
    BY <1>4 DEF Push, Goes, Thread
  <2>2. deployed \in 1 .. MaxDeploy BY <1>1, <2>1 DEF LifeInv, TypeOK
  <2>3. taken \in Nat /\ sent \in Nat /\ taken <= sent BY <1>1 DEF TypeOK
  <2>4. [of |-> deployed, nr |-> sent + 1] \in Item BY <2>2, <2>3 DEF Item
  <2>5. meddles' \in Seq(Item) /\ Len(meddles') = Len(meddles) + 1 /\ Len(meddles) \in Nat
    BY <1>1, <2>1, <2>4, AppendProperties DEF CommandInv
  <2>6. meddles' # << >> BY <2>5, EmptySeq
  <2>7. taken' \in 0 .. sent' BY <2>1, <2>3
  <2>8. QED BY <2>5, <2>6, <2>7 DEF CommandInv
<1>5. ASSUME NEW n \in Net, DeployStrategy(n) PROVE CommandInv'
  <2>1. /\ n \in Net /\ meddles' = << >> /\ taken' = 0 /\ sent' = 0 /\ OwnsST
        /\ pc' = [pc EXCEPT ![n] = "deploy"]
    BY <1>5 DEF DeployStrategy, Goes
  <2>2. pc'[Tick] # "take" BY <1>1, <2>1 DEF OwnsST, Shares, Meddling, TypeOK
  <2>3. QED BY <2>1, <2>2 DEF CommandInv
<1>6. ASSUME NEW n \in Net, ClearMeddles(n) PROVE CommandInv'
  <2>1. /\ pc[n] \in Clearing /\ n \in Thread /\ n # Tick
        /\ meddles' = << >> /\ UNCHANGED <<taken, sent>>
        /\ pc' = [pc EXCEPT ![n] = "clearResponses"]
    BY <1>6 DEF ClearMeddles, Goes, Clearing, Thread
  <2>2. pc[Tick] = "idle" BY <1>1, <2>1 DEF LifeInv
  <2>3. pc'[Tick] # "take" BY <1>1, <2>1, <2>2 DEF TypeOK
  <2>4. QED BY <1>1, <2>1, <2>3 DEF CommandInv
<1>7. CASE UNCHANGED vars
  <2>1. UNCHANGED commands /\ pc' = pc BY <1>7 DEF vars, commands
  <2>2. QED BY <1>2, <2>1
<1>8. CASE Next
  <2>1. CASE UNCHANGED commands
    <3>1. PICK t \in Thread, to \in PC : Moves(t, to) BY <1>1, <1>8, OneMoves
    <3>2. pc'[Tick] = "take" => pc[Tick] = "take" \/ meddles # << >>
      BY <1>1, <3>1 DEF Moves, TypeOK
    <3>3. QED BY <1>2, <2>1, <3>2
  <2>2. QED BY <1>3, <1>4, <1>5, <1>6, <1>8, <2>1, Effects
<1>9. QED BY <1>7, <1>8

-----------------------------------------------------------------------------
(***************************************************************************)
(* The invariant.                                                          *)
(***************************************************************************)
LEMMA NobodyAtFirst == Init => UnderWay = 0
<1> SUFFICES ASSUME Init PROVE UnderWay = 0 OBVIOUS
<1>1. {t \in Thread : pc[t] \in {"request", "push"}} = {} BY DEF Init
<1>2. QED BY <1>1, FS_EmptySet DEF UnderWay

LEMMA InitInv == Init => IInv
<1> SUFFICES ASSUME Init PROVE IInv OBVIOUS
<1> USE MeddleAssumption DEF Init
<1>1. TypeOK
  <2>1. pc \in [Thread -> PC] BY DEF PC
  <2>2. << >> \in Seq(Item) OBVIOUS
  <2>3. meddles \in Seq(Item) /\ responses \in Seq(Item) BY <2>2
  <2>4. 0 \in 0 .. MaxDeploy /\ 0 \in 0 .. MaxSent /\ 0 \in 0 .. MaxSaid /\ 0 \in 0 .. 0
    OBVIOUS
  <2>5. /\ strategy \in {0, deployed} /\ deployed \in 0 .. MaxDeploy
        /\ taken \in 0 .. sent /\ sent \in 0 .. MaxSent
        /\ fetched \in 0 .. said /\ said \in 0 .. MaxSaid
    BY <2>4
  <2>6. attached \in BOOLEAN OBVIOUS
  <2> HIDE DEF Init
  <2>7. QED BY <2>1, <2>3, <2>5, <2>6 DEF TypeOK
<1>2. ThreadInv BY DEF ThreadInv, Thread
<1>3. LockInv BY DEF LockInv, Meddling, Responding
<1>4. LifeInv BY DEF LifeInv, Clearing, Thread
<1>5. CountInv BY NobodyAtFirst DEF CountInv, Thread
<1>6. MeddlesComplete /\ ResponsesComplete BY DEF MeddlesComplete, ResponsesComplete
<1> HIDE DEF Init
<1>7. QED BY <1>1, <1>2, <1>3, <1>4, <1>5, <1>6 DEF IInv

LEMMA StepInv == IInv /\ [Next]_vars => IInv'
<1> SUFFICES ASSUME IInv, [Next]_vars PROVE IInv' OBVIOUS
<1>1. ThreadInv' /\ LockInv' /\ LifeInv' BY LockStep, LifeStep
<1>2. MeddlesComplete' /\ ResponsesComplete' BY MeddlesStep, ResponsesStep
<1>3. SentInv' /\ sent' \in Nat /\ SaidInv' /\ SlotInv' /\ CommandInv'
  BY SentStep, SaidStep, SlotStep, CommandStep
<1>4. pc' \in [Thread -> PC]
  <2>1. CASE UNCHANGED vars BY <2>1 DEF IInv, TypeOK, vars
  <2>2. CASE Next BY <2>2, OneMoves DEF IInv, TypeOK, Moves
  <2>3. QED BY <2>1, <2>2
<1>5. sent' \in 0 .. MaxSent
  <2>1. IsFiniteSet({t \in Thread : pc'[t] \in {"request", "push"}})
    BY FS_Subset, MeddleAssumption
  <2>2. UnderWay' \in Nat BY <2>1, FS_CardinalityType DEF UnderWay
  <2>3. sent' \in Nat /\ sent' + UnderWay' <= MaxSent BY <1>3 DEF SentInv
  <2>4. \A s \in Nat, u \in Nat : s + u <= MaxSent => s \in 0 .. MaxSent
    BY MeddleAssumption
  <2>5. QED BY <2>2, <2>3, <2>4
<1>6. TypeOK' BY <1>3, <1>4, <1>5 DEF TypeOK, SaidInv, SlotInv, CommandInv
<1>7. CountInv' BY <1>3 DEF CountInv, SentInv, SaidInv, CommandInv
<1>8. QED BY <1>1, <1>2, <1>6, <1>7 DEF IInv

THEOREM Inductive == Spec => []IInv
<1>1. Init => IInv BY InitInv
<1>2. IInv /\ [Next]_vars => IInv' BY StepInv
<1>3. QED BY <1>1, <1>2, PTL DEF Spec

-----------------------------------------------------------------------------
(***************************************************************************)
(* The variables keep their types, and the bounds of the counters hold.    *)
(***************************************************************************)
THEOREM TypeCorrect == Spec => []TypeOK
<1>1. IInv => TypeOK BY DEF IInv
<1>2. QED BY <1>1, Inductive, PTL

(***************************************************************************)
(* No command for a strategy is lost, doubled, out of order or meant for   *)
(* another one, and no response of it is.                                  *)
(***************************************************************************)
THEOREM CommandsAreComplete == Spec => []MeddlesComplete
<1>1. IInv => MeddlesComplete BY DEF IInv
<1>2. QED BY <1>1, Inductive, PTL

THEOREM ResponsesAreComplete == Spec => []ResponsesComplete
<1>1. IInv => ResponsesComplete BY DEF IInv
<1>2. QED BY <1>1, Inductive, PTL

(***************************************************************************)
(* The queues, which CStrategyNode::clear() uses without their mutexes,    *)
(* are raced for nowhere else, and never with the thread of the ticks: it  *)
(* is in a call of a strategy only while the strategy is attached.         *)
(***************************************************************************)
THEOREM RacesOnlyWithClear == Spec => []QueuesRaceOnlyInClear
<1>1. ASSUME IInv PROVE QueuesRaceOnlyInClear
  <2>1. \A t \in Thread : pc[t] \in Clearing => pc[Tick] = "idle" BY <1>1 DEF IInv, LifeInv
  <2>2. QED
    BY <1>1, <2>1 DEF IInv, LockInv, QueuesRaceOnlyInClear, Meddling, Responding, Clearing
<1>2. QED BY <1>1, Inductive, PTL
=============================================================================
