-------------------------- MODULE OrderTicketsProofs --------------------------
(* Proofs about OrderTickets, for any number of threads, tickets and days. *)
EXTENDS OrderTickets, TLAPS

\* What is stored in a counter is one of its values ...
LEMMA ModCount == \A n \in Int : n % W \in Count
BY TicketAssumption, Z3 DEF Count

\* ... which is what was asked for when that was a value of a counter.
LEMMA ModSmall == \A n \in Count : n % W = n
BY TicketAssumption, Z3 DEF Count

\* Two numbers of a request are stored in the same order unless the smaller
\* one is negative, and then it is stored above every maximum.
LEMMA ModRequest ==
  ASSUME NEW m \in Ticket, NEW r \in Ticket, r <= m
  PROVE  r % W <= m % W \/ r % W > MaxTicket
<1>1. CASE r >= 0
  <2>1. r \in Count /\ m \in Count
    BY <1>1, TicketAssumption, SMT DEF Ticket, Count
  <2> QED  BY <2>1, ModSmall DEF Ticket
<1>2. CASE r < 0
  <2>1. r + W \in Count /\ r + W > MaxTicket
    BY <1>2, TicketAssumption, SMT DEF Ticket, Count
  <2>2. r % W = r + W
    BY <1>2, <2>1, TicketAssumption, Z3 DEF Ticket, Count
  <2> QED  BY <2>1, <2>2
<1> QED  BY <1>1, <1>2, SMT DEF Ticket

\* Every variable keeps its type over a step.
LEMMA TypeStep == TypeOK /\ [Next]_vars => TypeOK'
<1> SUFFICES ASSUME TypeOK, [Next]_vars PROVE TypeOK'
  OBVIOUS
<1> USE TicketAssumption DEF TypeOK
<1>1. ASSUME NEW c \in Caller, CompareDate(c) PROVE TypeOK'
  BY <1>1, SMT DEF CompareDate, Enters, Goto, Thread
<1>2. ASSUME NEW c \in Caller, LoadMax(c) PROVE TypeOK'
  BY <1>2, SMT DEF LoadMax, Goto, Thread, Count, Ticket
<1>3. ASSUME NEW c \in Caller, StoreRemain(c) PROVE TypeOK'
  <2>1. arg[c][2] \in Int
    BY SMT DEF Thread, Count, Ticket
  <2>2. remain' \in Count /\ filled' \in Count
    BY <1>3, <2>1, ModCount DEF StoreRemain, Stores
  <2> QED  BY <1>3, <2>2, SMT DEF StoreRemain, Stores, Goto, Thread
<1>4. ASSUME NEW c \in Caller, CheckTicket(c) PROVE TypeOK'
  BY <1>4, SMT DEF CheckTicket, Goto, Thread
<1>5. ASSUME NEW c \in Caller, TakeTicket(c) PROVE TypeOK'
  <2>1. remain' \in Count
    <3>1. remain - 1 \in Int
      BY SMT DEF Count
    <3> QED  BY <1>5, <3>1, ModCount DEF TakeTicket
  <2> QED  BY <1>5, <2>1, SMT DEF TakeTicket, Goto, Thread
<1>6. ASSUME NEW o \in Operator, Request(o) PROVE TypeOK'
  BY <1>6, SMT DEF Request, Enters, Goto, Thread
<1>7. ASSUME NEW o \in Operator, SetMax(o) PROVE TypeOK'
  <2>1. arg[o][1] \in Int
    BY SMT DEF Thread, Count, Ticket
  <2>2. max' \in Count
    BY <1>7, <2>1, ModCount DEF SetMax
  <2> QED  BY <1>7, <2>2, SMT DEF SetMax, Goto, Thread
<1>8. ASSUME NEW o \in Operator, SetRemain(o) PROVE TypeOK'
  <2>1. arg[o][2] \in Int
    BY SMT DEF Thread, Count, Ticket
  <2>2. remain' \in Count /\ filled' \in Count
    BY <1>8, <2>1, ModCount DEF SetRemain, Stores
  <2> QED  BY <1>8, <2>2, SMT DEF SetRemain, Stores, Goto, Thread
<1>9. CASE NextDay
  BY <1>9, SMT DEF NextDay
<1>10. CASE UNCHANGED vars
  BY <1>10 DEF vars
<1> QED  BY <1>1, <1>2, <1>3, <1>4, <1>5, <1>6, <1>7, <1>8, <1>9, <1>10 DEF Next

\* What a thread that is alone may rely on survives a step: a thread that
\* enters while another is inside sets overlap.
LEMMA SerialStep == TypeOK /\ SerialInv /\ [Next]_vars => SerialInv'
<1> SUFFICES ASSUME TypeOK, SerialInv, [Next]_vars, ~overlap' PROVE SerialInv'
  BY DEF SerialInv
<1>0. /\ max \in Count /\ remain \in Count /\ used \in Nat
      /\ \A x \in Thread : arg[x][1] \in Int /\ arg[x][2] \in Int
  BY TicketAssumption, SMT DEF TypeOK, Count, Ticket
<1>1. ASSUME NEW c \in Caller, CompareDate(c) PROVE SerialInv'
  <2>1. ~overlap /\ \A x \in Thread : pc[x] = "idle"
    BY <1>1 DEF CompareDate, Enters, Quiet
  <2> QED  BY <1>1, <2>1, <1>0, TicketAssumption, SMT
              DEF CompareDate, Enters, Goto, Thread, TypeOK, SerialInv
<1>2. ASSUME NEW c \in Caller, LoadMax(c) PROVE SerialInv'
  BY <1>2, <1>0, TicketAssumption, SMT DEF LoadMax, Goto, Thread, TypeOK, SerialInv
<1>3. ASSUME NEW c \in Caller, StoreRemain(c) PROVE SerialInv'
  <2>1. ~overlap /\ arg[c][2] = max /\ max % W = max
    BY <1>3, <1>0, ModSmall, SMT DEF StoreRemain, Goto, SerialInv
  <2> QED  BY <1>3, <2>1, <1>0, TicketAssumption, SMT
              DEF StoreRemain, Stores, Goto, Thread, TypeOK, SerialInv, Count
<1>4. ASSUME NEW c \in Caller, CheckTicket(c) PROVE SerialInv'
  BY <1>4, <1>0, TicketAssumption, SMT DEF CheckTicket, Goto, Thread, TypeOK, SerialInv, Count
<1>5. ASSUME NEW c \in Caller, TakeTicket(c) PROVE SerialInv'
  <2>1. remain - 1 \in Count /\ ~overlap
    BY <1>5, <1>0, TicketAssumption, SMT DEF TakeTicket, Goto, SerialInv, Count
  <2>2. remain' = remain - 1
    BY <1>5, <2>1, ModSmall DEF TakeTicket
  <2>3. remain' <= remain /\ used' + remain' = used + remain
    BY <1>5, <2>2, <1>0, SMT DEF TakeTicket, Count
  <2>4. /\ pc[c] = "take" /\ pc' = [pc EXCEPT ![c] = "idle"]
        /\ UNCHANGED <<max, arg, filled>>
    BY <1>5 DEF TakeTicket, Goto
  <2>5. \A x \in Thread : pc'[x] = "idle"
    BY <2>1, <2>4, SMT DEF SerialInv, TypeOK, Thread
  <2>6. \A o \in Operator : pc[o] # "setremain"
    BY <2>1, <2>4, TicketAssumption, SMT DEF SerialInv, Thread
  <2>7. used' + remain' = filled' /\ (remain' <= max' \/ filled' > MaxTicket)
    BY <2>1, <2>3, <2>4, <2>6, <1>0, <1>5, TicketAssumption, SMT DEF SerialInv, Count, TakeTicket
  <2> QED  BY <2>5, <2>7, SMT DEF Thread, SerialInv
<1>6. ASSUME NEW o \in Operator, Request(o) PROVE SerialInv'
  <2>1. ~overlap /\ \A x \in Thread : pc[x] = "idle"
    BY <1>6 DEF Request, Enters, Quiet
  <2> QED  BY <1>6, <2>1, <1>0, TicketAssumption, SMT
              DEF Request, Enters, Goto, Thread, TypeOK, SerialInv
<1>7. ASSUME NEW o \in Operator, SetMax(o) PROVE SerialInv'
  BY <1>7, <1>0, TicketAssumption, SMT DEF SetMax, Goto, Thread, TypeOK, SerialInv
<1>8. ASSUME NEW o \in Operator, SetRemain(o) PROVE SerialInv'
  <2>1. /\ ~overlap /\ max = arg[o][1] % W
        /\ arg[o][1] \in Ticket /\ arg[o][2] \in Ticket /\ arg[o][2] <= arg[o][1]
    BY <1>8, SMT DEF SetRemain, Goto, SerialInv
  <2>2. arg[o][2] % W <= max \/ arg[o][2] % W > MaxTicket
    BY <2>1, ModRequest
  <2>3. arg[o][2] % W \in Count
    BY <1>0, ModCount DEF Thread
  <2> QED  BY <1>8, <2>1, <2>2, <2>3, <1>0, TicketAssumption, SMT
              DEF SetRemain, Stores, Goto, Thread, TypeOK, SerialInv, Count
<1>9. CASE NextDay
  BY <1>9, SMT DEF NextDay, SerialInv, Ticket
<1>10. CASE UNCHANGED vars
  BY <1>10 DEF vars, SerialInv, Ticket
<1> QED  BY <1>1, <1>2, <1>3, <1>4, <1>5, <1>6, <1>7, <1>8, <1>9, <1>10 DEF Next

\* The first state has its type and nobody is in a handler.
LEMMA InitInv == Init => TypeOK /\ SerialInv
<1> SUFFICES ASSUME Init PROVE TypeOK /\ SerialInv
  OBVIOUS
<1>1. max \in Count
  BY TicketAssumption, SMT DEF Init, Count
<1>2. <<0, 0>> \in (Ticket \cup Count) \X (Ticket \cup Count)
  BY TicketAssumption, SMT DEF Count
<1>3. TypeOK
  <2>1. arg \in [Thread -> (Ticket \cup Count) \X (Ticket \cup Count)]
    BY <1>2 DEF Init
  <2>2. pc \in [Thread -> {"idle", "load", "store", "check", "take", "setmax", "setremain"}]
    BY DEF Init
  <2>3. used \in Nat /\ actionDate \in 0 .. MaxDay /\ today \in 0 .. MaxDay
    BY TicketAssumption, SMT DEF Init
  <2>4. remain \in Count /\ filled \in Count /\ overlap \in BOOLEAN
    BY <1>1 DEF Init
  <2> QED  BY <1>1, <2>1, <2>2, <2>3, <2>4 DEF TypeOK
<1>4. SerialInv
  BY <1>1, TicketAssumption, SMT DEF Init, SerialInv, Thread, Count
<1> QED  BY <1>3, <1>4

\* Every variable of OrderTickets keeps its type.
THEOREM TicketsTyped == Spec => []TypeOK
<1> QED  BY InitInv, TypeStep, PTL DEF Spec

\* While the handlers of a strategy do not overlap, its threads may rely on
\* SerialInv.
THEOREM SerialIsSafe == Spec => []SerialInv
<1> QED  BY InitInv, TypeStep, SerialStep, PTL DEF Spec

\* No opening order goes out without a ticket while the handlers do not
\* overlap.
THEOREM NoOverdraftHolds == Spec => []NoOverdraft
<1>1. SerialInv => NoOverdraft
  BY DEF SerialInv, NoOverdraft
<1> QED  BY SerialIsSafe, <1>1, PTL

\* More tickets than the maximum remain only after an overlap or a negative
\* request.
THEOREM ExceedsOnlyByOverlapHolds == Spec => []ExceedsOnlyByOverlap
<1>1. TypeOK /\ SerialInv => ExceedsOnlyByOverlap
  <2> SUFFICES ASSUME TypeOK, SerialInv, Quiet, ~overlap PROVE ~(remain > max) \/ filled > MaxTicket
    BY DEF ExceedsOnlyByOverlap
  <2>1. remain <= max \/ filled > MaxTicket
    BY DEF SerialInv, Quiet, Thread
  <2> QED  BY <2>1, TicketAssumption, SMT DEF TypeOK, Count
<1> QED  BY SerialIsSafe, TicketsTyped, <1>1, PTL
===============================================================================
