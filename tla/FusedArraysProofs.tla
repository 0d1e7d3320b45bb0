--------------------------- MODULE FusedArraysProofs ---------------------------
(***************************************************************************)
(* The rings of FusedQueue are first-in first-out queues, and the backups  *)
(* of all three structures of FusedArrays are the XORs of what they        *)
(* protect and recover any source, whichever of them runs, for any number  *)
(* of sources, any capacity, any values and any lengths.                   *)
(***************************************************************************)
EXTENDS FusedArrays, FusedListProofs, SequenceTheorems

-----------------------------------------------------------------------------
(* The rings                                                               *)

LEMMA SmallMod ==
    ASSUME NEW c \in Nat, c >= 1, NEW i \in Nat, i < c
    PROVE  i % c = i
BY SMT

LEMMA WrappedMod ==
    ASSUME NEW c \in Nat, c >= 1, NEW i \in Nat, c <= i, i < 2 * c
    PROVE  i % c = i - c
BY SMT

\* Where an offset from a slot ends up.
LEMMA OffsetValue ==
    ASSUME NEW h \in Slots, NEW i \in 0 .. Capacity
    PROVE  (h + i) % Capacity = IF h + i < Capacity THEN h + i ELSE h + i - Capacity
<1>1. h \in Nat /\ h < Capacity /\ i \in Nat /\ i <= Capacity
      /\ Capacity \in Nat /\ Capacity >= 1
  BY QueueAssumption DEF Slots
<1>2. CASE h + i < Capacity
  BY <1>1, <1>2, SmallMod
<1>3. CASE ~(h + i < Capacity)
  <2>1. h + i \in Nat /\ Capacity <= h + i /\ h + i < 2 * Capacity
    BY <1>1, <1>3
  <2>2. PICK k \in Nat : k = h + i
    BY <2>1
  <2>3. k % Capacity = k - Capacity
    BY <1>1, <2>1, <2>2, WrappedMod
  <2>. QED
    BY <1>1, <1>3, <2>2, <2>3
<1>. QED
  BY <1>2, <1>3

\* The fields a ring lives on, and its window.
RingTyped ==
    /\ sources \in [Source -> [Slots -> Word]]
    /\ heads \in [Source -> Slots]
    /\ tails \in [Source -> Slots]
    /\ counts \in [Source -> 0 .. Capacity]
RingInv == RingTyped /\ WindowsAgree

LEMMA SlotValue ==
    ASSUME RingTyped, NEW s \in Source, NEW i \in 0 .. Capacity
    PROVE  Slot(s, i) = IF heads[s] + i < Capacity
                        THEN heads[s] + i ELSE heads[s] + i - Capacity
BY OffsetValue DEF RingTyped, Slot

\* Different elements of a source are in different slots.
LEMMA SlotsDiffer ==
    ASSUME RingTyped, NEW s \in Source,
           NEW i \in 0 .. Capacity - 1, NEW j \in 0 .. Capacity - 1, i # j
    PROVE  /\ Slot(s, i) \in Slots
           /\ Slot(s, i) # Slot(s, j)
<1>1. heads[s] \in Nat /\ heads[s] < Capacity /\ Capacity \in Nat /\ Capacity >= 1
  BY QueueAssumption DEF RingTyped, Slots
<1>2. i \in 0 .. Capacity /\ j \in 0 .. Capacity
  BY <1>1
<1>3. /\ Slot(s, i) = IF heads[s] + i < Capacity THEN heads[s] + i ELSE heads[s] + i - Capacity
      /\ Slot(s, j) = IF heads[s] + j < Capacity THEN heads[s] + j ELSE heads[s] + j - Capacity
  BY <1>2, SlotValue
<1>. QED
  BY <1>1, <1>3 DEF Slots

\* The slot after one.
LEMMA AfterValue ==
    ASSUME NEW i \in Slots
    PROVE  /\ After(i) = IF i + 1 < Capacity THEN i + 1 ELSE 0
           /\ After(i) \in Slots
<1>1. i \in Nat /\ i < Capacity /\ 1 \in 0 .. Capacity /\ Capacity \in Nat
  BY QueueAssumption DEF Slots
<1>2. After(i) = IF i + 1 < Capacity THEN i + 1 ELSE i + 1 - Capacity
  BY <1>1, OffsetValue DEF After
<1>. QED
  BY <1>1, <1>2 DEF Slots

-----------------------------------------------------------------------------
LEMMA RingInvInit == Init => RingInv
<1>. SUFFICES ASSUME Init PROVE RingInv
  OBVIOUS
<1>1. RingTyped
  BY QueueAssumption, XorAssumption DEF Init, RingTyped, Slots
<1>2. ASSUME NEW s \in Source PROVE tails[s] = Slot(s, counts[s])
  <2>1. 0 \in 0 .. Capacity /\ Capacity \in Nat /\ Capacity >= 1
    BY QueueAssumption
  <2>2. Slot(s, 0) = 0
    BY <1>1, <2>1, SlotValue DEF Init
  <2>. QED
    BY <2>2 DEF Init
<1>. QED
  BY <1>1, <1>2 DEF RingInv, WindowsAgree

LEMMA RingInvEnqueue ==
    ASSUME RingInv, NEW s \in Source, NEW value \in Values, Enqueue(s, value)
    PROVE  RingInv'
<1>. USE DEF RingInv
<1>1. counts[s] < Capacity /\ counts[s] \in Nat /\ Capacity \in Nat /\ Capacity >= 1
  <2>1. counts[s] # Capacity
    BY DEF Enqueue, Full
  <2>2. counts[s] \in 0 .. Capacity /\ Capacity \in Nat /\ Capacity >= 1
    BY QueueAssumption DEF RingTyped
  <2>. QED
    BY <2>1, <2>2
<1>2. RingTyped'
  <2>1. tails[s] \in Slots /\ After(tails[s]) \in Slots
    BY AfterValue DEF RingTyped
  <2>2. sources' \in [Source -> [Slots -> Word]]
    BY <2>1, QueueAssumption DEF RingTyped, Enqueue
  <2>3. heads' \in [Source -> Slots] /\ tails' \in [Source -> Slots]
    BY <2>1 DEF RingTyped, Enqueue
  <2>4. counts' \in [Source -> 0 .. Capacity]
    BY <1>1 DEF RingTyped, Enqueue
  <2>. QED
    BY <2>2, <2>3, <2>4 DEF RingTyped
<1>3. ASSUME NEW t \in Source PROVE (tails[t] = Slot(t, counts[t]))'
  <2>1. CASE t # s
    BY <2>1 DEF Enqueue, RingTyped, WindowsAgree, Slot
  <2>2. CASE t = s
    <3>1. heads[s] \in Nat /\ heads[s] < Capacity /\ tails[s] \in Slots
      BY QueueAssumption DEF RingTyped, Slots
    <3>2. tails[s] = IF heads[s] + counts[s] < Capacity
                     THEN heads[s] + counts[s] ELSE heads[s] + counts[s] - Capacity
      BY <1>1, SlotValue DEF WindowsAgree
    <3>3. Slot(s, counts[s] + 1) = IF heads[s] + (counts[s] + 1) < Capacity
                     THEN heads[s] + (counts[s] + 1) ELSE heads[s] + (counts[s] + 1) - Capacity
      BY <1>1, SlotValue
    <3>4. After(tails[s]) = IF tails[s] + 1 < Capacity THEN tails[s] + 1 ELSE 0
      BY <3>1, AfterValue
    <3>5. After(tails[s]) = Slot(s, counts[s] + 1)
      BY <1>1, <3>1, <3>2, <3>3, <3>4
    <3>6. tails'[s] = After(tails[s]) /\ counts'[s] = counts[s] + 1 /\ heads' = heads
      BY DEF Enqueue, RingTyped
    <3>. QED
      BY <2>2, <3>5, <3>6 DEF Slot
  <2>. QED
    BY <2>1, <2>2
<1>. QED
  BY <1>2, <1>3 DEF WindowsAgree

\* The offsets of a source's elements move by one when its head does.
LEMMA SlotsMove ==
    ASSUME RingTyped, NEW s \in Source, Dequeue(s), NEW i \in 0 .. Capacity - 1
    PROVE  Slot(s, i)' = Slot(s, i + 1)
<1>1. heads[s] \in Nat /\ heads[s] < Capacity /\ Capacity \in Nat /\ Capacity >= 1
      /\ heads[s] \in Slots
  BY QueueAssumption DEF RingTyped, Slots
<1>2. Slot(s, i + 1) = IF heads[s] + (i + 1) < Capacity
                       THEN heads[s] + (i + 1) ELSE heads[s] + (i + 1) - Capacity
  BY <1>1, SlotValue
<1>3. heads'[s] = IF heads[s] + 1 < Capacity THEN heads[s] + 1 ELSE 0
  BY <1>1, AfterValue DEF Dequeue, RingTyped
<1>4. (heads'[s] + i) % Capacity = IF heads'[s] + i < Capacity
                                    THEN heads'[s] + i ELSE heads'[s] + i - Capacity
  <2>1. heads'[s] \in Slots /\ i \in 0 .. Capacity
    BY <1>1, <1>3 DEF Slots
  <2>. QED
    BY <2>1, OffsetValue
<1>. QED
  BY SMTT(30), <1>1, <1>2, <1>3, <1>4 DEF Slot

LEMMA RingInvDequeue ==
    ASSUME RingInv, NEW s \in Source, Dequeue(s)
    PROVE  RingInv'
<1>. USE DEF RingInv
<1>1. counts[s] \in Nat /\ counts[s] >= 1 /\ counts[s] <= Capacity
      /\ Capacity \in Nat /\ Capacity >= 1
  BY QueueAssumption DEF RingTyped, Dequeue
<1>2. RingTyped'
  <2>1. heads[s] \in Slots /\ After(heads[s]) \in Slots
    BY AfterValue DEF RingTyped
  <2>2. sources' \in [Source -> [Slots -> Word]]
    BY <2>1, XorAssumption DEF RingTyped, Dequeue, Cleared
  <2>3. heads' \in [Source -> Slots] /\ tails' \in [Source -> Slots]
    BY <2>1 DEF RingTyped, Dequeue
  <2>4. counts' \in [Source -> 0 .. Capacity]
    BY <1>1 DEF RingTyped, Dequeue
  <2>. QED
    BY <2>2, <2>3, <2>4 DEF RingTyped
<1>3. ASSUME NEW t \in Source PROVE (tails[t] = Slot(t, counts[t]))'
  <2>1. CASE t # s
    BY <2>1 DEF Dequeue, RingTyped, WindowsAgree, Slot
  <2>2. CASE t = s
    <3>1. counts'[s] = counts[s] - 1 /\ tails'[s] = tails[s]
      BY DEF Dequeue, RingTyped
    <3>2. counts[s] - 1 \in 0 .. Capacity - 1
      BY <1>1
    <3>3. PICK i \in 0 .. Capacity - 1 : i = counts[s] - 1
      BY <3>2
    <3>4. Slot(s, i)' = Slot(s, i + 1)
      BY SlotsMove
    <3>5. i + 1 = counts[s]
      BY <1>1, <3>3
    <3>6. (heads'[s] + counts'[s]) % Capacity = tails[s]
      BY <3>1, <3>3, <3>4, <3>5 DEF Slot, WindowsAgree
    <3>. QED
      BY <2>2, <3>1, <3>6 DEF Slot
  <2>. QED
    BY <2>1, <2>2
<1>. QED
  BY <1>2, <1>3 DEF WindowsAgree

LEMMA RingInvStep == RingInv /\ [Next]_vars => RingInv'
<1>. SUFFICES ASSUME RingInv, [Next]_vars PROVE RingInv'
  OBVIOUS
<1>1. ASSUME NEW s \in Source, NEW value \in Values, Enqueue(s, value) PROVE RingInv'
  BY <1>1, RingInvEnqueue
<1>2. ASSUME NEW s \in Source, Dequeue(s) PROVE RingInv'
  BY <1>2, RingInvDequeue
<1>3. CASE UNCHANGED vars
  BY <1>3 DEF RingInv, RingTyped, WindowsAgree, Slot, vars
<1>. QED
  BY <1>1, <1>2, <1>3 DEF Next

\* The tail of a source is always as far after its head as its count says, for
\* any capacity and any order of the calls: Enqueue and Dequeue keep the three apart.
THEOREM WindowsAlwaysAgree == Spec => []WindowsAgree
<1>1. RingInv => WindowsAgree
  BY DEF RingInv
<1>. QED
  BY <1>1, RingInvInit, RingInvStep, PTL DEF Spec

-----------------------------------------------------------------------------
(* The refinement                                                          *)

LEMMA ContentsType ==
    ASSUME RingTyped, NEW s \in Source
    PROVE  /\ Contents(s) \in Seq(Word)
           /\ Len(Contents(s)) = counts[s]
           /\ \A n \in 1 .. counts[s] : Contents(s)[n] = sources[s][Slot(s, n - 1)]
<1>1. counts[s] \in Nat /\ counts[s] <= Capacity /\ Capacity \in Nat
  BY QueueAssumption DEF RingTyped
<1>2. ASSUME NEW n \in 1 .. counts[s] PROVE sources[s][Slot(s, n - 1)] \in Word
  <2>1. n - 1 \in 0 .. Capacity /\ n - 1 < Capacity
    BY <1>1
  <2>2. heads[s] \in 0 .. Capacity - 1
    BY DEF RingTyped, Slots
  <2>3. Slot(s, n - 1) \in Slots
    BY <1>1, <2>1, <2>2, SlotValue DEF Slots
  <2>. QED
    BY <2>3 DEF RingTyped
<1>. QED
  BY <1>1, <1>2 DEF Contents

\* Append and Tail, element by element.
LEMMA AppendValue ==
    ASSUME NEW S, NEW q \in Seq(S), NEW e \in S
    PROVE  Append(q, e) = [n \in 1 .. Len(q) + 1 |-> IF n = Len(q) + 1 THEN e ELSE q[n]]
<1>. DEFINE t == [n \in 1 .. Len(q) + 1 |-> IF n = Len(q) + 1 THEN e ELSE q[n]]
<1>1. Len(q) \in Nat /\ \A n \in 1 .. Len(q) : q[n] \in S
  OBVIOUS
<1>2. t \in Seq(S) /\ Len(t) = Len(q) + 1
  BY <1>1
<1>3. \A n \in 1 .. Len(q) + 1 : Append(q, e)[n] = t[n]
  BY <1>1, AppendProperties
<1>4. Append(q, e) \in Seq(S) /\ Len(Append(q, e)) = Len(q) + 1
  BY AppendProperties
<1>. HIDE DEF t
<1>5. Append(q, e) = t
  BY <1>2, <1>3, <1>4, SeqEqual
<1>. QED
  BY <1>5 DEF t

LEMMA TailValue ==
    ASSUME NEW S, NEW q \in Seq(S), Len(q) >= 1
    PROVE  q # <<>> /\ Tail(q) = [n \in 1 .. Len(q) - 1 |-> q[n + 1]]
<1>. DEFINE t == [n \in 1 .. Len(q) - 1 |-> q[n + 1]]
<1>1. Len(q) \in Nat /\ q # <<>> /\ \A n \in 1 .. Len(q) : q[n] \in S
  OBVIOUS
<1>2. t \in Seq(S) /\ Len(t) = Len(q) - 1
  BY <1>1
<1>3. /\ Tail(q) \in Seq(S) /\ Len(Tail(q)) = Len(q) - 1
      /\ \A n \in 1 .. Len(q) - 1 : Tail(q)[n] = t[n]
  BY <1>1, HeadTailProperties
<1>. HIDE DEF t
<1>4. Tail(q) = t
  BY <1>2, <1>3, SeqEqual
<1>. QED
  BY <1>1, <1>4 DEF t

\* An element is appended to what Source returns.
LEMMA EnqueuePuts ==
    ASSUME RingInv, NEW s \in Source, NEW value \in Values, Enqueue(s, value)
    PROVE  Contents(s)' = Append(Contents(s), value)
<1>. USE DEF RingInv
<1>1. /\ counts[s] \in Nat /\ counts[s] < Capacity /\ Capacity \in Nat
      /\ counts'[s] = counts[s] + 1 /\ heads' = heads
      /\ tails[s] \in Slots /\ tails[s] = Slot(s, counts[s])
  <2>1. counts[s] \in 0 .. Capacity /\ counts[s] # Capacity /\ Capacity \in Nat
    BY QueueAssumption DEF RingTyped, Enqueue, Full
  <2>2. counts'[s] = counts[s] + 1 /\ heads' = heads
    BY DEF RingTyped, Enqueue
  <2>3. tails[s] \in Slots /\ tails[s] = Slot(s, counts[s])
    BY DEF RingTyped, WindowsAgree
  <2>. QED
    BY <2>1, <2>2, <2>3
<1>2. /\ sources'[s][tails[s]] = value
      /\ \A i \in Slots : i # tails[s] => sources'[s][i] = sources[s][i]
  BY <1>1 DEF RingTyped, Enqueue
<1>3. \A n \in 1 .. counts[s] : Slot(s, n - 1) \in Slots /\ Slot(s, n - 1) # tails[s]
  <2>. TAKE n \in 1 .. counts[s]
  <2>1. n - 1 \in 0 .. Capacity - 1 /\ counts[s] \in 0 .. Capacity - 1 /\ n - 1 # counts[s]
    BY <1>1
  <2>2. PICK i \in 0 .. Capacity - 1 : i = n - 1
    BY <2>1
  <2>. QED
    BY <1>1, <2>1, <2>2, SlotsDiffer
<1>4. Contents(s)' = [n \in 1 .. counts[s] + 1 |-> sources'[s][Slot(s, n - 1)]]
  BY <1>1 DEF Contents, Slot
<1>5. Append(Contents(s), value)
        = [n \in 1 .. counts[s] + 1 |-> IF n = counts[s] + 1 THEN value ELSE Contents(s)[n]]
  <2>1. Contents(s) \in Seq(Word) /\ Len(Contents(s)) = counts[s] /\ value \in Word
    BY ContentsType, QueueAssumption
  <2>. QED
    BY <2>1, AppendValue
<1>6. ASSUME NEW n \in 1 .. counts[s] + 1
      PROVE  sources'[s][Slot(s, n - 1)]
               = IF n = counts[s] + 1 THEN value ELSE Contents(s)[n]
  <2>1. CASE n = counts[s] + 1
    <3>1. n - 1 = counts[s]
      BY <1>1, <2>1
    <3>. QED
      BY <1>1, <1>2, <2>1, <3>1
  <2>2. CASE n # counts[s] + 1
    <3>1. n \in 1 .. counts[s]
      BY <1>1, <2>2
    <3>. QED
      BY <1>2, <1>3, <2>2, <3>1, ContentsType
  <2>. QED
    BY <2>1, <2>2
<1>. QED
  BY <1>4, <1>5, <1>6

\* What Source returns loses its first element.
LEMMA DequeueTakes ==
    ASSUME RingInv, NEW s \in Source, Dequeue(s)
    PROVE  /\ Contents(s) # <<>>
           /\ Contents(s)' = Tail(Contents(s))
<1>. USE DEF RingInv
<1>1. /\ counts[s] \in Nat /\ counts[s] >= 1 /\ counts[s] <= Capacity /\ Capacity \in Nat
      /\ Capacity >= 1
      /\ counts'[s] = counts[s] - 1 /\ heads[s] \in Slots
      /\ heads[s] \in Nat /\ heads[s] < Capacity
  BY QueueAssumption DEF RingTyped, Dequeue, Slots
<1>2. \A i \in Slots : i # heads[s] => sources'[s][i] = sources[s][i]
  BY <1>1 DEF RingTyped, Dequeue, Cleared
<1>3. Slot(s, 0) = heads[s]
  BY <1>1, SlotValue
<1>4. ASSUME NEW n \in 1 .. counts[s] - 1
      PROVE  sources'[s][Slot(s, n - 1)'] = Contents(s)[n + 1]
  <2>1. n - 1 \in 0 .. Capacity - 1 /\ n \in 0 .. Capacity - 1 /\ n # 0
        /\ 0 \in 0 .. Capacity - 1
    BY <1>1
  <2>2. Slot(s, n) \in Slots /\ Slot(s, n) # heads[s]
    BY <1>3, <2>1, SlotsDiffer
  <2>3. PICK i \in 0 .. Capacity - 1 : i = n - 1
    BY <2>1
  <2>4. Slot(s, i)' = Slot(s, i + 1)
    BY SlotsMove
  <2>5. i + 1 = n
    BY <2>1, <2>3
  <2>6. Slot(s, n - 1)' = Slot(s, n)
    <3>1. (heads'[s] + (n - 1)) % Capacity = Slot(s, n)
      BY <2>3, <2>4, <2>5 DEF Slot
    <3>. QED
      BY <3>1 DEF Slot
  <2>7. n + 1 \in 1 .. counts[s] /\ (n + 1) - 1 = n
    BY <1>1
  <2>8. Contents(s)[n + 1] = sources[s][Slot(s, n)]
    BY <2>7, ContentsType
  <2>. QED
    BY <1>2, <2>2, <2>6, <2>8
<1>5. Contents(s)' = [n \in 1 .. counts[s] - 1 |-> sources'[s][Slot(s, n - 1)']]
  BY <1>1 DEF Contents, Slot
<1>6. Contents(s) # <<>> /\ Tail(Contents(s)) = [n \in 1 .. counts[s] - 1 |-> Contents(s)[n + 1]]
  <2>1. Contents(s) \in Seq(Word) /\ Len(Contents(s)) = counts[s]
    BY ContentsType
  <2>. QED
    BY <1>1, <2>1, TailValue
<1>. QED
  BY <1>4, <1>5, <1>6

\* The other sources see nothing of it.
LEMMA OthersKeep ==
    ASSUME RingTyped, NEW s \in Source, NEW t \in Source, t # s,
           (\E value \in Values : Enqueue(s, value)) \/ Dequeue(s)
    PROVE  Contents(t)' = Contents(t)
<1>1. sources'[t] = sources[t] /\ heads'[t] = heads[t] /\ counts'[t] = counts[t]
  BY DEF RingTyped, Enqueue, Dequeue
<1>. QED
  BY <1>1 DEF Contents, Slot

\* Every step of a ring is a step of the queue it stands for, or of none.
LEMMA RingsStepLikeQueues ==
    ASSUME RingInv, [Next]_vars
    PROVE  [Queues!Next]_([s \in Source |-> Contents(s)])
<1>. DEFINE queues == [s \in Source |-> Contents(s)]
<1>1. ASSUME NEW s \in Source, NEW value \in Values, Enqueue(s, value)
      PROVE  Queues!Put(s, value)
  <2>1. Len(queues[s]) < Capacity
    <3>1. Len(Contents(s)) = counts[s]
      BY ContentsType DEF RingInv
    <3>2. counts[s] \in 0 .. Capacity /\ counts[s] # Capacity /\ Capacity \in Nat
      BY <1>1, QueueAssumption DEF RingInv, RingTyped, Enqueue, Full
    <3>. QED
      BY <3>1, <3>2
  <2>2. \A t \in Source : Contents(t)' = IF t = s THEN Append(Contents(s), value) ELSE Contents(t)
    BY <1>1, EnqueuePuts, OthersKeep DEF RingInv
  <2>3. queues' = [queues EXCEPT ![s] = Append(@, value)]
    BY <2>2
  <2>. QED
    BY <2>1, <2>3 DEF Queues!Put
<1>2. ASSUME NEW s \in Source, Dequeue(s)
      PROVE  Queues!Take(s)
  <2>1. queues[s] # <<>>
    BY <1>2, DequeueTakes
  <2>2. \A t \in Source : Contents(t)' = IF t = s THEN Tail(Contents(s)) ELSE Contents(t)
    BY <1>2, DequeueTakes, OthersKeep DEF RingInv
  <2>3. queues' = [queues EXCEPT ![s] = Tail(@)]
    BY <2>2
  <2>. QED
    BY <2>1, <2>3 DEF Queues!Take
<1>3. ASSUME UNCHANGED vars PROVE queues' = queues
  BY <1>3 DEF vars, Contents, Slot
<1>. QED
  BY <1>1, <1>2, <1>3 DEF Next, Queues!Next

\* The rings start as empty queues.
LEMMA RingsStartEmpty == Init => Queues!Init
<1>. SUFFICES ASSUME Init PROVE Queues!Init
  OBVIOUS
<1>1. ASSUME NEW s \in Source PROVE Contents(s) = <<>>
  BY DEF Init, Contents
<1>. QED
  BY <1>1 DEF Queues!Init

\* For any number of sources, any capacity and any values, what Source returns
\* of each ring is a first-in first-out queue of that capacity.
THEOREM RingsAreQueues == Spec => ImplementsQueues
<1>1. RingInv /\ [Next]_vars => RingInv'
  BY RingInvStep
<1>2. RingInv /\ [Next]_vars => [Queues!Next]_([s \in Source |-> Contents(s)])
  BY RingsStepLikeQueues
<1>. QED
  BY <1>1, <1>2, RingInvInit, RingsStartEmpty, PTL DEF Spec, ImplementsQueues, Queues!Spec

-----------------------------------------------------------------------------
(* The backup                                                              *)

\* The words in slot i of all the rings.
SlotWords(i) == [s \in Source |-> sources[s][i]]

\* The rings with their backup.
FusedInv ==
    /\ RingInv
    /\ fusion \in [Slots -> Word]
    /\ FusionIsXor

LEMMA SourcesFinite == IsFiniteSet(Source)
BY SourceAssumption, FS_Interval DEF Source

LEMMA SlotWordsTyped ==
    ASSUME RingTyped, NEW i \in Slots
    PROVE  WordsOn(SlotWords(i), Source)
BY DEF RingTyped, SlotWords, WordsOn

LEMMA FusedInvInit == Init => FusedInv
<1>. SUFFICES ASSUME Init PROVE FusedInv
  OBVIOUS
<1>1. RingInv
  BY RingInvInit
<1>2. fusion \in [Slots -> Word]
  BY XorLaws DEF Init
<1>3. ASSUME NEW i \in Slots PROVE fusion[i] = XorOver(SlotWords(i), Source)
  <2>1. WordsOn(SlotWords(i), Source)
    BY <1>1, SlotWordsTyped DEF RingInv
  <2>2. \A s \in Source \ {} : SlotWords(i)[s] = 0
    BY DEF Init, SlotWords
  <2>3. XorOver(SlotWords(i), Source) = XorOver(SlotWords(i), {})
    BY <2>1, <2>2, SourcesFinite, XorOverZeros
  <2>. QED
    BY <2>3, XorOverEmpty DEF Init
<1>. QED
  BY <1>1, <1>2, <1>3 DEF FusedInv, FusionIsXor, SlotWords, Init

\* A word put where there was none enters the XOR of its slot, and no other.
LEMMA FusedInvEnqueue ==
    ASSUME FusedInv, NEW s \in Source, NEW value \in Values, Enqueue(s, value)
    PROVE  FusedInv'
<1>1. RingInv /\ RingInv' /\ RingTyped /\ RingTyped' /\ value \in Word
  BY RingInvEnqueue, QueueAssumption DEF FusedInv, RingInv
<1>2. /\ counts[s] \in Nat /\ counts[s] < Capacity /\ Capacity \in Nat
      /\ counts'[s] = counts[s] + 1 /\ heads' = heads
      /\ tails[s] \in Slots /\ tails[s] = Slot(s, counts[s])
  <2>1. counts[s] \in 0 .. Capacity /\ counts[s] # Capacity /\ Capacity \in Nat
    BY <1>1, QueueAssumption DEF RingTyped, Enqueue, Full
  <2>2. counts'[s] = counts[s] + 1 /\ heads' = heads
    BY <1>1 DEF RingTyped, Enqueue
  <2>3. tails[s] \in Slots /\ tails[s] = Slot(s, counts[s])
    BY <1>1 DEF RingTyped, RingInv, WindowsAgree
  <2>. QED
    BY <2>1, <2>2, <2>3
<1>3. sources[s][tails[s]] = 0
  <2>1. ASSUME NEW n \in 0 .. counts[s] - 1 PROVE Slot(s, n) # tails[s]
    <3>1. n \in 0 .. Capacity - 1 /\ counts[s] \in 0 .. Capacity - 1 /\ n # counts[s]
      BY <1>2
    <3>. QED
      BY <1>1, <1>2, <3>1, SlotsDiffer
  <2>. QED
    BY <1>2, <2>1 DEF FusedInv, FusionIsXor
<1>4. \A t \in Source, i \in Slots :
         sources'[t][i] = IF t = s /\ i = tails[s] THEN value ELSE sources[t][i]
  BY <1>1 DEF RingTyped, Enqueue
<1>5. \A i \in Slots : fusion'[i] = IF i = tails[s] THEN Xor(fusion[i], value) ELSE fusion[i]
  BY DEF FusedInv, Enqueue
<1>6. fusion' \in [Slots -> Word]
  BY <1>1, XorLaws DEF FusedInv, Enqueue
<1>7. ASSUME NEW i \in Slots PROVE fusion'[i] = XorOver(SlotWords(i)', Source)
  <2>1. /\ WordsOn(SlotWords(i), Source) /\ WordsOn(SlotWords(i)', Source)
        /\ fusion[i] = XorOver(SlotWords(i), Source) /\ fusion[i] \in Word
    BY <1>1, SlotWordsTyped DEF FusedInv, FusionIsXor, SlotWords, RingTyped, WordsOn
  <2>2. \A t \in Source : SlotWords(i)[t] = sources[t][i] /\ SlotWords(i)'[t] = sources'[t][i]
    BY DEF SlotWords
  <2>3. CASE i = tails[s]
    <3>1. \A t \in Source : t # s => SlotWords(i)[t] = SlotWords(i)'[t]
      BY <1>4, <2>2
    <3>2. XorOver(SlotWords(i)', Source)
            = Xor(Xor(XorOver(SlotWords(i), Source), SlotWords(i)[s]), SlotWords(i)'[s])
      BY <2>1, <3>1, SourcesFinite, XorOverChange
    <3>3. SlotWords(i)[s] = 0 /\ SlotWords(i)'[s] = value
      BY <1>3, <1>4, <2>2, <2>3
    <3>. QED
      BY <1>5, <2>1, <2>3, <3>2, <3>3, XorLaws
  <2>4. CASE i # tails[s]
    <3>1. \A t \in Source : SlotWords(i)[t] = SlotWords(i)'[t]
      BY <1>4, <2>2, <2>4
    <3>2. XorOver(SlotWords(i)', Source) = XorOver(SlotWords(i), Source)
      BY <3>1, SourcesFinite, XorOverSame
    <3>. QED
      BY <1>5, <2>1, <2>4, <3>2
  <2>. QED
    BY <2>3, <2>4
<1>8. ASSUME NEW t \in Source, NEW i \in Slots,
             \A n \in 0 .. counts'[t] - 1 : Slot(t, n)' # i
      PROVE  sources'[t][i] = 0
  <2>1. \A n : Slot(t, n)' = Slot(t, n)
    BY <1>2 DEF Slot
  <2>2. CASE t = s
    <3>1. i # tails[s]
      <4>1. counts[s] \in 0 .. counts'[s] - 1
        BY <1>2
      <4>. QED
        BY <1>2, <1>8, <2>1, <2>2, <4>1
    <3>2. \A n \in 0 .. counts[s] - 1 : n \in 0 .. counts'[s] - 1
      BY <1>2
    <3>3. sources[t][i] = 0
      BY <1>8, <2>1, <2>2, <3>2 DEF FusedInv, FusionIsXor
    <3>. QED
      BY <1>4, <3>1, <3>3
  <2>3. CASE t # s
    <3>1. counts'[t] = counts[t]
      BY <1>1, <2>3 DEF RingTyped, Enqueue
    <3>. QED
      BY <1>4, <1>8, <2>1, <2>3, <3>1 DEF FusedInv, FusionIsXor
  <2>. QED
    BY <2>2, <2>3
<1>. QED
  BY <1>1, <1>6, <1>7, <1>8 DEF FusedInv, FusionIsXor, SlotWords

\* A word cleared leaves the XOR of its slot.
LEMMA FusedInvDequeue ==
    ASSUME FusedInv, NEW s \in Source, Dequeue(s)
    PROVE  FusedInv'
<1>1. RingInv /\ RingInv' /\ RingTyped /\ RingTyped'
  BY RingInvDequeue DEF FusedInv, RingInv
<1>2. /\ counts[s] \in Nat /\ counts[s] >= 1 /\ counts[s] <= Capacity /\ Capacity \in Nat
      /\ counts'[s] = counts[s] - 1 /\ heads[s] \in Slots
      /\ heads[s] \in Nat /\ heads[s] < Capacity
  BY <1>1, QueueAssumption DEF RingTyped, Dequeue, Slots
<1>3. Slot(s, 0) = heads[s]
  BY <1>1, <1>2, SlotValue
<1>4. \A t \in Source, i \in Slots :
         sources'[t][i] = IF t = s /\ i = heads[s] THEN 0 ELSE sources[t][i]
  BY <1>1 DEF RingTyped, Dequeue, Cleared
<1>5. \A i \in Slots : fusion'[i] = IF i = heads[s] THEN Xor(fusion[i], sources[s][i]) ELSE fusion[i]
  BY DEF FusedInv, Dequeue
<1>6. fusion' \in [Slots -> Word]
  BY <1>1, <1>5, XorLaws DEF FusedInv, Dequeue, RingTyped
<1>7. ASSUME NEW i \in Slots PROVE fusion'[i] = XorOver(SlotWords(i)', Source)
  <2>1. /\ WordsOn(SlotWords(i), Source) /\ WordsOn(SlotWords(i)', Source)
        /\ fusion[i] = XorOver(SlotWords(i), Source) /\ fusion[i] \in Word
        /\ sources[s][i] \in Word
    BY <1>1, SlotWordsTyped DEF FusedInv, FusionIsXor, SlotWords, RingTyped, WordsOn
  <2>2. \A t \in Source : SlotWords(i)[t] = sources[t][i] /\ SlotWords(i)'[t] = sources'[t][i]
    BY DEF SlotWords
  <2>3. CASE i = heads[s]
    <3>1. \A t \in Source : t # s => SlotWords(i)[t] = SlotWords(i)'[t]
      BY <1>4, <2>2
    <3>2. XorOver(SlotWords(i)', Source)
            = Xor(Xor(XorOver(SlotWords(i), Source), SlotWords(i)[s]), SlotWords(i)'[s])
      BY <2>1, <3>1, SourcesFinite, XorOverChange
    <3>3. SlotWords(i)[s] = sources[s][i] /\ SlotWords(i)'[s] = 0
      BY <1>4, <2>2, <2>3
    <3>. QED
      BY <1>5, <2>1, <2>3, <3>2, <3>3, XorLaws
  <2>4. CASE i # heads[s]
    <3>1. \A t \in Source : SlotWords(i)[t] = SlotWords(i)'[t]
      BY <1>4, <2>2, <2>4
    <3>2. XorOver(SlotWords(i)', Source) = XorOver(SlotWords(i), Source)
      BY <3>1, SourcesFinite, XorOverSame
    <3>. QED
      BY <1>5, <2>1, <2>4, <3>2
  <2>. QED
    BY <2>3, <2>4
<1>8. ASSUME NEW t \in Source, NEW i \in Slots,
             \A n \in 0 .. counts'[t] - 1 : Slot(t, n)' # i
      PROVE  sources'[t][i] = 0
  <2>1. CASE t = s /\ i = heads[s]
    BY <1>4, <2>1
  <2>2. CASE t = s /\ i # heads[s]
    <3>1. ASSUME NEW n \in 0 .. counts[s] - 1 PROVE Slot(s, n) # i
      <4>1. CASE n = 0
        BY <1>3, <2>2, <4>1
      <4>2. CASE n # 0
        <5>1. n - 1 \in 0 .. counts'[s] - 1 /\ n - 1 \in 0 .. Capacity - 1
          BY <1>2, <4>2
        <5>2. PICK m \in 0 .. counts'[s] - 1 : m = n - 1
          BY <5>1
        <5>3. Slot(s, m)' = Slot(s, m + 1) /\ m + 1 = n
          BY <1>1, <5>1, <5>2, SlotsMove
        <5>. QED
          BY <1>8, <2>2, <5>3
      <4>. QED
        BY <4>1, <4>2
    <3>. QED
      BY <1>4, <2>2, <3>1 DEF FusedInv, FusionIsXor
  <2>3. CASE t # s
    <3>1. counts'[t] = counts[t] /\ heads'[t] = heads[t]
      BY <1>1, <2>3 DEF RingTyped, Dequeue
    <3>2. \A n : Slot(t, n)' = Slot(t, n)
      BY <3>1 DEF Slot
    <3>. QED
      BY <1>4, <1>8, <2>3, <3>1, <3>2 DEF FusedInv, FusionIsXor
  <2>. QED
    BY <2>1, <2>2, <2>3
<1>. QED
  BY <1>1, <1>6, <1>7, <1>8 DEF FusedInv, FusionIsXor, SlotWords

LEMMA FusedInvStep == FusedInv /\ [Next]_vars => FusedInv'
<1>. SUFFICES ASSUME FusedInv, [Next]_vars PROVE FusedInv'
  OBVIOUS
<1>1. ASSUME NEW s \in Source, NEW value \in Values, Enqueue(s, value) PROVE FusedInv'
  BY <1>1, FusedInvEnqueue
<1>2. ASSUME NEW s \in Source, Dequeue(s) PROVE FusedInv'
  BY <1>2, FusedInvDequeue
<1>3. CASE UNCHANGED vars
  BY <1>3 DEF FusedInv, RingInv, RingTyped, FusionIsXor, WindowsAgree, Slot, vars
<1>. QED
  BY <1>1, <1>2, <1>3 DEF Next

\* The survivors' elements in a slot are what their rings hold there.
LEMMA HeldIsSlotWords ==
    ASSUME FusedInv, NEW i \in Slots, NEW rest \in SUBSET Source,
           NEW held, held = {p \in rest \X Slots :
                                p[2] < Len(Contents(p[1])) /\ Slot(p[1], p[2]) = i}
    PROVE  XorOver([p \in held |-> Contents(p[1])[p[2] + 1]], held) = XorOver(SlotWords(i), rest)
<1>. DEFINE holders == {s \in rest : \E n \in 0 .. counts[s] - 1 : Slot(s, n) = i}
            f == [p \in held |-> Contents(p[1])[p[2] + 1]]
            b == [p \in held |-> p[1]]
<1>1. /\ IsFiniteSet(rest) /\ IsFiniteSet(held) /\ IsFiniteSet(holders)
      /\ WordsOn(SlotWords(i), rest) /\ WordsOn(SlotWords(i), holders)
  <2>1. IsFiniteSet(rest) /\ IsFiniteSet(Slots)
    BY SourcesFinite, FS_Subset, FS_Interval, QueueAssumption DEF Slots
  <2>2. IsFiniteSet(rest \X Slots)
    BY <2>1, FS_Product
  <2>3. IsFiniteSet(held) /\ IsFiniteSet(holders)
    BY <2>1, <2>2, FS_Subset
  <2>4. WordsOn(SlotWords(i), Source)
    BY SlotWordsTyped DEF FusedInv, RingInv
  <2>. QED
    BY <2>1, <2>3, <2>4 DEF WordsOn
<1>2. XorOver(SlotWords(i), rest) = XorOver(SlotWords(i), holders)
  <2>1. \A s \in rest \ holders : SlotWords(i)[s] = 0
    BY DEF FusedInv, FusionIsXor, SlotWords
  <2>2. holders \in SUBSET rest
    OBVIOUS
  <2>. HIDE DEF holders
  <2>. QED
    BY <1>1, <2>1, <2>2, XorOverZeros
<1>3. \A s \in rest : counts[s] \in Nat /\ counts[s] <= Capacity /\ Len(Contents(s)) = counts[s]
                      /\ Capacity \in Nat
  BY ContentsType, QueueAssumption DEF FusedInv, RingInv, RingTyped
<1>4. ASSUME NEW p \in held PROVE b[p] \in holders /\ f[p] = SlotWords(i)[b[p]]
  <2>1. p[1] \in rest /\ p[2] \in 0 .. counts[p[1]] - 1 /\ Slot(p[1], p[2]) = i
    BY <1>3 DEF Slots
  <2>2. p[2] + 1 \in 1 .. counts[p[1]] /\ (p[2] + 1) - 1 = p[2]
    BY <1>3, <2>1
  <2>3. Contents(p[1])[p[2] + 1] = sources[p[1]][i]
    BY <2>1, <2>2, ContentsType DEF FusedInv, RingInv
  <2>. QED
    BY <2>1, <2>3 DEF SlotWords
<1>5. ASSUME NEW p \in held, NEW q \in held, b[p] = b[q] PROVE p = q
  <2>1. /\ p = <<p[1], p[2]>> /\ q = <<q[1], q[2]>> /\ p[1] = q[1] /\ p[1] \in Source
        /\ p[2] \in 0 .. Capacity - 1 /\ q[2] \in 0 .. Capacity - 1
        /\ Slot(p[1], p[2]) = Slot(q[1], q[2])
    BY <1>5 DEF Slots
  <2>. QED
    BY <2>1, SlotsDiffer DEF FusedInv, RingInv
<1>6. ASSUME NEW s \in holders PROVE \E p \in held : b[p] = s
  <2>1. PICK n \in 0 .. counts[s] - 1 : Slot(s, n) = i
    OBVIOUS
  <2>2. n \in Slots /\ n < Len(Contents(s))
    BY <1>3 DEF Slots
  <2>3. <<s, n>> \in held
    BY <2>1, <2>2
  <2>. QED
    BY <2>3
<1>7. XorOver(f, held) = XorOver(SlotWords(i), holders)
  <2>1. \A p \in held : b[p] \in holders /\ f[p] = SlotWords(i)[b[p]]
    BY <1>4
  <2>2. \A p, q \in held : b[p] = b[q] => p = q
    BY <1>5
  <2>3. \A s \in holders : \E p \in held : b[p] = s
    BY <1>6
  <2>4. PICK g : g = SlotWords(i)
    OBVIOUS
  <2>5. IsFiniteSet(held) /\ IsFiniteSet(holders) /\ WordsOn(g, holders)
    BY <1>1, <2>4
  <2>. HIDE DEF f, b, holders
  <2>6. XorOver(f, held) = XorOver(g, holders)
    BY SMTT(30), <2>1, <2>2, <2>3, <2>4, <2>5, XorOverRenamed
  <2>. QED
    BY <2>4, <2>6
<1>. QED
  BY <1>2, <1>7

LEMMA FusedInvRecovers == FusedInv => RecoversEverySource
<1>. SUFFICES ASSUME FusedInv, NEW missing \in Source
              PROVE  /\ SurvivorsFit(missing, Survivors(missing))
                     /\ Recover(missing, Survivors(missing)) = Contents(missing)
  BY DEF RecoversEverySource
<1>1. RingTyped
  BY DEF FusedInv, RingInv
<1>. DEFINE rest == Source \ {missing}
            survivors == Survivors(missing)
            Held(i) == {p \in rest \X Slots :
                           p[2] < Len(survivors[p[1]]) /\ Slot(p[1], p[2]) = i}
            Left(i) == Xor(fusion[i],
                           XorOver([p \in Held(i) |-> survivors[p[1]][p[2] + 1]], Held(i)))
<1>2. \A s \in rest : survivors[s] = Contents(s)
  BY DEF Survivors
<1>3. SurvivorsFit(missing, survivors)
  BY <1>1, <1>2, ContentsType DEF SurvivorsFit
<1>4. ASSUME NEW i \in Slots PROVE Left(i) = sources[missing][i]
  <2>1. Held(i) = {p \in rest \X Slots : p[2] < Len(Contents(p[1])) /\ Slot(p[1], p[2]) = i}
    BY <1>2
  <2>2. [p \in Held(i) |-> survivors[p[1]][p[2] + 1]] = [p \in Held(i) |-> Contents(p[1])[p[2] + 1]]
    BY <1>2
  <2>3. XorOver([p \in Held(i) |-> Contents(p[1])[p[2] + 1]], Held(i)) = XorOver(SlotWords(i), rest)
    <3>1. rest \in SUBSET Source
      OBVIOUS
    <3>. HIDE DEF rest, Held
    <3>. QED
      BY <2>1, <3>1, HeldIsSlotWords
  <2>4. WordsOn(SlotWords(i), Source) /\ WordsOn(SlotWords(i), rest) /\ IsFiniteSet(rest)
    BY <1>1, SlotWordsTyped, SourcesFinite, FS_Subset DEF WordsOn
  <2>5. fusion[i] = Xor(SlotWords(i)[missing], XorOver(SlotWords(i), rest))
    <3>1. fusion[i] = XorOver(SlotWords(i), Source)
      BY DEF FusedInv, FusionIsXor, SlotWords
    <3>. QED
      BY <2>4, <3>1, SourcesFinite, XorOverRemove
  <2>6. XorOver(SlotWords(i), rest) \in Word /\ SlotWords(i)[missing] \in Word
    BY <2>4, XorOverTyped DEF WordsOn
  <2>7. Left(i) = SlotWords(i)[missing]
    <3>1. Left(i) = Xor(fusion[i], XorOver(SlotWords(i), rest))
      BY <2>2, <2>3
    <3>. HIDE DEF Left, rest
    <3>. QED
      BY <2>5, <2>6, <3>1, XorLaws
  <2>. QED
    BY <2>7 DEF SlotWords
<1>5. counts[missing] \in Nat /\ counts[missing] <= Capacity /\ Capacity \in Nat
  BY <1>1, QueueAssumption DEF RingTyped
<1>6. ASSUME NEW n \in 1 .. counts[missing]
      PROVE  Left(Slot(missing, n - 1)) = sources[missing][Slot(missing, n - 1)]
  <2>1. n - 1 \in 0 .. Capacity
    BY <1>5
  <2>2. heads[missing] \in 0 .. Capacity - 1
    BY <1>1 DEF RingTyped, Slots
  <2>3. Slot(missing, n - 1) \in Slots
    BY <1>1, <1>5, <2>1, <2>2, SlotValue DEF Slots
  <2>. HIDE DEF Left
  <2>. QED
    BY <1>4, <2>3
<1>7. Recover(missing, survivors) = [n \in 1 .. counts[missing] |-> Left(Slot(missing, n - 1))]
  BY DEF Recover
<1>. HIDE DEF Left
<1>8. Recover(missing, survivors) = Contents(missing)
  BY <1>6, <1>7 DEF Contents
<1>. QED
  BY <1>3, <1>8

\* For any number of sources, any capacity and any values the backup is the XOR
\* of what the rings hold, however Enqueue and Dequeue wrap them.
THEOREM RingFusionIsXor == Spec => []FusionIsXor
<1>1. FusedInv => FusionIsXor
  BY DEF FusedInv
<1>. QED
  BY <1>1, FusedInvInit, FusedInvStep, PTL DEF Spec

\* Whichever ring is lost, Recover returns its elements in their order, for any
\* overlap of the windows.
THEOREM RingsRecover == Spec => []RecoversEverySource
<1>. QED
  BY FusedInvRecovers, FusedInvInit, FusedInvStep, PTL DEF Spec

-----------------------------------------------------------------------------
(* The stack and the array                                                 *)

(* The operators that the stack and the array share with this module.      *)

LEMMA StackSource == Stack!Source = Source
BY DEF Stack!Source, Source

LEMMA ArraySource == Array!Source = Source
BY DEF Array!Source, Source

LEMMA StackMax == \A N : Stack!Max(N) = Max(N)
BY DEF Stack!Max, Max

LEMMA StackEnds == \A q : Stack!Front(q) = Front(q) /\ Stack!Last(q) = Last(q)
BY DEF Stack!Front, Front, Stack!Last, Last

LEMMA StackXORSlices == \A q : Stack!XORSlices(q) = XORSlices(q)
BY Zenon DEF Stack!XORSlices, XORSlices, Stack!Longest, Longest, Stack!Max, Max,
       Stack!XorOver, XorOver, Stack!FoldFunctionOnSet, FoldFunctionOnSet,
       Stack!MapThenFoldSet, MapThenFoldSet

LEMMA StackXOROut == \A out, q : Stack!XOROut(out, q) = XOROut(out, q)
BY Zenon DEF Stack!XOROut, XOROut, Stack!XorOver, XorOver,
       Stack!FoldFunctionOnSet, FoldFunctionOnSet, Stack!MapThenFoldSet, MapThenFoldSet

LEMMA ArrayXORSlices == \A q : Array!XORSlices(q) = XORSlices(q)
BY Zenon DEF Array!XORSlices, XORSlices, Array!Longest, Longest, Array!Max, Max,
       Array!XorOver, XorOver, Array!FoldFunctionOnSet, FoldFunctionOnSet,
       Array!MapThenFoldSet, MapThenFoldSet

LEMMA ArrayXOROut == \A out, q : Array!XOROut(out, q) = XOROut(out, q)
BY Zenon DEF Array!XOROut, XOROut, Array!XorOver, XorOver,
       Array!FoldFunctionOnSet, FoldFunctionOnSet, Array!MapThenFoldSet, MapThenFoldSet

LEMMA ArrayXorOver == \A f, S : Array!XorOver(f, S) = XorOver(f, S)
BY Zenon DEF Array!XorOver, XorOver, Array!FoldFunctionOnSet, FoldFunctionOnSet,
       Array!MapThenFoldSet, MapThenFoldSet

LEMMA ZeroIsWord == WithZero \subseteq Word
BY QueueAssumption, XorLaws DEF WithZero

LEMMA SourcesDiffer == Source # {} /\ \A s \in Source : Source # {s}
<1>1. 0 \in Source /\ 1 \in Source
  BY SourceAssumption DEF Source
<1>. QED
  BY <1>1

-----------------------------------------------------------------------------
(* The stack                                                               *)

\* The array is that of the stacks, and the tops are their heights.
StackInv ==
    /\ AreSlices(stacks, Source)
    /\ tops = [s \in Source |-> Len(stacks[s])]
    /\ stackFusion = XORSlices(stacks)

LEMMA StackInvInit == Stack!Init => StackInv
<1>. SUFFICES ASSUME Stack!Init PROVE StackInv
  OBVIOUS
<1>1. stacks = [s \in Source |-> <<>>] /\ tops = [s \in Source |-> 0] /\ stackFusion = <<>>
  BY StackSource DEF Stack!Init
<1>2. AreSlices(stacks, Source)
  BY <1>1, SourcesFinite, SourcesDiffer DEF AreSlices
<1>3. Longest(stacks) = 0
  BY <1>1, <1>2, ArrayOfSlices
<1>4. XORSlices(stacks) = <<>>
  BY <1>2, <1>3, ArrayOfSlices
<1>. QED
  BY <1>1, <1>2, <1>4 DEF StackInv

LEMMA StackInvPush ==
    ASSUME StackInv, NEW s \in Source, NEW value \in WithZero, Stack!Push(s, value)
    PROVE  StackInv'
<1>. DEFINE depth == tops[s] + 1
            grown == IF depth > Len(stackFusion) THEN Append(stackFusion, 0) ELSE stackFusion
<1>1. AreSlices(stacks, Source) /\ value \in Word
  BY ZeroIsWord DEF StackInv
<1>2. /\ stackFusion' = [grown EXCEPT ![depth] = Xor(@, value)]
      /\ stacks' = [stacks EXCEPT ![s] = Append(@, value)]
      /\ tops' = [tops EXCEPT ![s] = @ + 1]
      /\ depth = Len(stacks[s]) + 1
  BY DEF Stack!Push, StackInv
<1>3. /\ stackFusion \in Seq(Word) /\ Len(stackFusion) = Longest(stacks) /\ Longest(stacks) \in Nat
      /\ \A i \in 1 .. Longest(stacks) : stackFusion[i] = Column(stacks, i)
      /\ stacks[s] \in Seq(Word) /\ Len(stacks[s]) \in Nat /\ Len(stacks[s]) <= Longest(stacks)
  BY <1>1, ArrayOfSlices DEF StackInv
<1>4. /\ grown \in Seq(Word)
      /\ Len(grown) = IF Len(stacks[s]) + 1 > Longest(stacks)
                      THEN Longest(stacks) + 1 ELSE Longest(stacks)
      /\ \A i \in 1 .. Len(grown) : grown[i] = Column(stacks, i)
  <2>1. CASE depth > Len(stackFusion)
    <3>1. grown = Append(stackFusion, 0)
      BY <2>1
    <3>2. /\ Append(stackFusion, 0) \in Seq(Word)
          /\ Len(Append(stackFusion, 0)) = Len(stackFusion) + 1
          /\ \A i \in 1 .. Len(stackFusion) : Append(stackFusion, 0)[i] = stackFusion[i]
          /\ Append(stackFusion, 0)[Len(stackFusion) + 1] = 0
      BY <1>3, XorLaws, AppendProperties
    <3>3. Column(stacks, Longest(stacks) + 1) = 0
      BY <1>1, <1>3, ColumnAbove
    <3>. HIDE DEF grown
    <3>. QED
      BY <1>2, <1>3, <2>1, <3>1, <3>2, <3>3
  <2>2. CASE ~(depth > Len(stackFusion))
    BY <1>2, <1>3, <2>2
  <2>. QED
    BY <2>1, <2>2
<1>. HIDE DEF grown
<1>5. /\ [grown EXCEPT ![Len(stacks[s]) + 1] = Xor(@, value)]
           = XORSlices([stacks EXCEPT ![s] = Append(@, value)])
      /\ AreSlices([stacks EXCEPT ![s] = Append(@, value)], Source)
  BY <1>1, <1>4, SliceGrows
<1>6. tops' = [t \in Source |-> Len(stacks'[t])]
  <2>1. \A t \in Source : stacks'[t] = IF t = s THEN Append(stacks[s], value) ELSE stacks[t]
    BY <1>1, <1>2 DEF AreSlices
  <2>2. Len(Append(stacks[s], value)) = Len(stacks[s]) + 1
    BY <1>1, <1>3, AppendProperties
  <2>3. tops = [t \in Source |-> Len(stacks[t])]
    BY DEF StackInv
  <2>4. \A t \in Source : Len(stacks'[t]) = IF t = s THEN tops[s] + 1 ELSE tops[t]
    BY <2>1, <2>2, <2>3
  <2>. QED
    BY <1>2, <2>3, <2>4
<1>. QED
  BY <1>2, <1>5, <1>6 DEF StackInv

LEMMA StackInvPop ==
    ASSUME StackInv, NEW s \in Source, Stack!Pop(s)
    PROVE  StackInv'
<1>. DEFINE left == [stackFusion EXCEPT ![tops[s]] = Xor(@, Last(stacks[s]))]
<1>1. AreSlices(stacks, Source)
  BY DEF StackInv
<1>2. /\ stackFusion' = Stack!Trim(left, tops')
      /\ stacks' = [stacks EXCEPT ![s] = Front(@)]
      /\ tops' = [tops EXCEPT ![s] = @ - 1]
      /\ tops[s] = Len(stacks[s]) /\ tops[s] # 0
  BY StackEnds DEF Stack!Pop, StackInv
<1>3. /\ stackFusion \in Seq(Word) /\ Len(stackFusion) = Longest(stacks) /\ Longest(stacks) \in Nat
      /\ \A i \in 1 .. Longest(stacks) : stackFusion[i] = Column(stacks, i)
      /\ stacks[s] \in Seq(Word) /\ Len(stacks[s]) \in Nat /\ Len(stacks[s]) <= Longest(stacks)
      /\ stacks[s] # <<>>
  BY <1>1, <1>2, ArrayOfSlices DEF StackInv
<1>4. /\ Len(stacks[s]) \in 1 .. Longest(stacks)
      /\ Last(stacks[s]) \in Word
      /\ Front(stacks[s]) \in Seq(Word) /\ Len(Front(stacks[s])) = Len(stacks[s]) - 1
  BY <1>3, FrontProperties
<1>5. Xor(stackFusion[Len(stacks[s])], Last(stacks[s])) \in Word
  BY <1>3, <1>4, XorLaws
<1>6. IsLeft(left, stacks, s)
  BY <1>2, <1>3, <1>4, <1>5 DEF IsLeft
<1>7. IsShrunk(stacks', stacks, s)
  BY <1>2 DEF IsShrunk
<1>. HIDE DEF left
<1>8. PICK rest : rest = left
  OBVIOUS
<1>9. PICK shrunk : shrunk = stacks'
  OBVIOUS
<1>10. /\ AreSlices(shrunk, Source)
       /\ rest \in Seq(Word)
       /\ Longest(shrunk) \in 0 .. Len(rest)
       /\ \A i \in 1 .. Len(rest) : rest[i] = Column(shrunk, i)
       /\ XORSlices(shrunk) = SubSeq(rest, 1, Longest(shrunk))
  <2>1. IsLeft(rest, stacks, s) /\ IsShrunk(shrunk, stacks, s)
    BY <1>6, <1>7, <1>8, <1>9
  <2>2. rest \in Seq(Word)
    BY <2>1 DEF IsLeft
  <2>. QED
    BY <1>1, <1>3, <2>1, <2>2, SliceShrinks
<1>11. tops' = [t \in Source |-> Len(shrunk[t])]
  <2>1. tops = [t \in Source |-> Len(stacks[t])]
    BY DEF StackInv
  <2>2. \A t \in Source : shrunk[t] = IF t = s THEN Front(stacks[s]) ELSE stacks[t]
    BY <1>1, <1>2, <1>9 DEF AreSlices
  <2>3. \A t \in Source : Len(shrunk[t]) = IF t = s THEN tops[s] - 1 ELSE tops[t]
    BY <1>4, <2>1, <2>2
  <2>. QED
    BY <1>2, <2>1, <2>3
<1>12. Max(Reached(rest, shrunk)) = Longest(shrunk)
  BY <1>10, ZerosEndAtLongest
<1>13. Stack!Trim(rest, tops') = SubSeq(rest, 1, Max(Reached(rest, shrunk)))
  <2>1. Reached(rest, shrunk) = {0} \cup {i \in DOMAIN rest :
                   rest[i] # 0 \/ \E t \in Source : tops'[t] >= i}
    BY <1>10, <1>11 DEF Reached, AreSlices
  <2>. QED
    BY <2>1, StackSource, StackMax DEF Stack!Trim
<1>. QED
  BY <1>2, <1>8, <1>9, <1>10, <1>11, <1>12, <1>13 DEF StackInv

LEMMA StackInvStep == StackInv /\ [Stack!Next]_stackVars => StackInv'
<1>. SUFFICES ASSUME StackInv, [Stack!Next]_stackVars PROVE StackInv'
  OBVIOUS
<1>1. ASSUME NEW s \in Source, NEW value \in WithZero, Stack!Push(s, value) PROVE StackInv'
  BY <1>1, StackInvPush
<1>2. ASSUME NEW s \in Source, Stack!Pop(s) PROVE StackInv'
  BY <1>2, StackInvPop
<1>3. CASE UNCHANGED stackVars
  BY <1>3 DEF StackInv, stackVars
<1>. QED
  BY <1>1, <1>2, <1>3, StackSource DEF Stack!Next

LEMMA StackInvFusion == StackInv => Stack!FusionIsXor
BY StackXORSlices DEF StackInv, Stack!FusionIsXor

LEMMA StackInvRecovers == StackInv => Stack!RecoversEverySource
<1>. SUFFICES ASSUME StackInv, NEW missing \in Source
              PROVE  Stack!Recover(missing, Stack!Survivors(missing)) = stacks[missing]
  BY StackSource DEF Stack!RecoversEverySource
<1>. DEFINE out == [i \in 1 .. tops[missing] |->
                       IF i <= Len(stackFusion) THEN stackFusion[i] ELSE 0]
<1>1. AreSlices(stacks, Source) /\ tops[missing] = Len(stacks[missing])
  BY DEF StackInv
<1>2. /\ stackFusion \in Seq(Word) /\ Len(stackFusion) = Longest(stacks) /\ Longest(stacks) \in Nat
      /\ \A i \in 1 .. Longest(stacks) : stackFusion[i] = Column(stacks, i)
      /\ Len(stacks[missing]) \in Nat /\ Len(stacks[missing]) <= Longest(stacks)
  BY <1>1, ArrayOfSlices DEF StackInv
<1>3. IsOut(out, stacks, missing)
  <2>1. \A i \in 1 .. tops[missing] : out[i] = stackFusion[i] /\ stackFusion[i] \in Word
    BY <1>1, <1>2
  <2>2. out \in Seq(Word) /\ Len(out) = tops[missing]
    BY <1>1, <1>2, <2>1
  <2>. HIDE DEF out
  <2>. QED
    BY <1>1, <1>2, <2>1, <2>2 DEF IsOut
<1>4. AreSurvivors(Stack!Survivors(missing), stacks, missing)
  BY <1>1, StackSource DEF Stack!Survivors, AreSlices, AreSurvivors
<1>5. Stack!Recover(missing, Stack!Survivors(missing)) = XOROut(out, Stack!Survivors(missing))
  BY StackXOROut DEF Stack!Recover
<1>. HIDE DEF out
<1>6. XOROut(out, Stack!Survivors(missing)) = stacks[missing]
  BY <1>1, <1>3, <1>4, SourcesDiffer, XOROutRecovers
<1>. QED
  BY <1>5, <1>6

-----------------------------------------------------------------------------
(* The array                                                               *)

LengthsOf(q) == [s \in Source |-> Len(q[s])]

\* The array is that of the slices, and the parity that of their lengths, which
\* are words.
ArrayInv ==
    /\ AreSlices(slices, Source)
    /\ \A s \in Source : Len(slices[s]) <= MaxLength
    /\ sliceFusion = XORSlices(slices)
    /\ lengthParity = XorOver(LengthsOf(slices), Source)

LEMMA ArrayLengths ==
    ASSUME NEW S, NEW q, DOMAIN q = S
    PROVE  Array!Lengths(q) = [s \in S |-> Len(q[s])]
BY DEF Array!Lengths

\* The lengths are machine words.
LEMMA LengthsAreWords == ArrayInv => WordsOn(LengthsOf(slices), Source)
<1>1. 0 .. MaxLength \subseteq Word /\ MaxLength \in Nat
  BY ArraysAssumption
<1>. QED
  BY <1>1 DEF ArrayInv, AreSlices, WordsOn, LengthsOf

LEMMA ArrayInvInit == Array!Init => ArrayInv
<1>. SUFFICES ASSUME Array!Init PROVE ArrayInv
  OBVIOUS
<1>1. /\ slices \in [Source -> Array!BoundedSeq(Given, MaxLength)]
      /\ sliceFusion = XORSlices(slices)
      /\ lengthParity = XorOver(Array!Lengths(slices), Source)
  BY ArraySource, ArrayXORSlices, ArrayXorOver DEF Array!Init
<1>2. Given \subseteq Word /\ MaxLength \in Nat
  BY ArraysAssumption, ZeroIsWord
<1>3. ASSUME NEW q \in Array!BoundedSeq(Given, MaxLength)
      PROVE  q \in Seq(Word) /\ Len(q) <= MaxLength
  <2>1. PICK m \in 0 .. MaxLength : q \in [1 .. m -> Given]
    BY <1>3 DEF Array!BoundedSeq, Array!SeqOf
  <2>2. m \in Nat /\ m <= MaxLength
    BY <1>2, <2>1
  <2>3. \A i \in 1 .. m : q[i] \in Word
    BY <1>2, <2>1
  <2>4. q = [i \in 1 .. m |-> q[i]]
    BY <2>1
  <2>. QED
    BY <2>2, <2>3, <2>4
<1>4. AreSlices(slices, Source) /\ \A s \in Source : Len(slices[s]) <= MaxLength
  <2>1. \A s \in Source : slices[s] \in Seq(Word) /\ Len(slices[s]) <= MaxLength
    BY <1>1, <1>3
  <2>2. slices \in [Source -> Seq(Word)]
    BY <1>1, <2>1
  <2>. QED
    BY <2>1, <2>2, SourcesFinite, SourcesDiffer DEF AreSlices
<1>5. Array!Lengths(slices) = LengthsOf(slices)
  BY <1>4, ArrayLengths DEF LengthsOf, AreSlices
<1>. QED
  BY <1>1, <1>4, <1>5 DEF ArrayInv

LEMMA ArrayInvSet ==
    ASSUME ArrayInv, NEW s \in Source, NEW index \in 1 .. MaxLength, NEW value \in WithZero,
           Array!Set(s, index, value)
    PROVE  ArrayInv'
<1>1. AreSlices(slices, Source) /\ value \in Word
  BY ZeroIsWord DEF ArrayInv
<1>2. /\ slices[s] \in Seq(Word) /\ index \in 1 .. Len(slices[s])
      /\ Len(slices[s]) \in Nat /\ Len(slices[s]) <= Longest(slices) /\ Longest(slices) \in Nat
      /\ slices[s][index] \in Word
  BY <1>1, ArrayOfSlices DEF Array!Set
<1>3. PICK old \in Word : old = slices[s][index]
  BY <1>2
<1>4. /\ slices' = [slices EXCEPT ![s] = [slices[s] EXCEPT ![index] = value]]
      /\ sliceFusion' = [sliceFusion EXCEPT ![index] = Xor(Xor(@, old), value)]
      /\ lengthParity' = lengthParity
  BY <1>3 DEF Array!Set, Array!Replace
<1>5. /\ sliceFusion \in Seq(Word) /\ Len(sliceFusion) = Longest(slices)
      /\ \A i \in 1 .. Longest(slices) : sliceFusion[i] = Column(slices, i)
  BY <1>1, ArrayOfSlices DEF ArrayInv
<1>6. PICK changed : changed = slices'
  OBVIOUS
<1>7. PICK after : after = sliceFusion'
  OBVIOUS
<1>8. /\ AreSlices(changed, Source)
      /\ \A t \in Source : Len(changed[t]) = Len(slices[t])
      /\ \A t \in Source : t # s => changed[t] = slices[t]
      /\ \A i \in 1 .. Len(slices[s]) : changed[s][i] = IF i = index THEN value ELSE slices[s][i]
  <2>1. PICK q : q = [slices[s] EXCEPT ![index] = value]
    OBVIOUS
  <2>2. /\ q \in Seq(Word) /\ Len(q) = Len(slices[s])
        /\ \A i \in 1 .. Len(slices[s]) : q[i] = IF i = index THEN value ELSE slices[s][i]
    BY <1>1, <1>2, <2>1
  <2>3. \A t \in Source : changed[t] = IF t = s THEN q ELSE slices[t]
    BY <1>1, <1>4, <1>6, <2>1 DEF AreSlices
  <2>4. changed \in [Source -> Seq(Word)]
    BY <1>1, <1>4, <1>6, <2>1, <2>2 DEF AreSlices
  <2>5. AreSlices(changed, Source)
    BY <1>1, <2>4 DEF AreSlices
  <2>. QED
    BY <2>2, <2>3, <2>5
<1>9. /\ after \in Seq(Word) /\ Len(after) = Longest(slices)
      /\ \A i \in 1 .. Longest(slices) :
            after[i] = IF i = index THEN Xor(Xor(Column(slices, i), old), value)
                                    ELSE Column(slices, i)
  <2>1. index \in 1 .. Longest(slices)
    BY <1>2
  <2>2. Xor(Xor(sliceFusion[index], old), value) \in Word
    BY <1>1, <1>3, <1>5, <2>1, XorLaws
  <2>. QED
    BY <1>4, <1>5, <1>7, <2>1, <2>2
<1>10. Longest(changed) = Longest(slices)
  <2>1. /\ \A t \in Source : Len(changed[t]) <= Longest(slices)
        /\ \E t \in Source : Len(changed[t]) = Longest(slices)
    BY <1>1, <1>8, ArrayOfSlices
  <2>. QED
    BY <1>2, <1>8, <2>1, LongestReached
<1>11. ASSUME NEW i \in 1 .. Longest(slices) PROVE after[i] = Column(changed, i)
  <2>1. i \in Nat /\ i >= 1
    BY <1>2
  <2>2. Column(changed, i) = Xor(Xor(Column(slices, i), WordAt(slices[s], i)), WordAt(changed[s], i))
    BY <1>1, <1>8, <2>1, ColumnChange
  <2>3. Column(slices, i) \in Word /\ WordAt(slices[s], i) \in Word
    BY <1>1, <1>2, <2>1, ColumnTyped, WordAtTyped
  <2>4. CASE i = index
    <3>1. WordAt(slices[s], i) = old /\ WordAt(changed[s], i) = value
      BY <1>2, <1>3, <1>8, <2>4 DEF WordAt
    <3>. QED
      BY <1>9, <2>2, <2>4, <3>1
  <2>5. CASE i # index
    <3>1. WordAt(changed[s], i) = WordAt(slices[s], i)
      BY <1>2, <1>8, <2>1, <2>5 DEF WordAt
    <3>2. Column(changed, i) = Column(slices, i)
      BY <2>2, <2>3, <3>1, XorLaws
    <3>. QED
      BY <1>9, <2>5, <3>2
  <2>. QED
    BY <2>4, <2>5
<1>12. after = XORSlices(changed)
  <2>1. \A i \in 1 .. Len(after) : after[i] = Column(changed, i)
    BY <1>9, <1>11
  <2>. QED
    BY <1>8, <1>9, <1>10, <2>1, IsXORSlices
<1>13. LengthsOf(changed) = LengthsOf(slices)
  BY <1>8 DEF LengthsOf
<1>. QED
  BY <1>4, <1>6, <1>7, <1>8, <1>12, <1>13 DEF ArrayInv

LEMMA ArrayInvStep == ArrayInv /\ [Array!Next]_arrayVars => ArrayInv'
<1>. SUFFICES ASSUME ArrayInv, [Array!Next]_arrayVars PROVE ArrayInv'
  OBVIOUS
<1>1. ASSUME NEW s \in Source, NEW index \in 1 .. MaxLength, NEW value \in WithZero,
             Array!Set(s, index, value)
      PROVE  ArrayInv'
  BY <1>1, ArrayInvSet
<1>2. CASE UNCHANGED arrayVars
  BY <1>2 DEF ArrayInv, arrayVars
<1>. QED
  BY <1>1, <1>2, ArraySource DEF Array!Next

LEMMA ArrayInvFusion == ArrayInv => Array!FusionIsXor
BY ArrayXORSlices DEF ArrayInv, Array!FusionIsXor

\* The length of the missing slice is what its parity leaves.
LEMMA ArrayLengthLeft ==
    ASSUME ArrayInv, NEW missing \in Source
    PROVE  Array!LengthLeft(Array!Survivors(missing)) = Len(slices[missing])
<1>. DEFINE rest == Source \ {missing}
            f == LengthsOf(slices)
            survivors == Array!Survivors(missing)
<1>1. WordsOn(f, Source) /\ WordsOn(f, rest) /\ IsFiniteSet(Source) /\ IsFiniteSet(rest)
  BY LengthsAreWords, SourcesFinite, FS_Subset DEF WordsOn
<1>2. DOMAIN survivors = rest /\ \A s \in rest : survivors[s] = slices[s]
  BY ArraySource DEF Array!Survivors
<1>. HIDE DEF survivors
<1>3. XorOver(Array!Lengths(survivors), rest) = XorOver(f, rest)
  <2>1. \A s \in rest : Array!Lengths(survivors)[s] = f[s]
    BY <1>2, ArrayLengths DEF LengthsOf
  <2>. HIDE DEF rest, f
  <2>. QED
    BY <1>1, <2>1, XorOverSame
<1>4. XorOver(f, Source) = Xor(f[missing], XorOver(f, rest))
  <2>. HIDE DEF f
  <2>. QED
    BY <1>1, XorOverRemove
<1>5. XorOver(f, rest) \in Word /\ f[missing] \in Word
  <2>. HIDE DEF f, rest
  <2>. QED
    BY <1>1, XorOverTyped DEF WordsOn
<1>6. Array!LengthLeft(survivors) = Xor(XorOver(f, Source), XorOver(f, rest))
  BY <1>2, <1>3, ArrayXorOver DEF Array!LengthLeft, ArrayInv
<1>7. f[missing] = Len(slices[missing])
  BY DEF LengthsOf
<1>. HIDE DEF f, rest
<1>. QED
  BY <1>4, <1>5, <1>6, <1>7, XorLaws DEF survivors

LEMMA ArrayInvRecovers == ArrayInv => Array!RecoversEverySource
<1>. SUFFICES ASSUME ArrayInv, NEW missing \in Source
              PROVE  /\ Array!LengthFits(Array!Survivors(missing))
                     /\ Array!Recover(missing, Array!Survivors(missing)) = slices[missing]
  BY ArraySource DEF Array!RecoversEverySource
<1>. DEFINE out == SubSeq(sliceFusion, 1, Len(slices[missing]))
<1>1. AreSlices(slices, Source)
  BY DEF ArrayInv
<1>2. /\ sliceFusion \in Seq(Word) /\ Len(sliceFusion) = Longest(slices) /\ Longest(slices) \in Nat
      /\ \A i \in 1 .. Longest(slices) : sliceFusion[i] = Column(slices, i)
      /\ Len(slices[missing]) \in Nat /\ Len(slices[missing]) <= Longest(slices)
  BY <1>1, ArrayOfSlices DEF ArrayInv
<1>3. Array!LengthLeft(Array!Survivors(missing)) = Len(slices[missing])
  BY ArrayLengthLeft
<1>4. IsOut(out, slices, missing)
  <2>1. PICK n \in Nat : n = Len(slices[missing])
    BY <1>2
  <2>2. SubSeq(sliceFusion, 1, n) = [i \in 1 .. n |-> sliceFusion[i]]
    BY <1>2, <2>1
  <2>3. \A i \in 1 .. n : sliceFusion[i] = Column(slices, i) /\ sliceFusion[i] \in Word
    BY <1>2, <2>1
  <2>. QED
    BY <2>1, <2>2, <2>3 DEF IsOut
<1>5. AreSurvivors(Array!Survivors(missing), slices, missing)
  BY <1>1, ArraySource DEF Array!Survivors, AreSlices, AreSurvivors
<1>6. Array!Recover(missing, Array!Survivors(missing)) = XOROut(out, Array!Survivors(missing))
  BY <1>3, ArrayXOROut DEF Array!Recover
<1>. HIDE DEF out
<1>7. XOROut(out, Array!Survivors(missing)) = slices[missing]
  BY <1>1, <1>4, <1>5, SourcesDiffer, XOROutRecovers
<1>8. Array!LengthFits(Array!Survivors(missing))
  BY <1>2, <1>3 DEF Array!LengthFits
<1>. QED
  BY <1>6, <1>7, <1>8

-----------------------------------------------------------------------------
(* The three of them                                                       *)

ArraysInv == FusedInv /\ StackInv /\ ArrayInv

LEMMA ArraysInvStep == ArraysInv /\ [NextOne]_allVars => ArraysInv'
<1>. SUFFICES ASSUME ArraysInv, [NextOne]_allVars PROVE ArraysInv'
  OBVIOUS
<1>1. [Next]_vars /\ [Stack!Next]_stackVars /\ [Array!Next]_arrayVars
  BY DEF NextOne, allVars
<1>. QED
  BY <1>1, FusedInvStep, StackInvStep, ArrayInvStep DEF ArraysInv

LEMMA ArraysInvInit == InitOne => ArraysInv
BY FusedInvInit, StackInvInit, ArrayInvInit DEF InitOne, ArraysInv

\* After any calls of the ring, the stack or the array, whichever runs, its
\* backup is the XOR of what its sources hold: for any number of sources, any
\* capacity, values, heights and lengths.
THEOREM ArraysFusionsAreXor == SpecOne => []FusionsAreXor
<1>1. ArraysInv => FusionsAreXor
  BY StackInvFusion, ArrayInvFusion DEF ArraysInv, FusedInv, FusionsAreXor
<1>. QED
  BY <1>1, ArraysInvInit, ArraysInvStep, PTL DEF SpecOne

\* Whichever source is lost, Recover returns it, with its length: for any
\* number of sources, any capacity, values, heights and lengths.
THEOREM ArraysRecover == SpecOne => []EveryArrayRecovers
<1>1. ArraysInv => EveryArrayRecovers
  BY FusedInvRecovers, StackInvRecovers, ArrayInvRecovers DEF ArraysInv, EveryArrayRecovers
<1>. QED
  BY <1>1, ArraysInvInit, ArraysInvStep, PTL DEF SpecOne
=============================================================================
