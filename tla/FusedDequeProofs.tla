---------------------------- MODULE FusedDequeProofs ----------------------------
(***************************************************************************)
(* The list of reference-counted nodes under the fused queue and deque is  *)
(* always a backup of the sources: a node holds the XOR of the elements on *)
(* it and counts them, and no node is on no run, for any number of sources *)
(* and elements and all words.  FusedListProofs has what the operations do *)
(* to the list.                                                            *)
(***************************************************************************)
EXTENDS FusedDeque, FusedListProofs

DequeInv == PathInv(list, sources)

LEMMA DequeSteps == DequeInv /\ [DequeNext]_vars => DequeInv'
<1>. SUFFICES ASSUME DequeInv, [DequeNext]_vars PROVE DequeInv'
  OBVIOUS
<1>. PICK path, own : path = list /\ own = sources
  OBVIOUS
<1>0. PathInv(path, own) /\ Values \subseteq Word
  BY ValuesAssumption DEF DequeInv
<1>1. ASSUME NEW s \in Source, NEW value \in Values, Enqueue(s, value) PROVE DequeInv'
  <2>1. list' = AddBack(path, s, value) /\ sources' = [own EXCEPT ![s] = Append(@, value)]
    BY <1>1 DEF Enqueue
  <2>. QED BY <1>0, <2>1, BackKeepsPath DEF DequeInv
<1>2. ASSUME NEW s \in Source, NEW value \in Values, PushFront(s, value) PROVE DequeInv'
  <2>1. list' = AddFront(path, s, value) /\ sources' = [own EXCEPT ![s] = <<value>> \o @]
    BY <1>2 DEF PushFront
  <2>. QED BY <1>0, <2>1, FrontKeepsPath DEF DequeInv
<1>3. ASSUME NEW s \in Source, Dequeue(s) PROVE DequeInv'
  <2>1. /\ own[s] # <<>> /\ list' = TakeFront(path, s, Head(own[s]), Len(own[s]) = 1)
        /\ sources' = [own EXCEPT ![s] = Tail(@)]
    BY <1>3 DEF Dequeue
  <2>. QED BY <1>0, <2>1, HeadKeepsPath DEF DequeInv
<1>4. ASSUME NEW s \in Source, PopBack(s) PROVE DequeInv'
  <2>1. /\ own[s] # <<>> /\ list' = TakeBack(path, s, Last(own[s]), Len(own[s]) = 1)
        /\ sources' = [own EXCEPT ![s] = Front(@)]
    BY <1>4 DEF PopBack
  <2>. QED BY <1>0, <2>1, LastKeepsPath DEF DequeInv
<1>5. CASE UNCHANGED vars
  BY <1>0, <1>5 DEF vars, DequeInv
<1>. QED BY <1>1, <1>2, <1>3, <1>4, <1>5 DEF DequeNext, PushBack, PopFront

\* DequeInv is an invariant of the deque, and so of the queue.
LEMMA DequeInvAlways == DequeSpec => []DequeInv
<1>1. Init => DequeInv
  BY EmptyPath DEF Init, DequeInv
<1>. QED BY <1>1, DequeSteps, PTL DEF DequeSpec

\* The list counts what it holds, after any calls, for any number of sources.
THEOREM RunsAlwaysCounted == DequeSpec => []RunsCounted
<1>1. DequeInv => RunsCounted
  <2>. SUFFICES ASSUME DequeInv PROVE RunsCounted
    OBVIOUS
  <2>1. PathInv(list, sources) /\ Shaped(list, sources)
    BY DEF DequeInv, PathInv, Backs
  <2>2. ASSUME NEW s \in Source
        PROVE  /\ Cardinality(Run(list, s)) = Len(sources[s])
               /\ list.heads[s] = 0 <=> list.tails[s] = 0
    BY <2>1, RunCounted
  <2>3. ASSUME NEW i \in DOMAIN list.nodes
        PROVE  /\ list.nodes[i].refCount > 0
               /\ list.nodes[i].refCount = Cardinality({s \in Source : i \in Run(list, s)})
    BY <2>1, NodeCounted
  <2>. QED BY <2>2, <2>3 DEF RunsCounted
<1>. QED BY <1>1, DequeInvAlways, PTL

\* Any one queue or deque is recovered in its order from the list and the
\* others, after any calls, for any number of sources and any words.
THEOREM DequesRecover == DequeSpec => []RecoversEverySource
<1>1. DequeInv => RecoversEverySource
  <2>. SUFFICES ASSUME DequeInv, NEW missing \in Source
                PROVE  /\ PathSurvivorsFit(list, missing, Survivors(missing))
                       /\ RecoverRun(list, missing, Survivors(missing)) = sources[missing]
    BY DEF RecoversEverySource
  <2>1. /\ DOMAIN Survivors(missing) = Source \ {missing}
        /\ \A s \in Source \ {missing} : Survivors(missing)[s] = sources[s]
    BY DEF Survivors
  <2>. QED BY <2>1, PathRecovers DEF DequeInv
<1>. QED BY <1>1, DequeInvAlways, PTL

\* The queue's calls are calls of the deque.
LEMMA QueueIsDeque == Spec => DequeSpec
<1>1. [Next]_vars => [DequeNext]_vars
  BY DEF Next, DequeNext, PushBack, PopFront
<1>. QED BY <1>1, PTL DEF Spec, DequeSpec

\* So a queue is recovered, and its list counts what it holds, as well.
THEOREM QueuesRecover == Spec => [](RunsCounted /\ RecoversEverySource)
BY QueueIsDeque, RunsAlwaysCounted, DequesRecover, PTL
=============================================================================
