------------------------- MODULE FusedStructuresProofs -------------------------
(***************************************************************************)
(* The five structures of the simulation, for any number of sources, any   *)
(* values and any number of operations.                                    *)
(*                                                                         *)
(* First the list stack, which is Simulation's own: its list is the XOR of *)
(* the stacks, ends at the highest of them, and does what the array does.  *)
(* Then all five together, by what FusedListProofs has about the operators *)
(* of the linked list and of the queue: no structure loses a source, and   *)
(* none has more nodes than elements or fewer than its longest source.     *)
(***************************************************************************)
EXTENDS Simulation, FusedListProofs

-----------------------------------------------------------------------------
(* The list stack                                                          *)

\* The inductive form: tails count elements, none is above the list, and one is
\* at its last node, if there is any.
TailsCount == \A s \in Source : tails[s] = Len(sources[s])
LastHasTail == nodes # <<>> => \E s \in Source : tails[s] = Len(nodes)
StackInv == TypeOK /\ TailsCount /\ LastHasTail

LEMMA StackInvInit == Init => StackInv
<1>. SUFFICES ASSUME Init PROVE StackInv
  OBVIOUS
<1>1. TypeOK
  BY DEF Init, TypeOK
<1>2. TailsCount /\ LastHasTail
  BY DEF Init, TailsCount, LastHasTail
<1>. QED
  BY <1>1, <1>2 DEF StackInv

\* A tail moves to the node after it, and the list grows only when there is none.
LEMMA StackInvPush ==
    ASSUME StackInv, NEW s \in Source, NEW value \in Values, Push(s, value)
    PROVE  StackInv'
<1>. DEFINE node == tails[s] + 1
            linked == IF node > Len(nodes) THEN Append(nodes, 0) ELSE nodes
<1>1. /\ sources[s] \in Seq(Values) /\ nodes \in Seq(Word)
      /\ tails[s] \in Nat /\ tails[s] <= Len(nodes) /\ Len(nodes) \in Nat
      /\ tails[s] = Len(sources[s])
  BY DEF StackInv, TypeOK, TailsCount
<1>2. /\ linked \in Seq(Word)
      /\ Len(linked) = IF node > Len(nodes) THEN Len(nodes) + 1 ELSE Len(nodes)
      /\ node \in 1 .. Len(linked)
  BY <1>1, XorAssumption, AppendProperties
<1>3. /\ nodes' = [linked EXCEPT ![node] = Xor(@, value)]
      /\ tails' = [tails EXCEPT ![s] = node]
      /\ sources' = [sources EXCEPT ![s] = Append(@, value)]
  BY DEF Push, NodeFor
<1>. HIDE DEF linked
<1>4. nodes' \in Seq(Word) /\ Len(nodes') = Len(linked)
  <2>1. linked[node] \in Word /\ value \in Word
    BY <1>2, ValuesAssumption
  <2>2. Xor(linked[node], value) \in Word
    BY <2>1, XorAssumption
  <2>. QED
    BY <1>2, <1>3, <2>2
<1>5. TypeOK'
  <2>1. sources' \in [Source -> Seq(Values)]
    BY <1>1, <1>3, AppendProperties DEF StackInv, TypeOK
  <2>2. tails' \in [Source -> 0 .. Len(nodes')]
    <3>1. \A t \in Source : tails'[t] = IF t = s THEN node ELSE tails[t]
      BY <1>3 DEF StackInv, TypeOK
    <3>2. ASSUME NEW t \in Source PROVE tails'[t] \in 0 .. Len(nodes')
      <4>1. tails[t] \in 0 .. Len(nodes)
        BY DEF StackInv, TypeOK
      <4>. QED
        BY <1>1, <1>2, <1>4, <3>1, <4>1
    <3>3. tails' = [t \in Source |-> tails'[t]]
      BY <1>3 DEF StackInv, TypeOK
    <3>. QED
      BY <3>2, <3>3
  <2>. QED
    BY <1>4, <2>1, <2>2 DEF TypeOK
<1>6. TailsCount'
  <2>1. Len(Append(sources[s], value)) = Len(sources[s]) + 1
    BY <1>1, AppendProperties
  <2>. QED
    BY <1>1, <1>3, <2>1 DEF StackInv, TypeOK, TailsCount
<1>7. LastHasTail'
  <2>1. CASE node > Len(nodes)
    <3>1. tails'[s] = Len(nodes')
      BY <1>1, <1>2, <1>3, <1>4, <2>1 DEF StackInv, TypeOK
    <3>. QED
      BY <3>1 DEF LastHasTail
  <2>2. CASE ~(node > Len(nodes))
    <3>1. Len(nodes') = Len(nodes) /\ nodes # <<>>
      BY <1>1, <1>2, <1>4, <2>2
    <3>2. PICK t \in Source : tails[t] = Len(nodes)
      BY <3>1 DEF StackInv, LastHasTail
    <3>3. tails'[t] = Len(nodes')
      BY <1>1, <1>3, <2>2, <3>1, <3>2 DEF StackInv, TypeOK
    <3>. QED
      BY <3>3 DEF LastHasTail
  <2>. QED
    BY <2>1, <2>2
<1>. QED
  BY <1>5, <1>6, <1>7 DEF StackInv

\* The popped tail goes back by one node, and the last node goes with it when no
\* other tail is there.
LEMMA StackInvPop ==
    ASSUME StackInv, NEW s \in Source, Pop(s)
    PROVE  StackInv'
<1>. DEFINE node == tails[s]
            left == [nodes EXCEPT ![node] = Xor(@, Last(sources[s]))]
<1>1. /\ sources[s] \in Seq(Values) /\ nodes \in Seq(Word)
      /\ node \in 1 .. Len(nodes) /\ Len(nodes) \in Nat
      /\ node = Len(sources[s])
  BY DEF Pop, StackInv, TypeOK, TailsCount
<1>2. sources[s] # <<>> /\ nodes # <<>>
  BY <1>1
<1>3. /\ nodes' = IF node = Len(nodes) /\ ~TailReferenced(tails', node)
                  THEN Front(left) ELSE left
      /\ tails' = [tails EXCEPT ![s] = node - 1]
      /\ sources' = [sources EXCEPT ![s] = Front(@)]
  BY DEF Pop
<1>4. left \in Seq(Word) /\ Len(left) = Len(nodes) /\ left # <<>>
  <2>1. Last(sources[s]) \in Word /\ nodes[node] \in Word
    BY <1>1, <1>2, FrontProperties, ValuesAssumption
  <2>2. Xor(nodes[node], Last(sources[s])) \in Word
    BY <2>1, XorAssumption
  <2>. QED
    BY <1>1, <2>2
<1>. HIDE DEF left
<1>5. nodes' \in Seq(Word)
      /\ Len(nodes') = IF node = Len(nodes) /\ ~TailReferenced(tails', node)
                       THEN Len(nodes) - 1 ELSE Len(nodes)
  BY <1>3, <1>4, FrontProperties
<1>6. /\ tails'[s] = node - 1
      /\ \A t \in Source : t # s => tails'[t] = tails[t]
  BY <1>3 DEF StackInv, TypeOK
<1>7. TypeOK'
  <2>1. sources' \in [Source -> Seq(Values)]
    BY <1>1, <1>2, <1>3, FrontProperties DEF StackInv, TypeOK
  <2>2. ASSUME NEW t \in Source PROVE tails'[t] \in 0 .. Len(nodes')
    <3>1. tails[t] \in 0 .. Len(nodes)
      BY DEF StackInv, TypeOK
    <3>2. CASE t = s
      BY <1>1, <1>5, <1>6, <3>2
    <3>3. CASE t # s
      <4>1. tails'[t] # node => tails'[t] \in 0 .. Len(nodes) - 1 \/ node # Len(nodes)
        BY <1>1, <1>6, <3>1, <3>3
      <4>2. tails'[t] = node => TailReferenced(tails', node)
        BY DEF TailReferenced
      <4>. QED
        BY <1>1, <1>5, <1>6, <3>1, <3>3, <4>1, <4>2
    <3>. QED
      BY <3>2, <3>3
  <2>3. tails' = [t \in Source |-> tails'[t]]
    BY <1>3 DEF StackInv, TypeOK
  <2>. QED
    BY <1>5, <2>1, <2>2, <2>3 DEF TypeOK
<1>8. TailsCount'
  <2>1. Len(Front(sources[s])) = Len(sources[s]) - 1
    BY <1>1, <1>2, FrontProperties
  <2>. QED
    BY <1>1, <1>3, <1>6, <2>1 DEF StackInv, TypeOK, TailsCount
<1>9. LastHasTail'
  <2>1. CASE node = Len(nodes) /\ ~TailReferenced(tails', node)
    BY <1>5, <1>6, <2>1 DEF LastHasTail
  <2>2. CASE node = Len(nodes) /\ TailReferenced(tails', node)
    BY <1>5, <2>2 DEF LastHasTail, TailReferenced
  <2>3. CASE node # Len(nodes)
    <3>1. PICK t \in Source : tails[t] = Len(nodes)
      BY <1>2 DEF StackInv, LastHasTail
    <3>2. tails'[t] = Len(nodes')
      BY <1>5, <1>6, <2>3, <3>1
    <3>. QED
      BY <3>2 DEF LastHasTail
  <2>. QED
    BY <2>1, <2>2, <2>3
<1>. QED
  BY <1>7, <1>8, <1>9 DEF StackInv

LEMMA StackInvStep == StackInv /\ [Next]_vars => StackInv'
<1>. SUFFICES ASSUME StackInv, [Next]_vars PROVE StackInv'
  OBVIOUS
<1>1. ASSUME NEW s \in Source, NEW value \in Values, Push(s, value) PROVE StackInv'
  BY <1>1, StackInvPush
<1>2. ASSUME NEW s \in Source, Pop(s) PROVE StackInv'
  BY <1>2, StackInvPop
<1>3. CASE UNCHANGED vars
  BY <1>3 DEF StackInv, TypeOK, TailsCount, LastHasTail, vars
<1>. QED
  BY <1>1, <1>2, <1>3 DEF Next

\* The longest stack is as long as the list.
LEMMA ListEndsAtLongest == StackInv => Len(nodes) = Longest(sources)
<1>. SUFFICES ASSUME StackInv PROVE Len(nodes) = Longest(sources)
  OBVIOUS
<1>. DEFINE lengths == {Len(sources[s]) : s \in DOMAIN sources}
<1>1. DOMAIN sources = Source /\ 0 \in Source /\ Len(nodes) \in Nat
  BY SourceAssumption DEF StackInv, TypeOK, Source
<1>2. \A n \in lengths : n \in Nat /\ n <= Len(nodes)
  BY <1>1 DEF StackInv, TypeOK, TailsCount
<1>3. Len(nodes) \in lengths
  <2>1. CASE nodes # <<>>
    BY <1>1, <2>1 DEF StackInv, TailsCount, LastHasTail
  <2>2. CASE nodes = <<>>
    <3>1. Len(sources[0]) \in lengths
      BY <1>1
    <3>2. Len(sources[0]) = 0
      BY <1>1, <2>2 DEF StackInv, TypeOK, TailsCount
    <3>. QED
      BY <2>2, <3>1, <3>2
  <2>. QED
    BY <2>1, <2>2
<1>. HIDE DEF lengths
<1>4. Len(nodes) = Max(lengths)
  BY <1>1, <1>2, <1>3 DEF Max
<1>. QED
  BY <1>4 DEF Longest, lengths

\* For any sources and values, the list is as long as the highest stack: Pop,
\* which looks at the last node and the other tails only, leaves no node above
\* all the stacks and takes none that a stack still needs.
THEOREM ListAlwaysEndsAtTop == Spec => []ListEndsAtTop
<1>1. StackInv => ListEndsAtTop
  BY ListEndsAtLongest DEF StackInv, TailsCount, ListEndsAtTop
<1>. QED
  BY <1>1, StackInvInit, StackInvStep, PTL DEF Spec

\* Words stay words and tails stay in the list.
THEOREM ListStackTyped == Spec => []TypeOK
<1>1. StackInv => TypeOK
  BY DEF StackInv
<1>. QED
  BY <1>1, StackInvInit, StackInvStep, PTL DEF Spec

-----------------------------------------------------------------------------
(* The backup                                                              *)

\* The list is the array of the stacks.
NodesAreXor == nodes = XORSlices(sources)
StackXors == StackInv /\ NodesAreXor

LEMMA StacksAreSlices == TypeOK => AreSlices(sources, Source)
<1>1. IsFiniteSet(Source) /\ Source # {}
  <2>1. 0 \in Int /\ SourceCount - 1 \in Int /\ 0 \in Source
    BY SourceAssumption DEF Source
  <2>2. IsFiniteSet(Source)
    BY <2>1, FS_Interval DEF Source
  <2>. QED
    BY <2>1, <2>2
<1>2. Seq(Values) \subseteq Seq(Word)
  BY ValuesAssumption, SeqMonotonic
<1>. QED
  BY <1>1, <1>2 DEF TypeOK, AreSlices

\* The operators of the two modules that mean the same.
LEMMA ArraySource == ArrayStack!Source = Source
BY DEF ArrayStack!Source, Source

LEMMA ArrayMax == \A N : ArrayStack!Max(N) = Max(N)
BY DEF ArrayStack!Max, Max

LEMMA ArrayTotal == ArrayStack!Total(sources) = Total(sources)
BY Zenon DEF ArrayStack!Total, Total, ArrayStack!SumFunctionOnSet, SumFunctionOnSet,
       ArrayStack!FoldFunctionOnSet, FoldFunctionOnSet, ArrayStack!MapThenFoldSet, MapThenFoldSet

LEMMA StackXorsInit == Init => StackXors
<1>. SUFFICES ASSUME Init PROVE StackXors
  OBVIOUS
<1>1. StackInv /\ TypeOK /\ AreSlices(sources, Source)
  BY StackInvInit, StacksAreSlices DEF StackInv
<1>2. Len(XORSlices(sources)) = Longest(sources) /\ XORSlices(sources) \in Seq(Word)
  BY <1>1, ArrayOfSlices
<1>3. Longest(sources) = 0
  BY <1>1, ListEndsAtLongest DEF Init
<1>. QED
  BY <1>1, <1>2, <1>3 DEF Init, StackXors, NodesAreXor

\* A pushed word enters the list where its stack ends.
LEMMA StackXorsPush ==
    ASSUME StackXors, NEW s \in Source, NEW value \in Values, Push(s, value)
    PROVE  StackXors'
<1>1. StackInv' /\ StackInv /\ TypeOK /\ AreSlices(sources, Source) /\ value \in Word
  BY StackInvPush, StacksAreSlices, ValuesAssumption DEF StackXors, StackInv
<1>. DEFINE node == tails[s] + 1
            linked == IF node > Len(nodes) THEN Append(nodes, 0) ELSE nodes
<1>2. /\ nodes' = [linked EXCEPT ![node] = Xor(@, value)]
      /\ sources' = [sources EXCEPT ![s] = Append(@, value)]
      /\ node = Len(sources[s]) + 1
  BY <1>1 DEF Push, NodeFor, StackInv, TailsCount
<1>3. /\ nodes \in Seq(Word) /\ Len(nodes) = Longest(sources) /\ Longest(sources) \in Nat
      /\ \A i \in 1 .. Longest(sources) : nodes[i] = Column(sources, i)
      /\ Len(sources[s]) \in Nat /\ Len(sources[s]) <= Longest(sources)
  BY <1>1, ArrayOfSlices DEF StackXors, NodesAreXor
<1>4. /\ linked \in Seq(Word)
      /\ Len(linked) = IF Len(sources[s]) + 1 > Longest(sources)
                       THEN Longest(sources) + 1 ELSE Longest(sources)
      /\ \A i \in 1 .. Len(linked) : linked[i] = Column(sources, i)
  <2>1. CASE node > Len(nodes)
    <3>1. linked = Append(nodes, 0)
      BY <2>1
    <3>2. /\ Append(nodes, 0) \in Seq(Word) /\ Len(Append(nodes, 0)) = Len(nodes) + 1
          /\ \A i \in 1 .. Len(nodes) : Append(nodes, 0)[i] = nodes[i]
          /\ Append(nodes, 0)[Len(nodes) + 1] = 0
      BY <1>3, XorLaws, AppendProperties
    <3>3. Column(sources, Longest(sources) + 1) = 0
      BY <1>1, <1>3, ColumnAbove
    <3>. HIDE DEF linked
    <3>. QED
      BY <1>2, <1>3, <2>1, <3>1, <3>2, <3>3
  <2>2. CASE ~(node > Len(nodes))
    BY <1>2, <1>3, <2>2
  <2>. QED
    BY <2>1, <2>2
<1>. HIDE DEF linked
<1>5. [linked EXCEPT ![Len(sources[s]) + 1] = Xor(@, value)]
        = XORSlices([sources EXCEPT ![s] = Append(@, value)])
  BY <1>1, <1>4, SliceGrows
<1>. QED
  BY <1>1, <1>2, <1>5 DEF StackXors, NodesAreXor

\* A popped word leaves the list, and the list is cut where the array is.
LEMMA StackXorsPop ==
    ASSUME StackXors, NEW s \in Source, Pop(s)
    PROVE  /\ StackXors'
           /\ nodes' = ArrayStack!Trim([nodes EXCEPT ![tails[s]] = Xor(@, Last(sources[s]))], tails')
<1>1. StackInv' /\ StackInv /\ TypeOK /\ TypeOK' /\ AreSlices(sources, Source)
  BY StackInvPop, StacksAreSlices DEF StackXors, StackInv
<1>. DEFINE left == [nodes EXCEPT ![tails[s]] = Xor(@, Last(sources[s]))]
<1>2. /\ nodes' = IF tails[s] = Len(nodes) /\ ~TailReferenced(tails', tails[s])
                  THEN Front(left) ELSE left
      /\ sources' = [sources EXCEPT ![s] = Front(@)]
      /\ tails[s] = Len(sources[s]) /\ tails[s] # 0
  BY <1>1 DEF Pop, StackInv, TailsCount
<1>3. sources[s] # <<>>
  BY <1>1, <1>2 DEF TypeOK
<1>4. left = [XORSlices(sources) EXCEPT ![Len(sources[s])] = Xor(@, Last(sources[s]))]
  BY <1>2 DEF StackXors, NodesAreXor
<1>5. /\ AreSlices(sources', Source)
      /\ left \in Seq(Word) /\ Len(left) = Longest(sources)
      /\ Longest(sources') \in 0 .. Len(left)
      /\ \A i \in 1 .. Len(left) : left[i] = Column(sources', i)
      /\ XORSlices(sources') = SubSeq(left, 1, Longest(sources'))
  <2>1. /\ nodes \in Seq(Word) /\ Len(nodes) = Longest(sources) /\ Longest(sources) \in Nat
        /\ \A i \in 1 .. Longest(sources) : nodes[i] = Column(sources, i)
        /\ sources[s] \in Seq(Word) /\ Len(sources[s]) <= Longest(sources)
    BY <1>1, ArrayOfSlices DEF StackXors, NodesAreXor
  <2>2. /\ Len(sources[s]) \in 1 .. Longest(sources)
        /\ Last(sources[s]) \in Word
        /\ Front(sources[s]) \in Seq(Word)
    BY <1>3, <2>1, FrontProperties
  <2>3. Xor(nodes[Len(sources[s])], Last(sources[s])) \in Word
    BY <2>1, <2>2, XorLaws
  <2>4. IsLeft(left, sources, s)
    BY <1>2, <2>1, <2>2, <2>3 DEF IsLeft
  <2>5. IsShrunk(sources', sources, s)
    BY <1>2 DEF IsShrunk
  <2>6. left \in Seq(Word) /\ Len(left) = Longest(sources)
    BY <2>4 DEF IsLeft
  <2>. HIDE DEF left
  <2>7. PICK rest : rest = left
    OBVIOUS
  <2>8. PICK shrunk : shrunk = sources'
    OBVIOUS
  <2>9. /\ AreSlices(shrunk, Source)
        /\ Longest(shrunk) \in 0 .. Len(rest)
        /\ \A i \in 1 .. Len(rest) : rest[i] = Column(shrunk, i)
        /\ XORSlices(shrunk) = SubSeq(rest, 1, Longest(shrunk))
    <3>1. IsLeft(rest, sources, s) /\ IsShrunk(shrunk, sources, s)
      BY <2>4, <2>5, <2>7, <2>8
    <3>. QED
      BY <1>1, <1>3, <3>1, SliceShrinks
  <2>. QED
    BY <2>6, <2>7, <2>8, <2>9
<1>. HIDE DEF left
<1>6. nodes' = SubSeq(left, 1, Longest(sources'))
  <2>1. Len(nodes') = Longest(sources') /\ nodes' \in Seq(Word)
    <3>1. (StackInv => Len(nodes) = Longest(sources))'
      BY ListEndsAtLongest, PTL
    <3>. QED
      BY <1>1, <3>1 DEF TypeOK
  <2>2. PICK n \in 0 .. Len(left) : n = Longest(sources')
    BY <1>5
  <2>3. CASE nodes' = left
    BY <1>5, <2>1, <2>2, <2>3
  <2>4. CASE nodes' = Front(left) /\ nodes' # left
    <3>1. left # <<>>
      BY <1>2, <1>3, <1>4, <1>5, <1>1, ArrayOfSlices DEF TypeOK
    <3>2. Len(left) - 1 = n
      BY <1>5, <2>1, <2>2, <2>4, <3>1, FrontProperties
    <3>. QED
      BY <2>2, <2>4, <3>2 DEF Front
  <2>. QED
    BY <1>2, <2>3, <2>4
<1>7. StackXors'
  BY <1>1, <1>5, <1>6 DEF StackXors, NodesAreXor
<1>8. \A t \in Source : tails'[t] = Len(sources'[t])
  BY <1>1 DEF StackInv, TailsCount
<1>9. Max(Reached(left, sources')) = Longest(sources')
  BY <1>5, ZerosEndAtLongest
<1>10. ArrayStack!Trim(left, tails') = SubSeq(left, 1, Max(Reached(left, sources')))
  <2>1. Reached(left, sources') = {0} \cup {i \in DOMAIN left :
                   left[i] # 0 \/ \E t \in Source : tails'[t] >= i}
    BY <1>5, <1>8 DEF Reached, AreSlices
  <2>. QED
    BY <2>1, ArraySource, ArrayMax DEF ArrayStack!Trim
<1>. QED
  BY <1>6, <1>7, <1>9, <1>10 DEF left

LEMMA StackXorsStep == StackXors /\ [Next]_vars => StackXors'
<1>. SUFFICES ASSUME StackXors, [Next]_vars PROVE StackXors'
  OBVIOUS
<1>1. ASSUME NEW s \in Source, NEW value \in Values, Push(s, value) PROVE StackXors'
  BY <1>1, StackXorsPush
<1>2. ASSUME NEW s \in Source, Pop(s) PROVE StackXors'
  BY <1>2, StackXorsPop
<1>3. CASE UNCHANGED vars
  BY <1>3 DEF StackXors, NodesAreXor, StackInv, TypeOK, TailsCount, LastHasTail, vars
<1>. QED
  BY <1>1, <1>2, <1>3 DEF Next

LEMMA StackXorsRecovers == StackXors => RecoversEverySource
<1>. SUFFICES ASSUME StackXors, NEW missing \in Source
              PROVE  Recover(missing, Survivors(missing)) = sources[missing]
  BY DEF RecoversEverySource
<1>1. AreSlices(sources, Source) /\ TypeOK
  BY StacksAreSlices DEF StackXors, StackInv
<1>2. /\ nodes \in Seq(Word) /\ Len(nodes) = Longest(sources) /\ Longest(sources) \in Nat
      /\ \A i \in 1 .. Longest(sources) : nodes[i] = Column(sources, i)
      /\ Len(sources[missing]) \in Nat /\ Len(sources[missing]) <= Longest(sources)
  BY <1>1, ArrayOfSlices DEF StackXors, NodesAreXor
<1>3. Source # {missing}
  BY SourceAssumption DEF Source
<1>. DEFINE out == SubSeq(nodes, 1, Len(sources[missing]))
<1>4. IsOut(out, sources, missing)
  <2>1. PICK n \in Nat : n = Len(sources[missing])
    BY <1>2
  <2>2. SubSeq(nodes, 1, n) = [i \in 1 .. n |-> nodes[i]]
    BY <1>2, <2>1
  <2>3. \A i \in 1 .. n : nodes[i] = Column(sources, i) /\ nodes[i] \in Word
    BY <1>2, <2>1
  <2>. QED
    BY <2>1, <2>2, <2>3 DEF IsOut
<1>5. AreSurvivors(Survivors(missing), sources, missing)
  BY <1>1 DEF Survivors, TypeOK, AreSurvivors
<1>. HIDE DEF out
<1>6. XOROut(out, Survivors(missing)) = sources[missing]
  BY <1>1, <1>3, <1>4, <1>5, XOROutRecovers
<1>. QED
  BY <1>6 DEF Recover, out

\* Whichever stack is lost, Recover returns it from the list and the others, for
\* any number of sources, any values and any number of elements.
THEOREM ListStackRecovers == Spec => []RecoversEverySource
<1>. QED
  BY StackXorsRecovers, StackXorsInit, StackXorsStep, PTL DEF Spec

-----------------------------------------------------------------------------
(* The refinement                                                          *)

LEMMA ListStartsLikeArray == Init => ArrayStack!Init
BY ArraySource DEF Init, ArrayStack!Init

\* Every step of the list is that step of the array.
LEMMA ListStepsLikeArray ==
    StackXors /\ [Next]_vars => [ArrayStack!Next]_(<<sources, nodes, tails>>)
<1>. SUFFICES ASSUME StackXors, [Next]_vars
              PROVE  [ArrayStack!Next]_(<<sources, nodes, tails>>)
  OBVIOUS
<1>1. ASSUME NEW s \in Source, NEW value \in Values, Push(s, value)
      PROVE  ArrayStack!Push(s, value)
  BY <1>1, ArrayTotal DEF Push, NodeFor, ArrayStack!Push
<1>2. ASSUME NEW s \in Source, Pop(s)
      PROVE  ArrayStack!Pop(s)
  <2>1. tails' = [tails EXCEPT ![s] = @ - 1]
    BY <1>2 DEF Pop
  <2>2. nodes' = ArrayStack!Trim([nodes EXCEPT ![tails[s]] = Xor(@, Last(sources[s]))], tails')
    BY <1>2, StackXorsPop
  <2>3. tails[s] # 0 /\ sources' = [sources EXCEPT ![s] = Front(@)]
    BY <1>2 DEF Pop
  <2>4. ArrayStack!Front(sources[s]) = Front(sources[s]) /\ ArrayStack!Last(sources[s]) = Last(sources[s])
    BY DEF ArrayStack!Front, Front, ArrayStack!Last, Last
  <2>. QED
    BY <2>1, <2>2, <2>3, <2>4 DEF ArrayStack!Pop
<1>. QED
  BY <1>1, <1>2, ArraySource DEF Next, vars, ArrayStack!Next

\* At every step the list's values are the array that FusedStack would hold, for
\* any sources, values and elements: a look at one node and the pointers to it
\* trims what a look at all words and heights trims.
THEOREM ListImplementsArray == Spec => ImplementsArrayStack
<1>. QED
  BY StackXorsInit, StackXorsStep, ListStartsLikeArray, ListStepsLikeArray, PTL
  DEF Spec, ImplementsArrayStack, ArrayStack!Spec, ArrayStack!vars

-----------------------------------------------------------------------------
(* The operators of the linked list and of the queue, which Simulation has *)
(* by INSTANCE, are those of FusedListProofs.                              *)

LEMMA QueueSource == Queue!Source = Source
BY DEF Queue!Source, Source

LEMMA QueueEmpty == Queue!EmptyList = EmptyList
BY QueueSource DEF Queue!EmptyList, EmptyList

LEMMA QueueRun == \A path, s : Queue!Run(path, s) = Run(path, s)
BY DEF Queue!Run, Run

LEMMA QueueAddBack == \A path, s, v : Queue!AddBack(path, s, v) = AddBack(path, s, v)
BY ZenonT(60) DEF Queue!AddBack, AddBack, Queue!Joined, Joined, Queue!FreshNode, FreshNode

LEMMA QueueRemoveNode == \A path, i : Queue!RemoveNode(path, i) = RemoveNode(path, i)
BY Zenon, QueueSource DEF Queue!RemoveNode, RemoveNode, Queue!RemoveAt, RemoveAt

LEMMA QueueMerge == \A path, i : Queue!Merge(path, i) = Merge(path, i)
BY Zenon, QueueSource, QueueRemoveNode DEF Queue!Merge, Merge

LEMMA QueueDrop == \A path, i : Queue!Drop(path, i) = Drop(path, i)
BY QueueRemoveNode DEF Queue!Drop, Drop

LEMMA QueueSingle == \A path, i : Queue!Single(path, i) = Single(path, i)
BY Zenon DEF Queue!Single, Single

LEMMA QueueTakeFront ==
    \A path, s, v, last : Queue!TakeFront(path, s, v, last) = TakeFront(path, s, v, last)
<1>. SUFFICES ASSUME NEW path, NEW s, NEW v, NEW last
              PROVE  Queue!TakeFront(path, s, v, last) = TakeFront(path, s, v, last)
  OBVIOUS
<1>. PICK h, parted :
        /\ h = path.heads[s]
        /\ parted = [nodes |-> [path.nodes EXCEPT ![h] = Parted(@, v)],
                     heads |-> [path.heads EXCEPT ![s] = IF last THEN 0 ELSE h + 1],
                     tails |-> [path.tails EXCEPT ![s] = IF last THEN 0 ELSE @]]
  OBVIOUS
<1>1. parted = [nodes |-> [path.nodes EXCEPT ![h] = Queue!Parted(@, v)],
                heads |-> [path.heads EXCEPT ![s] = IF last THEN 0 ELSE h + 1],
                tails |-> [path.tails EXCEPT ![s] = IF last THEN 0 ELSE @]]
  BY Zenon DEF Queue!Parted, Parted
<1>. PICK dropped, before :
        dropped = Drop(parted, h) /\ before = dropped.heads[s] - 1
  OBVIOUS
<1>2. TakeFront(path, s, v, last) =
        IF ~last /\ Single(dropped, before) THEN Merge(dropped, before) ELSE dropped
  BY Zenon DEF TakeFront
<1>3. Queue!TakeFront(path, s, v, last) =
        IF ~last /\ Queue!Single(dropped, before) THEN Queue!Merge(dropped, before) ELSE dropped
  BY Zenon, <1>1, QueueDrop DEF Queue!TakeFront
<1>. QED BY Zenon, <1>2, <1>3, QueueMerge, QueueSingle

LEMMA QueueXorOver == \A f, S : Queue!XorOver(f, S) = XorOver(f, S)
BY Zenon DEF Queue!XorOver, XorOver, Queue!FoldFunctionOnSet, FoldFunctionOnSet,
       Queue!MapThenFoldSet, MapThenFoldSet

LEMMA QueueFit ==
    \A path, missing, survivors :
        Queue!PathSurvivorsFit(path, missing, survivors) = PathSurvivorsFit(path, missing, survivors)
BY ZenonT(60) DEF Queue!PathSurvivorsFit, PathSurvivorsFit, Queue!Run, Run, Queue!Source,
       Source, Queue!Cardinality, Cardinality

LEMMA QueueRecoverRun ==
    \A path, missing, survivors :
        Queue!RecoverRun(path, missing, survivors) = RecoverRun(path, missing, survivors)
BY ZenonT(60) DEF Queue!RecoverRun, RecoverRun, Queue!RecoverElement,
       RecoverElement, Queue!Run, Run, Queue!XorOver, XorOver,
       Queue!FoldFunctionOnSet, FoldFunctionOnSet, Queue!MapThenFoldSet,
       MapThenFoldSet, Queue!Cardinality, Cardinality

LEMMA ListsSource == Lists!Source = Source
BY DEF Lists!Source, Source

LEMMA ListsNew == Lists!NewList = NewList
BY ListsSource DEF Lists!NewList, NewList

LEMMA ListsBefore == \A l, s, i : Lists!Before(l, s, i) = Before(l, s, i)
BY Zenon DEF Lists!Before, Before, Lists!Occupied, Occupied,
       Lists!Cardinality, Cardinality

LEMMA ListsCount ==
    \A l, s : Lists!Cardinality(Lists!Occupied(l, s)) = Cardinality(Occupied(l, s))
BY Zenon DEF Lists!Occupied, Occupied, Lists!Cardinality, Cardinality

LEMMA ListsNodeAt == \A l, s, i : Lists!NodeAt(l, s, i) = NodeAt(l, s, i)
BY Zenon DEF Lists!NodeAt, NodeAt, Lists!Before, Before, Lists!Occupied,
       Occupied, Lists!Cardinality, Cardinality

LEMMA ListsInsertAt == \A q, i, e : Lists!InsertAt(q, i, e) = InsertAt(q, i, e)
BY Zenon DEF Lists!InsertAt, InsertAt

LEMMA ListsRemoveAt == \A q, i : Lists!RemoveAt(q, i) = RemoveAt(q, i)
BY Zenon DEF Lists!RemoveAt, RemoveAt

LEMMA ListsCandidate == \A l, s, i : Lists!Candidate(l, s, i) = Candidate(l, s, i)
BY ListsNodeAt DEF Lists!Candidate, Candidate

LEMMA ListsRoom == \A l, s, i, e : Lists!WithRoom(l, s, i, e) = WithRoom(l, s, i, e)
<1>1. \A l, s, i : Lists!NextSource(l, s, i) = NextSource(l, s, i)
  BY ListsNodeAt, ListsCount DEF Lists!NextSource, NextSource
<1>. QED BY <1>1, ListsCandidate, ListsInsertAt DEF Lists!WithRoom, WithRoom

LEMMA ListsInsert == \A l, s, i, v : Lists!InsertValue(l, s, i, v) = InsertValue(l, s, i, v)
<1>. SUFFICES ASSUME NEW l, NEW s, NEW i, NEW v
              PROVE  Lists!InsertValue(l, s, i, v) = InsertValue(l, s, i, v)
  OBVIOUS
<1>. PICK room, at : room = WithRoom(l.nodes, s, i, NewListNode) /\ at = Candidate(l.nodes, s, i)
  OBVIOUS
<1>1. Lists!WithRoom(l.nodes, s, i, Lists!NewListNode) = room
  BY ListsRoom DEF Lists!NewListNode, NewListNode
<1>2. Lists!Candidate(l.nodes, s, i) = at
  BY ListsCandidate
<1>3. InsertValue(l, s, i, v) =
        [nodes |-> [room EXCEPT ![at] = TakeIn(@, s, v)],
         sources |-> [l.sources EXCEPT ![s] = InsertAt(@, i + 1, v)]]
  BY Zenon DEF InsertValue
<1>4. Lists!InsertValue(l, s, i, v) =
        [nodes |-> [room EXCEPT ![at] = Lists!TakeIn(@, s, v)],
         sources |-> [l.sources EXCEPT ![s] = Lists!InsertAt(@, i + 1, v)]]
  BY Zenon, <1>1, <1>2 DEF Lists!InsertValue
<1>. QED BY Zenon, <1>3, <1>4 DEF Lists!TakeIn, TakeIn, Lists!InsertAt, InsertAt

LEMMA ListsUnlink == \A l, i : Lists!Unlink(l, i) = Unlink(l, i)
BY Zenon DEF Lists!Unlink, Unlink, Lists!RemoveAt, RemoveAt

LEMMA ListsMin == \A N : Lists!Min(N) = Min(N)
BY Zenon DEF Lists!Min, Min

LEMMA ListsMax == \A N : Lists!Max(N) = Max(N)
BY Zenon DEF Lists!Max, Max

LEMMA ListsLast == \A q : Lists!Last(q) = Last(q)
BY Zenon DEF Lists!Last, Last

LEMMA ListsSwallowed == \A l, i : Lists!Swallowed(l, i) = Swallowed(l, i)
<1>1. \A l, n : Lists!MergeLeft(l, n) = MergeLeft(l, n)
  BY Zenon DEF Lists!MergeLeft, MergeLeft, Lists!Disjoint, Disjoint, Lists!Min,
       Min
<1>2. \A l, a, n : Lists!MergeRight(l, a, n) = MergeRight(l, a, n)
  BY Zenon DEF Lists!MergeRight, MergeRight, Lists!Disjoint, Disjoint,
       Lists!Max, Max
<1>. QED BY <1>1, <1>2, ListsUnlink DEF Lists!Swallowed, Swallowed

LEMMA ListsMerge == \A l, i, e : Lists!MergeNodes(l, i, e) = MergeNodes(l, i, e)
BY Zenon, ListsUnlink, ListsSwallowed, ListsMin, ListsMax DEF Lists!MergeNodes, MergeNodes

LEMMA ListsXorOver == \A f, S : Lists!XorOver(f, S) = XorOver(f, S)
BY Zenon DEF Lists!XorOver, XorOver, Lists!FoldFunctionOnSet,
       FoldFunctionOnSet, Lists!MapThenFoldSet, MapThenFoldSet

LEMMA ListsMerged == \A l, R : Lists!Merged(l, R) = Merged(l, R)
BY Zenon DEF Lists!Merged, Merged, Lists!XorOver, XorOver,
       Lists!FoldFunctionOnSet, FoldFunctionOnSet, Lists!MapThenFoldSet,
       MapThenFoldSet

LEMMA ListsDelete == \A l, s, i : Lists!DeleteValue(l, s, i) = DeleteValue(l, s, i)
<1>. SUFFICES ASSUME NEW l, NEW s, NEW i PROVE Lists!DeleteValue(l, s, i) = DeleteValue(l, s, i)
  OBVIOUS
<1>. PICK at, left : /\ at = NodeAt(l.nodes, s, i)
                     /\ left = [l.nodes EXCEPT ![at] = GiveUp(@, s, l.sources[s][i + 1])]
  OBVIOUS
<1>1. Lists!NodeAt(l.nodes, s, i) = at
  BY ListsNodeAt
<1>2. left = [l.nodes EXCEPT ![at] = Lists!GiveUp(@, s, l.sources[s][i + 1])]
  BY Zenon DEF Lists!GiveUp, GiveUp
<1>3. DeleteValue(l, s, i) =
        [nodes |-> MergeNodes(left, at, Merged(Unlink(left, at), Swallowed(left, at))),
         sources |-> [l.sources EXCEPT ![s] = RemoveAt(@, i + 1)]]
  BY Zenon DEF DeleteValue
<1>4. Lists!DeleteValue(l, s, i) =
        [nodes |-> Lists!MergeNodes(left, at, Lists!Merged(Lists!Unlink(left, at),
                                                          Lists!Swallowed(left, at))),
         sources |-> [l.sources EXCEPT ![s] = RemoveAt(@, i + 1)]]
  BY Zenon, <1>1, <1>2 DEF Lists!DeleteValue, Lists!RemoveAt, RemoveAt
<1>. QED BY <1>3, <1>4, ListsUnlink, ListsSwallowed, ListsMerged, ListsMerge

LEMMA ListsFitting ==
    \A l, missing, survivors : Lists!ListsFit(l, missing, survivors) = ListsFit(l, missing, survivors)
BY Zenon DEF Lists!ListsFit, ListsFit, Lists!Source, Source, Lists!Occupied,
       Occupied, Lists!Cardinality, Cardinality

LEMMA ListsRecover ==
    \A l, missing, survivors :
        Lists!RecoverValues(l, missing, survivors) = RecoverValues(l, missing, survivors)
<1>. SUFFICES ASSUME NEW l, NEW missing, NEW survivors
              PROVE  Lists!RecoverValues(l, missing, survivors) = RecoverValues(l, missing, survivors)
  OBVIOUS
<1>. DEFINE H(i) == l.nodes[i].bits \ {missing}
            e(i) == [s \in H(i) |-> survivors[s][Before(l.nodes, s, i) + 1]]
            d(i) == [s \in H(i) |-> survivors[s][Lists!Before(l.nodes, s, i) + 1]]
            E(i) == Xor(l.nodes[i].value, XorOver(e(i), H(i)))
            D(i) == Xor(l.nodes[i].value, Lists!XorOver(d(i), H(i)))
            N == 1 .. Cardinality(Occupied(l.nodes, missing))
<1>1. \A i : d(i) = e(i)
  BY ListsBefore
<1>2. \A i : D(i) = E(i)
  BY <1>1, ListsXorOver
<1>3. RecoverValues(l, missing, survivors) = [n \in N |-> E(NodeAt(l.nodes, missing, n - 1))]
  BY Zenon DEF RecoverValues
<1>4. Lists!RecoverValues(l, missing, survivors) =
          [n \in 1 .. Lists!Cardinality(Lists!Occupied(l.nodes, missing)) |->
              D(Lists!NodeAt(l.nodes, missing, n - 1))]
  BY Zenon DEF Lists!RecoverValues
<1>. HIDE DEF D, E
<1>5. Lists!RecoverValues(l, missing, survivors) =
          [n \in N |-> D(Lists!NodeAt(l.nodes, missing, n - 1))]
  BY <1>4, ListsCount
<1>. HIDE DEF N
<1>. QED BY <1>2, <1>3, <1>5, ListsNodeAt

-----------------------------------------------------------------------------
(* The simulation                                                          *)

LEMMA ListsSearch == \A q, v : Lists!Search(q, v) = Search(q, v)
BY Zenon DEF Lists!Search, Search, Lists!Cardinality, Cardinality

\* The five structures each keep their own invariant, whichever is running.  The
\* sources of a priority queue stay in order, those of a set without repetition.
InOrder == structure = "Priority Queues" => \A s \in Source : Ascending(list.sources[s])
NoneTwice == structure = "Sets" => \A s \in Source : Distinct(list.sources[s])
SimulationInv ==
    /\ structure \in Structures
    /\ StackXors
    /\ PathInv(queueList, queues)
    /\ ListInv(list)
    /\ InOrder
    /\ NoneTwice

LEMMA SimulationStarts == New => SimulationInv
<1>. SUFFICES ASSUME New PROVE SimulationInv
  OBVIOUS
<1>1. structure \in Structures /\ StackXors
  BY StackXorsInit DEF New
<1>2. PathInv(queueList, queues)
  <2>1. queueList = Queue!EmptyList /\ queues = [s \in Queue!Source |-> <<>>]
    BY DEF New, Queue!Init
  <2>. QED BY <2>1, QueueEmpty, QueueSource, EmptyPath
<1>3. list = NewList
  BY ListsNew DEF New, Lists!Init
<1>4. ListInv(list)
  BY <1>3, NewListInv
<1>5. \A s \in Source : list.sources[s] = <<>>
  BY <1>3 DEF NewList
<1>6. \A s \in Source : Ascending(list.sources[s]) /\ Distinct(list.sources[s])
  BY <1>5 DEF Ascending, Distinct
<1>. QED BY <1>1, <1>2, <1>4, <1>6 DEF SimulationInv, InOrder, NoneTwice

LEMMA QueueStep ==
    ASSUME PathInv(queueList, queues), Queue!Next
    PROVE  PathInv(queueList', queues')
<1>1. ASSUME NEW s \in Source, NEW value \in Values, Queue!Enqueue(s, value)
      PROVE  PathInv(queueList', queues')
  <2>1. /\ queueList' = AddBack(queueList, s, value)
        /\ queues' = [queues EXCEPT ![s] = Append(@, value)]
    BY <1>1, QueueAddBack DEF Queue!Enqueue
  <2>2. value \in Word
    BY ValuesAssumption
  <2>. QED BY <2>1, <2>2, BackKeepsPath
<1>2. ASSUME NEW s \in Source, Queue!Dequeue(s)
      PROVE  PathInv(queueList', queues')
  <2>1. /\ queues[s] # <<>>
        /\ queueList' = TakeFront(queueList, s, Head(queues[s]), Len(queues[s]) = 1)
        /\ queues' = [queues EXCEPT ![s] = Tail(@)]
    BY <1>2, QueueTakeFront DEF Queue!Dequeue
  <2>. QED BY <2>1, HeadKeepsPath
<1>. QED BY <1>1, <1>2, QueueSource DEF Queue!Next

\* What Insert and Delete leave of the list and of its sources.
LEMMA InsertStep ==
    ASSUME ListInv(list), NEW s \in Source, NEW index, NEW value \in Values,
           Lists!Insert(s, index, value)
    PROVE  /\ ListInv(list') /\ index \in 0 .. Len(list.sources[s])
           /\ list'.sources = [list.sources EXCEPT ![s] = InsertAt(@, index + 1, value)]
<1>1. /\ index \in 0 .. Len(list.sources[s])
      /\ list' = InsertValue(list, s, index, value)
  BY ListsInsert DEF Lists!Insert
<1>2. value \in Word
  BY ValuesAssumption
<1>. PICK new : new = InsertValue(list, s, index, value)
  OBVIOUS
<1>3. ListInv(new) /\ new.sources = [list.sources EXCEPT ![s] = InsertAt(@, index + 1, value)]
  BY <1>1, <1>2, InsertKeepsList
<1>. QED BY <1>1, <1>3

LEMMA DeleteStep ==
    ASSUME ListInv(list), NEW s \in Source, NEW index, Lists!Delete(s, index)
    PROVE  /\ ListInv(list') /\ index \in 0 .. Len(list.sources[s]) - 1
           /\ list'.sources = [list.sources EXCEPT ![s] = RemoveAt(@, index + 1)]
<1>1. /\ index \in 0 .. Len(list.sources[s]) - 1
      /\ list' = DeleteValue(list, s, index)
  BY ListsDelete DEF Lists!Delete
<1>. PICK new : new = DeleteValue(list, s, index)
  OBVIOUS
<1>2. ListInv(new) /\ new.sources = [list.sources EXCEPT ![s] = RemoveAt(@, index + 1)]
  BY <1>1, DeleteKeepsList
<1>. QED BY <1>1, <1>2

LEMMA ListStep ==
    ASSUME ListInv(list), Lists!ListNext
    PROVE  ListInv(list')
BY InsertStep, DeleteStep, ListsSource DEF Lists!ListNext

\* A push keeps a source in order, and the least value comes first.
LEMMA PriorityStep ==
    ASSUME ListInv(list), \A s \in Source : Ascending(list.sources[s]), Lists!PriorityNext
    PROVE  /\ ListInv(list') /\ \A s \in Source : Ascending(list'.sources[s])
           /\ Lists!RemovesMinimum
<1>0. list.sources \in [Source -> Seq(Word)]
  BY DEF ListInv
<1>1. ASSUME NEW s \in Source, NEW value \in Values, Lists!Push(s, value)
      PROVE  /\ ListInv(list') /\ \A t \in Source : Ascending(list'.sources[t])
             /\ Lists!RemovesMinimum
  <2>. PICK q \in Seq(Word) : q = list.sources[s]
    BY <1>0
  <2>. PICK m : m = Search(q, value)
    OBVIOUS
  <2>1. Lists!Insert(s, m, value)
    BY <1>1, ListsSearch DEF Lists!Push
  <2>2. ListInv(list') /\ list'.sources = [list.sources EXCEPT ![s] = InsertAt(@, m + 1, value)]
    BY <2>1, InsertStep
  <2>. PICK new : new = InsertAt(q, m + 1, value)
    OBVIOUS
  <2>3. list'.sources[s] = new /\ \A t \in Source \ {s} : list'.sources[t] = list.sources[t]
    BY <1>0, <2>2
  <2>4. value \in Word /\ Ascending(q)
    BY ValuesAssumption
  <2>5. m + 1 \in 1 .. Len(q) + 1 /\ Ascending(new)
    BY <2>4, InsertKeepsOrder
  <2>6. Len(new) = Len(q) + 1
    <3>. PICK c \in 1 .. Len(q) + 1 : c = m + 1
      BY <2>5
    <3>. QED BY <2>4, InsertAtIs
  <2>7. \A t \in Source : Ascending(list'.sources[t])
    BY <2>3, <2>5
  <2>8. Lists!RemovesMinimum
    <3>1. ASSUME NEW t \in Source PROVE ~(Len(list'.sources[t]) < Len(list.sources[t]))
      <4>1. Len(q) \in Nat /\ list.sources[t] \in Seq(Word)
        BY <1>0
      <4>2. Len(list.sources[t]) \in Nat
        BY <4>1
      <4>. QED BY <2>3, <2>6, <4>1, <4>2
    <3>. QED BY <3>1, ListsSource DEF Lists!RemovesMinimum
  <2>. QED BY <2>2, <2>7, <2>8
<1>2. ASSUME NEW s \in Source, Lists!PopMin(s)
      PROVE  /\ ListInv(list') /\ \A t \in Source : Ascending(list'.sources[t])
             /\ Lists!RemovesMinimum
  <2>. PICK q \in Seq(Word) : q = list.sources[s]
    BY <1>0
  <2>1. Lists!Delete(s, 0)
    BY <1>2 DEF Lists!PopMin
  <2>2. /\ ListInv(list') /\ 0 \in 0 .. Len(q) - 1
        /\ list'.sources = [list.sources EXCEPT ![s] = RemoveAt(@, 1)]
    BY <2>1, DeleteStep
  <2>3. 1 \in 1 .. Len(q) /\ Len(q) \in Nat /\ q # <<>>
    BY <2>2
  <2>4. RemoveAt(q, 1) = Tail(q)
    BY <2>3, HeadRemoved
  <2>5. list'.sources[s] = Tail(q) /\ \A t \in Source \ {s} : list'.sources[t] = list.sources[t]
    BY <1>0, <2>2, <2>4
  <2>6. Ascending(Tail(q))
    <3>1. Ascending(q)
      OBVIOUS
    <3>2. Ascending(RemoveAt(q, 1))
      BY <2>3, <3>1, RemoveKeepsOrder
    <3>. QED BY <2>4, <3>2
  <2>7. \A t \in Source : Ascending(list'.sources[t])
    BY <2>5, <2>6
  <2>8. Lists!RemovesMinimum
    <3>1. ASSUME NEW v \in Lists!Range(q) PROVE Head(q) <= v
      <4>1. PICK i \in 1 .. Len(q) : q[i] = v
        BY DEF Lists!Range
      <4>2. Ascending(q) /\ q[i] \in Word /\ q[1] \in Word /\ Head(q) = q[1]
        BY <2>3
      <4>3. q[1] \in Nat
        BY <4>2, XorAssumption
      <4>4. CASE i = 1
        BY <4>1, <4>2, <4>3, <4>4
      <4>5. CASE i # 1
        BY <2>3, <4>1, <4>2, <4>5 DEF Ascending
      <4>. QED BY <4>4, <4>5
    <3>2. ASSUME NEW t \in Source, t # s PROVE ~(Len(list'.sources[t]) < Len(list.sources[t]))
      <4>1. Len(list.sources[t]) \in Nat
        BY <1>0
      <4>. QED BY <2>5, <3>2, <4>1
    <3>. QED BY <2>5, <3>1, <3>2, ListsSource DEF Lists!RemovesMinimum
  <2>. QED BY <2>2, <2>7, <2>8
<1>. QED BY <1>1, <1>2, ListsSource DEF Lists!PriorityNext

\* Add appends only what is not there.
LEMMA SetStep ==
    ASSUME ListInv(list), \A s \in Source : Distinct(list.sources[s]), Lists!SetNext
    PROVE  ListInv(list') /\ \A s \in Source : Distinct(list'.sources[s])
<1>0. list.sources \in [Source -> Seq(Word)]
  BY DEF ListInv
<1>1. ASSUME NEW s \in Source, NEW value \in Values, Lists!Add(s, value)
      PROVE  ListInv(list') /\ \A t \in Source : Distinct(list'.sources[t])
  <2>. PICK q \in Seq(Word) : q = list.sources[s]
    BY <1>0
  <2>. PICK n : n = Len(q)
    OBVIOUS
  <2>1. value \notin Lists!Range(q) /\ Lists!Insert(s, n, value)
    BY <1>1 DEF Lists!Add, Lists!Holds
  <2>2. ListInv(list') /\ list'.sources = [list.sources EXCEPT ![s] = InsertAt(@, n + 1, value)]
    BY <2>1, InsertStep
  <2>3. \A i \in 1 .. Len(q) : q[i] # value
    BY <2>1 DEF Lists!Range
  <2>4. value \in Word /\ n + 1 \in 1 .. Len(q) + 1 /\ Distinct(q)
    BY ValuesAssumption
  <2>5. Distinct(InsertAt(q, n + 1, value))
    <3>. PICK c \in 1 .. Len(q) + 1 : c = n + 1
      BY <2>4
    <3>1. Distinct(InsertAt(q, c, value))
      BY <2>3, <2>4, InsertKeepsDistinct
    <3>. QED BY <3>1
  <2>. PICK new : new = InsertAt(q, n + 1, value)
    OBVIOUS
  <2>6. list'.sources[s] = new /\ \A t \in Source \ {s} : list'.sources[t] = list.sources[t]
    BY <1>0, <2>2
  <2>. QED BY <2>2, <2>5, <2>6
<1>2. ASSUME NEW s \in Source, NEW value \in Values, Lists!RemoveMember(s, value)
      PROVE  ListInv(list') /\ \A t \in Source : Distinct(list'.sources[t])
  <2>. PICK q \in Seq(Word) : q = list.sources[s]
    BY <1>0
  <2>1. PICK index \in 0 .. Len(q) - 1 : Lists!Delete(s, index)
    BY <1>2 DEF Lists!RemoveMember
  <2>2. ListInv(list') /\ list'.sources = [list.sources EXCEPT ![s] = RemoveAt(@, index + 1)]
    BY <2>1, DeleteStep
  <2>. PICK c \in 1 .. Len(q) : c = index + 1
    OBVIOUS
  <2>3. Distinct(RemoveAt(q, c))
    <3>1. Distinct(q)
      OBVIOUS
    <3>. QED BY <3>1, RemoveKeepsOrder
  <2>. PICK new : new = RemoveAt(q, c)
    OBVIOUS
  <2>4. list'.sources[s] = new /\ \A t \in Source \ {s} : list'.sources[t] = list.sources[t]
    BY <1>0, <2>2
  <2>. QED BY <2>2, <2>3, <2>4
<1>3. ASSUME UNCHANGED list
      PROVE  ListInv(list') /\ \A t \in Source : Distinct(list'.sources[t])
  BY <1>3
<1>4. ASSUME NEW s \in Source, NEW value \in Values,
             Lists!AddAgain(s, value) \/ Lists!RemoveAbsent(s, value)
      PROVE  UNCHANGED list
  BY <1>4 DEF Lists!AddAgain, Lists!RemoveAbsent
<1>. QED BY <1>1, <1>2, <1>3, <1>4, ListsSource DEF Lists!SetNext


LEMMA SimulationStep == SimulationInv /\ [Operation]_simulationVars => SimulationInv'
<1>. SUFFICES ASSUME SimulationInv, [Operation]_simulationVars PROVE SimulationInv'
  OBVIOUS
<1>0. /\ structure \in Structures /\ StackXors /\ PathInv(queueList, queues) /\ ListInv(list)
      /\ InOrder /\ NoneTwice
  BY DEF SimulationInv
<1>. SUFFICES /\ structure' \in Structures /\ StackXors'
              /\ PathInv(queueList', queues') /\ ListInv(list')
              /\ structure' = "Priority Queues" => \A s \in Source : Ascending(list'.sources[s])
              /\ structure' = "Sets" => \A s \in Source : Distinct(list'.sources[s])
  BY DEF SimulationInv, InOrder, NoneTwice
<1>. DEFINE StackSame == UNCHANGED vars
            QueueSame == UNCHANGED <<queueList, queues>>
            ListSame == UNCHANGED list
<1>1. StackSame => StackXors'
  BY <1>0, StackXorsStep
<1>2. QueueSame => PathInv(queueList', queues')
  BY <1>0
<1>3. ListSame => ListInv(list')
  BY <1>0
<1>4. CASE structure' = structure /\ structure = "Stacks" /\ Next /\ QueueSame /\ ListSame
  <2>1. StackXors'
    BY <1>0, <1>4, StackXorsStep
  <2>. QED BY <1>0, <1>2, <1>3, <1>4, <2>1
<1>5. CASE structure' = structure /\ structure = "Queues" /\ Queue!Next /\ StackSame /\ ListSame
  <2>1. PathInv(queueList', queues')
    BY <1>0, <1>5, QueueStep
  <2>. QED BY <1>0, <1>1, <1>3, <1>5, <2>1
<1>6. CASE /\ structure' = structure /\ structure = "Priority Queues" /\ Lists!PriorityNext
           /\ StackSame /\ QueueSame
  <2>1. ListInv(list') /\ \A s \in Source : Ascending(list'.sources[s])
    BY <1>0, <1>6, PriorityStep DEF InOrder
  <2>. QED BY <1>0, <1>1, <1>2, <1>6, <2>1
<1>7. CASE /\ structure' = structure /\ structure = "Sets" /\ Lists!SetNext
           /\ StackSame /\ QueueSame
  <2>1. ListInv(list') /\ \A s \in Source : Distinct(list'.sources[s])
    BY <1>0, <1>7, SetStep DEF NoneTwice
  <2>. QED BY <1>0, <1>1, <1>2, <1>7, <2>1
<1>8. CASE /\ structure' = structure /\ structure = "Linked Lists" /\ Lists!ListNext
           /\ StackSame /\ QueueSame
  <2>1. ListInv(list')
    BY <1>0, <1>8, ListStep
  <2>. QED BY <1>0, <1>1, <1>2, <1>8, <2>1
<1>9. CASE structure' = structure /\ StackSame /\ QueueSame /\ ListSame
  BY <1>0, <1>1, <1>2, <1>3, <1>9 DEF InOrder, NoneTwice
<1>10. CASE Operation
  BY <1>4, <1>5, <1>6, <1>7, <1>8, <1>10 DEF Operation
<1>11. CASE UNCHANGED simulationVars
  BY <1>9, <1>11 DEF simulationVars
<1>. QED BY <1>10, <1>11

-----------------------------------------------------------------------------
(* What holds of all five                                                  *)

\* The nodes of each are covered by the sources.
LEMMA StackCovers ==
    ASSUME StackInv
    PROVE  /\ Len(nodes) \in Nat
           /\ \E runs : Covers(runs, sources, Len(nodes))
<1>. DEFINE runs == [s \in Source |-> 1 .. Len(sources[s])]
<1>1. /\ DOMAIN sources = Source /\ Len(nodes) \in Nat
      /\ \A s \in Source : Len(sources[s]) \in Nat /\ Len(sources[s]) <= Len(nodes)
  BY DEF StackInv, TypeOK, TailsCount
<1>2. ASSUME NEW s \in Source
      PROVE  runs[s] \in SUBSET (1 .. Len(nodes)) /\ Cardinality(runs[s]) = Len(sources[s])
  BY <1>1, CountTo
<1>3. ASSUME NEW i \in 1 .. Len(nodes) PROVE \E s \in Source : i \in runs[s]
  <2>1. nodes # <<>>
    BY DEF StackInv, TypeOK
  <2>2. PICK s \in Source : Len(sources[s]) = Len(nodes)
    BY <2>1 DEF StackInv, LastHasTail, TailsCount
  <2>. QED BY <2>2
<1>. HIDE DEF runs
<1>4. Covers(runs, sources, Len(nodes))
  BY <1>1, <1>2, <1>3 DEF Covers
<1>. QED BY <1>1, <1>4

LEMMA SourcesFinite == IsFiniteSet(Source) /\ Source # {}
<1>1. 0 \in Int /\ SourceCount - 1 \in Int /\ 0 \in Source
  BY SourceAssumption DEF Source
<1>. QED BY <1>1, FS_Interval DEF Source

LEMMA WithinReplication ==
    ASSUME NEW slices \in [Source -> Seq(Word)], NEW runs, NEW n \in Nat, Covers(runs, slices, n)
    PROVE  n \in Longest(slices) .. Total(slices)
<1>1. AreSlices(slices, Source)
  BY SourcesFinite DEF AreSlices
<1>. PICK longest, total : longest = Longest(slices) /\ total = Total(slices)
  OBVIOUS
<1>2. longest \in Nat /\ longest <= n /\ total \in Nat /\ n <= total
  BY <1>1, Covered DEF Total
<1>3. n \in longest .. total
  BY <1>2
<1>. QED BY <1>3

LEMMA SimulationSaves == SimulationInv => SavesNodes
<1>. SUFFICES ASSUME SimulationInv PROVE SavesNodes
  OBVIOUS
<1>0. StackInv /\ PathInv(queueList, queues) /\ ListInv(list)
  BY DEF SimulationInv, StackXors
<1>1. FusionNodes \in Longest(Simulated) .. ReplicationNodes
  <2>1. CASE structure = "Stacks"
    <3>1. sources \in [Source -> Seq(Word)]
      <4>1. AreSlices(sources, Source)
        BY <1>0, StacksAreSlices DEF StackInv
      <4>. QED BY <4>1 DEF AreSlices
    <3>2. Len(nodes) \in Nat /\ \E runs : Covers(runs, sources, Len(nodes))
      BY <1>0, StackCovers
    <3>3. Len(nodes) \in Longest(sources) .. Total(sources)
      BY <3>1, <3>2, WithinReplication
    <3>4. Simulated = sources /\ FusionNodes = Len(nodes)
      BY <2>1 DEF Simulated, FusionNodes
    <3>. QED BY <3>3, <3>4 DEF ReplicationNodes
  <2>2. CASE structure = "Queues"
    <3>1. queues \in [Source -> Seq(Word)] /\ Len(queueList.nodes) \in Nat
      BY <1>0 DEF PathInv, Backs, Shaped
    <3>2. \E runs : Covers(runs, queues, Len(queueList.nodes))
      BY <1>0, PathCovers
    <3>3. Len(queueList.nodes) \in Longest(queues) .. Total(queues)
      BY <3>1, <3>2, WithinReplication
    <3>4. Simulated = queues /\ FusionNodes = Len(queueList.nodes)
      BY <2>2 DEF Simulated, FusionNodes
    <3>. QED BY <3>3, <3>4 DEF ReplicationNodes
  <2>3. CASE structure # "Stacks" /\ structure # "Queues"
    <3>1. list.sources \in [Source -> Seq(Word)]
      BY <1>0 DEF ListInv
    <3>2. Len(list.nodes) \in Nat /\ \E runs : Covers(runs, list.sources, Len(list.nodes))
      BY <1>0, ListCovers
    <3>. PICK q : q = list.sources
      OBVIOUS
    <3>3. Len(list.nodes) \in Longest(q) .. Total(q)
      BY <3>1, <3>2, WithinReplication
    <3>4. Simulated = q /\ FusionNodes = Len(list.nodes)
      BY <2>3 DEF Simulated, FusionNodes
    <3>. QED BY <3>3, <3>4 DEF ReplicationNodes
  <2>. QED BY <2>1, <2>2, <2>3
<1>2. structure = "Stacks" => FusionNodes = Longest(Simulated)
  BY <1>0, ListEndsAtLongest DEF Simulated, FusionNodes
<1>3. Lists!Compact
  <2>1. \A i, j \in 1 .. Len(list.nodes) : j = i + 1 => Meet(list.nodes, i, j)
    BY <1>0 DEF ListInv, Dense
  <2>2. Len(list.nodes) \in Nat
    BY <1>0, ListCovers
  <2>3. ASSUME NEW i \in 1 .. Len(list.nodes) - 1
        PROVE  list.nodes[i].bits \cap list.nodes[i + 1].bits # {}
    <3>. PICK j : j = i + 1
      OBVIOUS
    <3>1. i \in 1 .. Len(list.nodes) /\ j \in 1 .. Len(list.nodes)
      BY <2>2
    <3>2. Meet(list.nodes, i, j)
      BY <2>1, <3>1
    <3>. QED BY <3>2 DEF Meet
  <2>. QED BY <2>3 DEF Lists!Compact
<1>. QED BY <1>1, <1>2, <1>3 DEF SavesNodes

LEMMA QueueRecovers ==
    ASSUME PathInv(queueList, queues)
    PROVE  Queue!RecoversEverySource
<1>1. ASSUME NEW missing \in Source
      PROVE  /\ Queue!PathSurvivorsFit(queueList, missing, Queue!Survivors(missing))
             /\ Queue!RecoverRun(queueList, missing, Queue!Survivors(missing)) = queues[missing]
  <2>. PICK survivors : survivors = Queue!Survivors(missing)
    OBVIOUS
  <2>1. /\ DOMAIN survivors = Source \ {missing}
        /\ \A s \in Source \ {missing} : survivors[s] = queues[s]
    BY QueueSource DEF Queue!Survivors
  <2>2. /\ PathSurvivorsFit(queueList, missing, survivors)
        /\ RecoverRun(queueList, missing, survivors) = queues[missing]
    BY <2>1, PathRecovers
  <2>. QED BY <2>2, QueueFit, QueueRecoverRun
<1>. QED BY <1>1, QueueSource DEF Queue!RecoversEverySource

LEMMA ListsRecoverAll ==
    ASSUME ListInv(list), NEW missing \in Source
    PROVE  /\ Lists!ListsFit(list, missing, Lists!Survivors(missing))
           /\ Lists!RecoverValues(list, missing, Lists!Survivors(missing)) = list.sources[missing]
<1>. PICK survivors : survivors = [s \in Source \ {missing} |-> list.sources[s]]
  OBVIOUS
<1>1. survivors = Lists!Survivors(missing)
  BY ListsSource DEF Lists!Survivors
<1>2. /\ ListsFit(list, missing, survivors)
      /\ RecoverValues(list, missing, survivors) = list.sources[missing]
  BY ListRecovers
<1>. QED BY <1>1, <1>2, ListsFitting, ListsRecover

LEMMA SimulationRecovers == SimulationInv => EveryStructureRecovers
<1>. SUFFICES ASSUME SimulationInv PROVE EveryStructureRecovers
  OBVIOUS
<1>0. StackXors /\ PathInv(queueList, queues) /\ ListInv(list)
  BY DEF SimulationInv
<1>1. RecoversEverySource
  BY <1>0, StackXorsRecovers
<1>2. Lists!RecoversEverySource
  BY <1>0, ListsRecoverAll, ListsSource DEF Lists!RecoversEverySource
<1>. QED BY <1>0, <1>1, <1>2, QueueRecovers DEF EveryStructureRecovers

LEMMA SimulationKeepsSets == SimulationInv => SetsStaySets
<1>. SUFFICES ASSUME SimulationInv, structure = "Sets" PROVE Lists!SetsStaySets
  BY DEF SetsStaySets
<1>1. ASSUME NEW missing \in Source
      PROVE  Lists!IsInjective(Lists!RecoverValues(list, missing, Lists!Survivors(missing)))
  <2>1. ListInv(list) /\ Distinct(list.sources[missing])
    BY DEF SimulationInv, NoneTwice
  <2>. PICK q \in Seq(Word) : q = list.sources[missing]
    BY <2>1 DEF ListInv
  <2>2. Lists!RecoverValues(list, missing, Lists!Survivors(missing)) = q
    BY <2>1, ListsRecoverAll
  <2>3. Lists!IsInjective(q)
    <3>1. DOMAIN q = 1 .. Len(q)
      OBVIOUS
    <3>. QED BY <2>1, <3>1 DEF Lists!IsInjective, Distinct
  <2>. QED BY <2>2, <2>3
<1>. QED BY <1>1, ListsSource DEF Lists!SetsStaySets

\* For any number of processes and operations, a simulated backup never has more
\* nodes than the replicas would need nor fewer than the longest source, a stack
\* exactly as many as its longest, and no two neighbours in a list could be one.
THEOREM SimulationSavesNodes == Simulate => []SavesNodes
BY SimulationStarts, SimulationStep, SimulationSaves, PTL DEF Simulate

\* At the end of any simulation each of the five structures gives every source
\* back, whichever is lost.
THEOREM SimulationRecoversAll == Simulate => []EveryStructureRecovers
BY SimulationStarts, SimulationStep, SimulationRecovers, PTL DEF Simulate

\* However Adds and Removes share and merge the nodes of sets, what Recover
\* returns for a lost set holds no value twice.
THEOREM RecoveredSetsAreSets == Simulate => []SetsStaySets
BY SimulationStarts, SimulationStep, SimulationKeepsSets, PTL DEF Simulate

\* Every pop takes a smallest value of its priority queue: each Push so far found
\* its place by binary search.
THEOREM PopsTakeMinimum == Simulate => PopsMinimum
<1>1. ASSUME SimulationInv, Operation, structure = "Priority Queues"
      PROVE  Lists!RemovesMinimum
  <2>1. ListInv(list) /\ \A s \in Source : Ascending(list.sources[s])
    BY <1>1 DEF SimulationInv, InOrder
  <2>2. Lists!PriorityNext
    BY <1>1 DEF Operation
  <2>. QED BY <2>1, <2>2, PriorityStep
<1>2. SimulationInv /\ [Operation]_simulationVars
          => [structure = "Priority Queues" => Lists!RemovesMinimum]_list
  BY <1>1 DEF simulationVars
<1>. QED BY <1>2, SimulationStarts, SimulationStep, PTL DEF Simulate, PopsMinimum

=============================================================================
