---------------------------- MODULE FusedListStack ----------------------------
(***************************************************************************)
(* The fused list stack of src/structures/liststack.go: a doubly linked    *)
(* list of nodes that all stacks share from its head, and for each source  *)
(* a pointer to the node of its top.  The list is the sequence of the      *)
(* nodes' values here, a pointer the position in it, 0 when nil.           *)
(***************************************************************************)
EXTENDS FusedSources

VARIABLES
    sources,  \* sources[s]: the stack of source s, its top last
    nodes,    \* the values of the nodes
    tails     \* tails[s]: the node of the top of source s

vars == <<sources, nodes, tails>>

Init ==
    /\ sources = [s \in Source |-> <<>>]
    /\ nodes = <<>>
    /\ tails = [s \in Source |-> 0]

\* The head when source s has no tail, the node after its tail otherwise.
NodeForLast(s) == Len(nodes) + 1
NodeFor(s) == tails[s] + 1

\* A new last node is linked when there is no such node.
Push(s, value) ==
    /\ Total(sources) < MaxElements
    /\ LET node == NodeFor(s)
           linked == IF node > Len(nodes) THEN Append(nodes, 0) ELSE nodes
       IN  /\ nodes' = [linked EXCEPT ![node] = Xor(@, value)]
           /\ tails' = [tails EXCEPT ![s] = node]
    /\ sources' = [sources EXCEPT ![s] = Append(@, value)]

\* tailReferenced, after the tail of the popped source has moved.
TailReferencedNever(pointers, node) == FALSE
TailReferenced(pointers, node) == \E s \in Source : pointers[s] = node

Pop(s) ==
    /\ tails[s] # 0
    /\ LET node == tails[s]
           left == [nodes EXCEPT ![node] = Xor(@, Last(sources[s]))]
       IN  /\ tails' = [tails EXCEPT ![s] = node - 1]
           /\ nodes' = IF node = Len(nodes) /\ ~TailReferenced(tails', node)
                       THEN Front(left) ELSE left
    /\ sources' = [sources EXCEPT ![s] = Front(@)]

Next ==
    \E s \in Source :
        \/ \E value \in Values : Push(s, value)
        \/ Pop(s)

Spec == Init /\ [][Next]_vars

-----------------------------------------------------------------------------
Survivors(missing) == [s \in Source \ {missing} |-> sources[s]]

Recover(missing, survivors) == XOROut(SubSeq(nodes, 1, Len(sources[missing])), survivors)

-----------------------------------------------------------------------------
\* What the stack is made of.
TypeOK ==
    /\ sources \in [Source -> Seq(Values)]
    /\ nodes \in Seq(Word)
    /\ tails \in [Source -> 0 .. Len(nodes)]

\* Tails count the elements of their sources, and the list ends at the highest
\* tail: Pop looks at one node only, yet no node is ever left above all the
\* stacks, and none is removed below a tail.
ListEndsAtTop ==
    /\ \A s \in Source : tails[s] = Len(sources[s])
    /\ Len(nodes) = Longest(sources)

\* Whichever stack is lost, Recover returns it from the list and the others.
RecoversEverySource ==
    \A missing \in Source : Recover(missing, Survivors(missing)) = sources[missing]

\* The list does what the array does: at every step its values are the array
\* of FusedStack, although that one trims by looking at values and all tops,
\* and this one by looking at pointers to one node.
ArrayStack == INSTANCE FusedStack WITH fusion <- nodes, tops <- tails
ImplementsArrayStack == ArrayStack!Spec
=============================================================================
