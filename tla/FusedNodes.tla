------------------------------ MODULE FusedNodes ------------------------------
(***************************************************************************)
(* The list of fused nodes under the linked list of                        *)
(* src/structures/linkedlist.go and, with a second copy of the same code,  *)
(* under every bucket of the key/value table of kvhashtable.go.            *)
(*                                                                         *)
(* A doubly linked list in the code is a sequence of nodes here:           *)
(* insertBefore is InsertAt, removeNode is RemoveAt.  A node's bit field,  *)
(* one bool per source, is the set of the sources whose bit is set.  What  *)
(* else a node holds is up to the structure: it passes a fresh node and    *)
(* the one that several become, and XORs elements into nodes itself.       *)
(***************************************************************************)
EXTENDS FusedWords

\* The positions of the nodes that hold an element of source s.
Occupied(list, s) == {i \in DOMAIN list : s \in list[i].bits}

\* How many elements of source s come before position i.
Before(list, s, i) == Cardinality({j \in Occupied(list, s) : j < i})

\* The position of the index-th node of source s.
NodeAt(list, s, index) ==
    CHOOSE i \in Occupied(list, s) : Before(list, s, i) = index

-----------------------------------------------------------------------------
\* The first node after the predecessor of a new index-th element of source s.
CandidateAlwaysHead(list, s, index) == 1
Candidate(list, s, index) ==
    IF index = 0 THEN 1 ELSE NodeAt(list, s, index - 1) + 1

\* The node of the element that will follow it, or the end of the list.
NextSource(list, s, index) ==
    IF index < Cardinality(Occupied(list, s))
    THEN NodeAt(list, s, index)
    ELSE Len(list) + 1

\* A new element shares that candidate when it lies before its successor, and
\* otherwise gets a fresh node there; the candidate is its node then too.
WithRoom(list, s, index, fresh) ==
    IF Candidate(list, s, index) = NextSource(list, s, index)
    THEN InsertAt(list, Candidate(list, s, index), fresh)
    ELSE list

-----------------------------------------------------------------------------
Disjoint(list, l, r) ==
    \A i, j \in l .. r : i # j => list[i].bits \cap list[j].bits = {}

\* How far the two loops of mergeNodes go to the left and to the right of
\* node n: the accumulated node stays disjoint from the next one exactly as
\* long as the nodes of the whole range are pairwise disjoint.
MergeLeft(list, n) == Min({l \in 1 .. n : Disjoint(list, l, n)})
MergeRightNever(list, l, n) == n
MergeRight(list, l, n) ==
    Max({r \in n .. Len(list) : Disjoint(list, l, r)})

\* removeNode, when the node holds nothing any more.
UnlinkNever(list, i) == list
Unlink(list, i) == IF list[i].bits = {} THEN RemoveAt(list, i) ELSE list

\* mergeNodes after the bit of one source has been cleared in node i: an
\* empty node is unlinked and its neighbour takes over, then that node
\* swallows every disjoint neighbour.  These are the nodes that become one,
\* as positions after the unlinking.
Swallowed(list, i) ==
    LET linked == Unlink(list, i)
        n == IF list[i].bits = {} /\ i > 1 THEN i - 1 ELSE i
        l == MergeLeft(linked, n)
    IN  l .. MergeRight(linked, l, n)

\* The list in which node has taken their place.
MergeNodes(list, i, node) ==
    LET linked == Unlink(list, i)
        range == Swallowed(list, i)
    IN  IF linked = <<>>
        THEN <<>>
        ELSE SubSeq(linked, 1, Min(range) - 1) \o <<node>>
                 \o SubSeq(linked, Max(range) + 1, Len(linked))
=============================================================================
