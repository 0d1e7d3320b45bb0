----------------------------- MODULE FusedListOps -----------------------------
(***************************************************************************)
(* The fused linked list of src/structures/linkedlist.go as a data type.   *)
(* A list is [nodes, sources]: FusedNodes that hold one word, and the      *)
(* lists of the sources themselves, which the code keeps beside them.      *)
(* FusedLinkedList runs it, FusedHashTable has one in each bucket.         *)
(***************************************************************************)
EXTENDS FusedNodes

NewList == [nodes |-> <<>>, sources |-> [s \in Source |-> <<>>]]

NewListNode == [value |-> 0, bits |-> {}]

TakeIn(node, s, value) == [value |-> Xor(node.value, value), bits |-> node.bits \cup {s}]
GiveUp(node, s, value) == [value |-> Xor(node.value, value), bits |-> node.bits \ {s}]

\* Indices are counted from 0 as in the code, sequences from 1.
InsertValue(list, s, index, value) ==
    [nodes   |-> [WithRoom(list.nodes, s, index, NewListNode) EXCEPT
                    ![Candidate(list.nodes, s, index)] = TakeIn(@, s, value)],
     sources |-> [list.sources EXCEPT ![s] = InsertAt(@, index + 1, value)]]

Merged(nodes, range) ==
    [value |-> XorOver([i \in range |-> nodes[i].value], range),
     bits  |-> UNION {nodes[i].bits : i \in range}]

DeleteValue(list, s, index) ==
    LET i == NodeAt(list.nodes, s, index)
        left == [list.nodes EXCEPT ![i] = GiveUp(@, s, list.sources[s][index + 1])]
    IN  [nodes   |-> MergeNodes(left, i, Merged(Unlink(left, i), Swallowed(left, i))),
         sources |-> [list.sources EXCEPT ![s] = RemoveAt(@, index + 1)]]

\* sort.Search over a source in ascending order: the first index whose value is
\* not below the one looked for, or the length.
SearchDescending(values, value) == Cardinality({i \in DOMAIN values : values[i] > value})
Search(values, value) == Cardinality({i \in DOMAIN values : values[i] < value})

-----------------------------------------------------------------------------
\* The checks of Recover on the survivors' lists.
ListsFit(list, missing, survivors) ==
    /\ missing \in Source
    /\ DOMAIN survivors = Source \ {missing}
    /\ \A s \in DOMAIN survivors :
          Len(survivors[s]) = Cardinality(Occupied(list.nodes, s))

\* The elements of the missing source: the nodes with its bit, in order, with
\* the elements of the survivors XORed out.
RecoverValues(list, missing, survivors) ==
    LET Element(i) ==
            LET healthy == list.nodes[i].bits \ {missing}
                element == [s \in healthy |-> survivors[s][Before(list.nodes, s, i) + 1]]
            IN  Xor(list.nodes[i].value, XorOver(element, healthy))
    IN  [n \in 1 .. Cardinality(Occupied(list.nodes, missing)) |->
            Element(NodeAt(list.nodes, missing, n - 1))]
=============================================================================
