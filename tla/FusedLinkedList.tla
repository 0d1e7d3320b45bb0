---------------------------- MODULE FusedLinkedList ----------------------------
(***************************************************************************)
(* The fused linked list, set and priority queue of                        *)
(* src/structures/linkedlist.go under every sequence of calls.  The set    *)
(* and the priority queue are the list with other operations on it, which  *)
(* choose the index themselves; each has a next-state relation of its own. *)
(* Simulation runs the three of them.                                      *)
(***************************************************************************)
EXTENDS FusedListOps, FusedSources

VARIABLE list

Init == list = NewList

Insert(s, index, value) ==
    /\ Total(list.sources) < MaxElements
    /\ index \in 0 .. Len(list.sources[s])
    /\ list' = InsertValue(list, s, index, value)

Delete(s, index) ==
    /\ index \in 0 .. Len(list.sources[s]) - 1
    /\ list' = DeleteValue(list, s, index)

ListNext ==
    \E s \in Source, index \in 0 .. MaxElements :
        \/ \E value \in Values : Insert(s, index, value)
        \/ Delete(s, index)

-----------------------------------------------------------------------------
(* FusedSet                                                                *)

HoldsNewest(s, value) ==
    list.sources[s] # <<>> /\ Last(list.sources[s]) = value
Holds(s, value) == value \in Range(list.sources[s])

Add(s, value) ==
    /\ ~Holds(s, value)
    /\ Insert(s, Len(list.sources[s]), value)

AddAgain(s, value) ==
    /\ Holds(s, value)
    /\ UNCHANGED list

\* The loop over Source(s) deletes the first element that equals value.
RemoveMember(s, value) ==
    \E index \in 0 .. Len(list.sources[s]) - 1 :
        /\ list.sources[s][index + 1] = value
        /\ \A i \in 1 .. index : list.sources[s][i] # value
        /\ Delete(s, index)

RemoveAbsent(s, value) ==
    /\ ~Holds(s, value)
    /\ UNCHANGED list

SetNext ==
    \E s \in Source, value \in Values :
        \/ Add(s, value)
        \/ AddAgain(s, value)
        \/ RemoveMember(s, value)
        \/ RemoveAbsent(s, value)

-----------------------------------------------------------------------------
(* FusedPriorityQueue                                                      *)

Push(s, value) == Insert(s, Search(list.sources[s], value), value)

PopMin(s) == Delete(s, 0)

PriorityNext ==
    \E s \in Source :
        \/ \E value \in Values : Push(s, value)
        \/ PopMin(s)

-----------------------------------------------------------------------------
Survivors(missing) == [s \in Source \ {missing} |-> list.sources[s]]

\* Whichever source is lost, Recover accepts the others and returns the lost
\* list in its order: an insertion between any two elements found the nodes of
\* its neighbours, and no merge put two elements of one source together.
RecoversEverySource ==
    \A missing \in Source :
        /\ ListsFit(list, missing, Survivors(missing))
        /\ RecoverValues(list, missing, Survivors(missing)) = list.sources[missing]

\* No two neighbours could share a node, whatever was inserted and deleted
\* where: an insertion adds a node only where none was free, and mergeNodes
\* looks far enough on both sides.
Compact ==
    \A i \in 1 .. Len(list.nodes) - 1 :
        list.nodes[i].bits \cap list.nodes[i + 1].bits # {}

\* Add never lets a set hold a value twice, and the backup neither: what
\* Recover returns for a lost set is a set, after any Adds and Removes that
\* shared and merged its nodes with those of others.
SetsStaySets ==
    \A missing \in Source :
        IsInjective(RecoverValues(list, missing, Survivors(missing)))

\* A step of a priority queue that removes a value removes a smallest one, which
\* Delete(source, 0) does only as long as every Push so far found the right index
\* by binary search.
RemovesMinimum ==
    \A s \in Source :
        Len(list'.sources[s]) < Len(list.sources[s]) =>
            /\ list'.sources[s] = Tail(list.sources[s])
            /\ \A v \in Range(list.sources[s]) : Head(list.sources[s]) <= v
=============================================================================
