---------------------------- MODULE FusedListQueue ----------------------------
(***************************************************************************)
(* The fused queue of src/structures/listqueue.go under every sequence of  *)
(* calls.  `sources' holds the queues themselves, which the code keeps     *)
(* beside their backup.                                                    *)
(***************************************************************************)
EXTENDS FusedPathOps, FusedSources

VARIABLES
    list,     \* the fused list
    sources   \* sources[s]: the queue of source s

vars == <<list, sources>>

Init ==
    /\ list = EmptyList
    /\ sources = [s \in Source |-> <<>>]

Enqueue(s, value) ==
    /\ Total(sources) < MaxElements
    /\ list' = AddBack(list, s, value)
    /\ sources' = [sources EXCEPT ![s] = Append(@, value)]

Dequeue(s) ==
    /\ sources[s] # <<>>
    /\ list' = TakeFront(list, s, Head(sources[s]), Len(sources[s]) = 1)
    /\ sources' = [sources EXCEPT ![s] = Tail(@)]

Next ==
    \E s \in Source :
        \/ \E value \in Values : Enqueue(s, value)
        \/ Dequeue(s)

Spec == Init /\ [][Next]_vars

-----------------------------------------------------------------------------
Survivors(missing) == [s \in Source \ {missing} |-> sources[s]]

\* Whichever queue is lost, Recover accepts the others and returns the lost one
\* in its order: through nodes that other sources empty, remove and merge, each
\* of a source's elements stays in the node its run says.
RecoversEverySource ==
    \A missing \in Source :
        /\ PathSurvivorsFit(list, missing, Survivors(missing))
        /\ RecoverRun(list, missing, Survivors(missing)) = sources[missing]

\* Reference counts, heads and tails tell the same story: a run has a node for
\* each element of its source, a node counts the runs it is on, and no node is
\* on none.  So a node is removed when, and only when, nobody points to it.
RunsCounted ==
    /\ \A s \in Source :
          /\ Cardinality(Run(list, s)) = Len(sources[s])
          /\ list.heads[s] = 0 <=> list.tails[s] = 0
    /\ \A i \in DOMAIN list.nodes :
          /\ list.nodes[i].refCount > 0
          /\ list.nodes[i].refCount = Cardinality({s \in Source : i \in Run(list, s)})
=============================================================================
