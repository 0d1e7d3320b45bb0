------------------------------ MODULE Simulation -------------------------------
(***************************************************************************)
(* The simulation of src/sim/sim.go: five fused structures, each under     *)
(* random calls by all processes, and then the count of its nodes beside   *)
(* what a replica for every process would need.                            *)
(*                                                                         *)
(* Run takes the structures one after the other, each new and none with    *)
(* the state of another, so here one of them is chosen in the beginning.   *)
(* Any number of operations may be the last: what is claimed of the result *)
(* is claimed of every state.  The list stack is this module's own, by     *)
(* EXTENDS; the set, the priority queue and the linked list share `list'.  *)
(***************************************************************************)
EXTENDS FusedListStack

VARIABLES
    structure,  \* the name of the structure that is simulated
    queueList,  \* the fused list of the list queue
    queues,     \* the queues themselves
    list        \* the fused linked list

simulationVars == <<vars, structure, queueList, queues, list>>

Queue == INSTANCE FusedListQueue WITH list <- queueList, sources <- queues
Lists == INSTANCE FusedLinkedList

Structures == {"Stacks", "Queues", "Priority Queues", "Sets", "Linked Lists"}

New ==
    /\ structure \in Structures
    /\ Init
    /\ Queue!Init
    /\ Lists!Init

\* An operation inserts or removes, as the random number has it.
Operation ==
    /\ \/ structure = "Stacks" /\ Next /\ UNCHANGED <<queueList, queues, list>>
       \/ structure = "Queues" /\ Queue!Next /\ UNCHANGED <<vars, list>>
       \/ structure = "Priority Queues" /\ Lists!PriorityNext
              /\ UNCHANGED <<vars, queueList, queues>>
       \/ structure = "Sets" /\ Lists!SetNext /\ UNCHANGED <<vars, queueList, queues>>
       \/ structure = "Linked Lists" /\ Lists!ListNext
              /\ UNCHANGED <<vars, queueList, queues>>
    /\ UNCHANGED structure

Simulate == New /\ [][Operation]_simulationVars

-----------------------------------------------------------------------------
(* The result                                                              *)

Simulated ==
    CASE structure = "Stacks" -> sources
      [] structure = "Queues" -> queues
      [] OTHER -> list.sources

ReplicationNodes == Total(Simulated)

FusionNodes ==
    CASE structure = "Stacks" -> Len(nodes)
      [] structure = "Queues" -> Len(queueList.nodes)
      [] OTHER -> Len(list.nodes)

-----------------------------------------------------------------------------
\* The saving is real and not lost over time: a backup never has more nodes than
\* the replicas, nor fewer than the longest source needs.  A stack has exactly
\* those, and a list never keeps two neighbours that could be one node.
SavesNodes ==
    /\ FusionNodes \in Longest(Simulated) .. ReplicationNodes
    /\ structure = "Stacks" => FusionNodes = Longest(Simulated)
    /\ Lists!Compact

\* At the end of any simulation the fewer nodes still recover every source.
EveryStructureRecovers ==
    /\ RecoversEverySource
    /\ Queue!RecoversEverySource
    /\ Lists!RecoversEverySource

\* Sets stay sets in their backup too.
SetsStaySets == structure = "Sets" => Lists!SetsStaySets

\* PopMin removes a smallest value of its source.
PopsMinimum == [][structure = "Priority Queues" => Lists!RemovesMinimum]_list
=============================================================================
