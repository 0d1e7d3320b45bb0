----------------------------- MODULE SourceQueues -----------------------------
(***************************************************************************)
(* What the fused circular queue of src/structures/queue.go promises each  *)
(* of its sources: a first-in first-out queue of its own, of limited       *)
(* length.                                                                 *)
(***************************************************************************)
EXTENDS Naturals, Sequences

CONSTANTS
    Clients,   \* who has a queue
    Items,     \* what is queued
    Capacity   \* how many items a queue holds

VARIABLE queues

Init == queues = [c \in Clients |-> <<>>]

Put(c, item) ==
    /\ Len(queues[c]) < Capacity
    /\ queues' = [queues EXCEPT ![c] = Append(@, item)]

Take(c) ==
    /\ queues[c] # <<>>
    /\ queues' = [queues EXCEPT ![c] = Tail(@)]

Next ==
    \E c \in Clients :
        \/ \E item \in Items : Put(c, item)
        \/ Take(c)

Spec == Init /\ [][Next]_queues
=============================================================================
