------------------------------ MODULE FusedQueue ------------------------------
(***************************************************************************)
(* The fused circular queue of src/structures/queue.go: a ring for each    *)
(* source, and a ring of the XORs of their slots.  The rings wrap at       *)
(* different times, each with a head, a tail and a count of its own.       *)
(***************************************************************************)
EXTENDS FusedWords

CONSTANTS
    Capacity,  \* slots of each ring
    Values     \* the values the sources enqueue

\* NewFusedQueue refuses a capacity below one.
ASSUME QueueAssumption == Capacity \in Nat /\ Capacity >= 1 /\ Values \subseteq Word

Slots == 0 .. Capacity - 1

VARIABLES
    sources,  \* sources[s]: the ring of source s
    fusion,   \* the ring of XORs
    heads,    \* heads[s]: the slot of the oldest element of source s
    tails,    \* tails[s]: the slot of its next element
    counts    \* counts[s]: how many elements it has

vars == <<sources, fusion, heads, tails, counts>>

Init ==
    /\ sources = [s \in Source |-> [i \in Slots |-> 0]]
    /\ fusion = [i \in Slots |-> 0]
    /\ heads = [s \in Source |-> 0]
    /\ tails = [s \in Source |-> 0]
    /\ counts = [s \in Source |-> 0]

AfterEarly(i) == IF i + 2 < Capacity THEN i + 1 ELSE 0
After(i) == (i + 1) % Capacity

Full(s) == counts[s] = Capacity

Enqueue(s, value) ==
    /\ ~Full(s)
    /\ sources' = [sources EXCEPT ![s][tails[s]] = value]
    /\ fusion' = [fusion EXCEPT ![tails[s]] = Xor(@, value)]
    /\ tails' = [tails EXCEPT ![s] = After(@)]
    /\ counts' = [counts EXCEPT ![s] = @ + 1]
    /\ UNCHANGED heads

Cleared(ring, i) == [ring EXCEPT ![i] = 0]

Dequeue(s) ==
    /\ counts[s] # 0
    /\ sources' = [sources EXCEPT ![s] = Cleared(@, heads[s])]
    /\ fusion' = [fusion EXCEPT ![heads[s]] = Xor(@, sources[s][heads[s]])]
    /\ heads' = [heads EXCEPT ![s] = After(@)]
    /\ counts' = [counts EXCEPT ![s] = @ - 1]
    /\ UNCHANGED tails

Next ==
    \E s \in Source :
        \/ \E value \in Values : Enqueue(s, value)
        \/ Dequeue(s)

Spec == Init /\ [][Next]_vars

-----------------------------------------------------------------------------
\* The slot of the i-th element of source s, counted from 0.
SlotUnturned(s, i) == i
Slot(s, i) == (heads[s] + i) % Capacity

Contents(s) == [n \in 1 .. counts[s] |-> sources[s][Slot(s, n - 1)]]

Survivors(missing) == [s \in Source \ {missing} |-> Contents(s)]

SurvivorsFit(missing, survivors) ==
    \A s \in Source \ {missing} : Len(survivors[s]) = counts[s]

\* The slots of the survivors' elements, XORed out of the fusion.
Recover(missing, survivors) ==
    LET Held(i) == {p \in (Source \ {missing}) \X Slots :
                        p[2] < Len(survivors[p[1]]) /\ Slot(p[1], p[2]) = i}
        Left(i) == Xor(fusion[i],
                       XorOver([p \in Held(i) |-> survivors[p[1]][p[2] + 1]], Held(i)))
    IN  [n \in 1 .. counts[missing] |-> Left(Slot(missing, n - 1))]

-----------------------------------------------------------------------------
\* What the rings are made of.
TypeOK ==
    /\ sources \in [Source -> [Slots -> Values \cup {0}]]
    /\ fusion \in [Slots -> Word]
    /\ heads \in [Source -> Slots]
    /\ tails \in [Source -> Slots]
    /\ counts \in [Source -> 0 .. Capacity]

\* Head, tail and count of a source stay in step over every wrap, also when
\* its ring is full or empty and head and tail are equal.
WindowsAgree ==
    \A s \in Source : tails[s] = Slot(s, counts[s])

\* A slot of the fusion is the XOR of the elements there, and only of those: a
\* dequeued element is gone from its ring and from the fusion.
FusionIsXor ==
    /\ \A i \in Slots : fusion[i] = XorOver([s \in Source |-> sources[s][i]], Source)
    /\ \A s \in Source, i \in Slots :
          (\A n \in 0 .. counts[s] - 1 : Slot(s, n) # i) => sources[s][i] = 0

\* Whichever queue is lost, Recover accepts the others and returns the lost one,
\* however the windows of the rings overlap.
RecoversEverySource ==
    \A missing \in Source :
        /\ SurvivorsFit(missing, Survivors(missing))
        /\ Recover(missing, Survivors(missing)) = Contents(missing)

\* Each ring is a first-in first-out queue: what Source returns changes by one
\* element at its end or its front, never another way.
Queues == INSTANCE SourceQueues WITH
    Clients <- Source, Items <- Values, queues <- [s \in Source |-> Contents(s)]
ImplementsQueues == Queues!Spec
=============================================================================
