------------------------------ MODULE FusedDeque ------------------------------
(***************************************************************************)
(* The fused deque of src/structures/dequeue.go: the fused queue's list,   *)
(* used at both ends.  Its PushBack and PopFront do to the list what       *)
(* Enqueue and Dequeue do.                                                 *)
(***************************************************************************)
EXTENDS FusedListQueue

PushBack(s, value) == Enqueue(s, value)

PushFront(s, value) ==
    /\ Total(sources) < MaxElements
    /\ list' = AddFront(list, s, value)
    /\ sources' = [sources EXCEPT ![s] = <<value>> \o @]

PopFront(s) == Dequeue(s)

PopBack(s) ==
    /\ sources[s] # <<>>
    /\ list' = TakeBack(list, s, Last(sources[s]), Len(sources[s]) = 1)
    /\ sources' = [sources EXCEPT ![s] = Front(@)]

DequeNext ==
    \E s \in Source :
        \/ \E value \in Values : PushBack(s, value) \/ PushFront(s, value)
        \/ PopFront(s)
        \/ PopBack(s)

DequeSpec == Init /\ [][DequeNext]_vars
=============================================================================
