------------------------------ MODULE FusedStack ------------------------------
(***************************************************************************)
(* The fused array stack of src/structures/stack.go: one array whose n-th  *)
(* word is the XOR of the n-th elements of the stacks.                     *)
(***************************************************************************)
EXTENDS FusedSources

VARIABLES
    sources,  \* sources[s]: the stack of source s, its top last
    fusion,   \* the array
    tops      \* tops[s]: how high the stack of source s is

vars == <<sources, fusion, tops>>

Init ==
    /\ sources = [s \in Source |-> <<>>]
    /\ fusion = <<>>
    /\ tops = [s \in Source |-> 0]

Push(s, value) ==
    /\ Total(sources) < MaxElements
    /\ LET depth == tops[s] + 1
           grown == IF depth > Len(fusion) THEN Append(fusion, 0) ELSE fusion
       IN  fusion' = [grown EXCEPT ![depth] = Xor(@, value)]
    /\ sources' = [sources EXCEPT ![s] = Append(@, value)]
    /\ tops' = [tops EXCEPT ![s] = @ + 1]

\* Pop's loop drops zeros at the end of the array while no stack reaches there.
TrimZeros(array, heights) ==
    SubSeq(array, 1, Max({0} \cup {i \in DOMAIN array : array[i] # 0}))
Trim(array, heights) ==
    LET Stays(i) == array[i] # 0 \/ \E s \in Source : heights[s] >= i
    IN  SubSeq(array, 1, Max({0} \cup {i \in DOMAIN array : Stays(i)}))

Pop(s) ==
    /\ tops[s] # 0
    /\ tops' = [tops EXCEPT ![s] = @ - 1]
    /\ sources' = [sources EXCEPT ![s] = Front(@)]
    /\ fusion' = Trim([fusion EXCEPT ![tops[s]] = Xor(@, Last(sources[s]))], tops')

Next ==
    \E s \in Source :
        \/ \E value \in Values : Push(s, value)
        \/ Pop(s)

Spec == Init /\ [][Next]_vars

-----------------------------------------------------------------------------
Survivors(missing) == [s \in Source \ {missing} |-> sources[s]]

Recover(missing, survivors) ==
    XOROut([i \in 1 .. tops[missing] |-> IF i <= Len(fusion) THEN fusion[i] ELSE 0],
           survivors)

-----------------------------------------------------------------------------
\* The array is the XOR of the stacks and no longer than the highest of them,
\* also when elements are zero or cancel each other: trimming stops above the
\* highest stack and leaves nothing of the popped ones there.
FusionIsXor == fusion = XORSlices(sources)

\* Whichever stack is lost, Recover returns it from the array and the others.
RecoversEverySource ==
    \A missing \in Source : Recover(missing, Survivors(missing)) = sources[missing]
=============================================================================
