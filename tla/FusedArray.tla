------------------------------ MODULE FusedArray ------------------------------
(***************************************************************************)
(* The fused array of src/structures/array.go: slices of fixed and often   *)
(* unequal lengths, their XOR, and the XOR of their lengths, from which    *)
(* recovery learns how long the lost one was.                              *)
(***************************************************************************)
EXTENDS FusedWords

CONSTANTS
    Values,    \* what the slices hold
    Given,     \* bound: what those given to NewFusedArray hold
    MaxLength  \* bound: elements of a slice; lengths are machine words too

VARIABLES
    sources,      \* sources[s]: the slice of source s
    fusion,       \* the slice of XORs
    lengthParity  \* XOR of the lengths

vars == <<sources, fusion, lengthParity>>

Lengths(slices) == [s \in DOMAIN slices |-> Len(slices[s])]

Init ==
    /\ sources \in [Source -> BoundedSeq(Given, MaxLength)]
    /\ fusion = XORSlices(sources)
    /\ lengthParity = XorOver(Lengths(sources), Source)

\* core.Replace
Replace(word, old, new) == Xor(Xor(word, old), new)

Set(s, index, value) ==
    /\ index \in DOMAIN sources[s]
    /\ sources' = [sources EXCEPT ![s][index] = value]
    /\ fusion' = [fusion EXCEPT ![index] = Replace(@, sources[s][index], value)]
    /\ UNCHANGED lengthParity

Next ==
    \E s \in Source, index \in 1 .. MaxLength, value \in Values : Set(s, index, value)

Spec == Init /\ [][Next]_vars

-----------------------------------------------------------------------------
Survivors(missing) == [s \in Source \ {missing} |-> sources[s]]

\* The length that the parity leaves for the missing slice.
LengthOfFusion(survivors) == Len(fusion)
LengthLeft(survivors) == Xor(lengthParity, XorOver(Lengths(survivors), DOMAIN survivors))

\* Recover returns an error when that exceeds the fusion.
LengthFits(survivors) == LengthLeft(survivors) <= Len(fusion)

Recover(missing, survivors) == XOROut(SubSeq(fusion, 1, LengthLeft(survivors)), survivors)

-----------------------------------------------------------------------------
\* After any updates the fusion is that of the slices as they are now, whichever
\* of them reach to an index and whatever cancels out there.
FusionIsXor == fusion = XORSlices(sources)

\* Whichever slice is lost, the longest or the shortest or an empty one, Recover
\* returns it with its own length, although the survivors may be longer.
RecoversEverySource ==
    \A missing \in Source :
        LET survivors == Survivors(missing)
        IN  LengthFits(survivors) /\ Recover(missing, survivors) = sources[missing]
=============================================================================
