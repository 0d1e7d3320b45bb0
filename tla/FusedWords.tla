------------------------------ MODULE FusedWords -------------------------------
(***************************************************************************)
(* XOR of sets and slices of words (src/core/xor.go).                      *)
(***************************************************************************)
EXTENDS MachineWords, SequencesExt

\* XOR of the words f[x] for x \in S; the order does not matter.
XorOver(f, S) == FoldFunctionOnSet(Xor, 0, f, S)

\* The length of the longest slice.
Longest(slices) == Max({Len(slices[s]) : s \in DOMAIN slices})

\* The slices XORed word by word, the shorter ones padded with zeros.
XORSlices(slices) ==
    [i \in 1 .. Longest(slices) |->
        LET here == {s \in DOMAIN slices : i <= Len(slices[s])}
        IN  XorOver([s \in here |-> slices[s][i]], here)]

\* The first Len(out) words of out with those of the slices XORed out of them.
XOROut(out, slices) ==
    [i \in DOMAIN out |->
        LET here == {s \in DOMAIN slices : i <= Len(slices[s])}
        IN  Xor(out[i], XorOver([s \in here |-> slices[s][i]], here))]
=============================================================================
