---------------------------- MODULE MCFusedArrays ------------------------------
(***************************************************************************)
(* A small instance of FusedArrays, with words of three bits.              *)
(***************************************************************************)
EXTENDS FusedArrays

Bits == INSTANCE Bitwise

MCWord == 0 .. 7

MCXorTable == [a, b \in MCWord |-> Bits!^^(a, b)]

MCXor(a, b) == MCXorTable[a, b]
=============================================================================
