------------------------------ MODULE MCSessions ------------------------------
(***************************************************************************)
(* A small instance of Sessions, with words of three bits.  Sessions are   *)
(* interchangeable.                                                        *)
(***************************************************************************)
EXTENDS Sessions, TLC

Bits == INSTANCE Bitwise

MCWord == 0 .. 7

MCXorTable == [a, b \in MCWord |-> Bits!^^(a, b)]

MCXor(a, b) == MCXorTable[a, b]

Symmetry == Permutations(Session)
=============================================================================
