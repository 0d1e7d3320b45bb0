-------------------------- MODULE MCUnloggedDatabase --------------------------
(***************************************************************************)
(* A small instance of UnloggedDatabase, with words of three bits.         *)
(***************************************************************************)
EXTENDS UnloggedDatabase

Bits == INSTANCE Bitwise

MCWord == 0 .. 7

MCXorTable == [a, b \in MCWord |-> Bits!^^(a, b)]

MCXor(a, b) == MCXorTable[a, b]
=============================================================================
