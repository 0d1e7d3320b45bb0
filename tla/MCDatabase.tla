------------------------------ MODULE MCDatabase ------------------------------
(***************************************************************************)
(* A small instance of Database, and of DatabaseCheckpoints on it, with    *)
(* words of three bits.                                                    *)
(***************************************************************************)
EXTENDS DatabaseCheckpoints

Bits == INSTANCE Bitwise

MCWord == 0 .. 7

MCXorTable == [a, b \in MCWord |-> Bits!^^(a, b)]

MCXor(a, b) == MCXorTable[a, b]
=============================================================================
