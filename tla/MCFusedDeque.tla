----------------------------- MODULE MCFusedDeque -----------------------------
(***************************************************************************)
(* A small instance of FusedDeque, and of the FusedListQueue in it.  Words *)
(* are three bits wide; the sources share their values.                    *)
(***************************************************************************)
EXTENDS FusedDeque

Bits == INSTANCE Bitwise

MCWord == 0 .. 7

MCXorTable == [a, b \in MCWord |-> Bits!^^(a, b)]

MCXor(a, b) == MCXorTable[a, b]
=============================================================================
