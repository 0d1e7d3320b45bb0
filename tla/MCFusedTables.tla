---------------------------- MODULE MCFusedTables ------------------------------
(***************************************************************************)
(* A small instance of FusedTables, with words of four bits, and `^' the   *)
(* bitwise exclusive or of the community module.  A packed word has two    *)
(* bits of key over two of value.                                          *)
(***************************************************************************)
EXTENDS FusedTables

Bits == INSTANCE Bitwise

MCWord == 0 .. 15

MCXorTable == [a, b \in MCWord |-> Bits!^^(a, b)]

MCXor(a, b) == MCXorTable[a, b]
=============================================================================
