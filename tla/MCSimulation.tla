----------------------------- MODULE MCSimulation ------------------------------
(***************************************************************************)
(* A small instance of Simulation, with words of three bits.               *)
(***************************************************************************)
EXTENDS Simulation

Bits == INSTANCE Bitwise

MCWord == 0 .. 7

MCXorTable == [a, b \in MCWord |-> Bits!^^(a, b)]

MCXor(a, b) == MCXorTable[a, b]
=============================================================================
