----------------------------- MODULE MachineWords ------------------------------
(***************************************************************************)
(* What the fused structures and the database share: the sources they      *)
(* protect, which are the shards of the database, and the machine words.   *)
(* A uint64 is a member of Word, and `^' is the constant operator Xor.     *)
(***************************************************************************)
EXTENDS Naturals, Sequences, FiniteSets

CONSTANTS
    SourceCount,  \* sources protected by the one fused backup
    Word,         \* the machine words: keys, values and their XORs
    Xor(_, _)     \* `^' on words

\* The constructors refuse fewer than two sources.
ASSUME SourceAssumption == SourceCount \in Nat /\ SourceCount >= 2

\* XOR makes the words a group in which every word is its own inverse.
ASSUME XorAssumption ==
    /\ Word \subseteq Nat /\ 0 \in Word
    /\ \A a, b \in Word : Xor(a, b) \in Word /\ Xor(a, b) = Xor(b, a)
    /\ \A a, b, c \in Word : Xor(Xor(a, b), c) = Xor(a, Xor(b, c))
    /\ \A a \in Word : Xor(a, 0) = a /\ Xor(a, a) = 0

Source == 0 .. SourceCount - 1
================================================================================
