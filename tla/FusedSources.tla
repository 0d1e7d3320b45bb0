----------------------------- MODULE FusedSources -----------------------------
(***************************************************************************)
(* What the fused lists, queues and stacks take and how much of it: every  *)
(* source holds values, as many as the bound leaves it.                    *)
(***************************************************************************)
EXTENDS FusedWords

CONSTANTS
    Values,       \* the values the sources take in
    MaxElements   \* bound: elements in all the sources

ASSUME ValuesAssumption == Values \subseteq Word /\ MaxElements \in Nat

\* How many elements all the slices hold.
Total(slices) == SumFunctionOnSet([s \in DOMAIN slices |-> Len(slices[s])], DOMAIN slices)
=============================================================================
