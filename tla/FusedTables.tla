------------------------------ MODULE FusedTables ------------------------------
(***************************************************************************)
(* The two fused hash tables side by side: the key/value table under the   *)
(* database, which is this module's own by EXTENDS, and the table of       *)
(* packed entries.  Both keep fused lists in buckets, but the first takes  *)
(* the index of an element from its caller and the second searches for it. *)
(* Each is run by itself: a behaviour chooses one in the beginning.        *)
(***************************************************************************)
EXTENDS FusedKVHashTable

CONSTANTS
    PackedKeys, PackedValues,
    ValueSpan,   \* the values of the low half of a word, 2^32 in the code
    Absent,      \* the value of a key that a map does not hold
    MaxEntries   \* bound: entries in all the maps

ASSUME TablesAssumption ==
    /\ ValueSpan \in Nat \ {0} /\ PackedValues \subseteq 0 .. ValueSpan - 1
    /\ PackedKeys \subseteq Nat /\ Absent \notin PackedValues
    /\ \A k \in PackedKeys, v \in PackedValues : k * ValueSpan + v \in Word
    /\ MaxEntries \in Nat

VARIABLES
    structure,     \* the table that runs
    maps, buckets

packedVars == <<maps, buckets>>
allVars == <<vars, structure, packedVars>>

Packed == INSTANCE FusedHashTable WITH
    Keys <- PackedKeys, Values <- PackedValues, sources <- maps

InitOne ==
    /\ structure \in {"key/value", "packed"}
    /\ Init
    /\ Packed!Init

NextOne ==
    /\ \/ structure = "key/value" /\ Next /\ UNCHANGED packedVars
       \/ structure = "packed" /\ Packed!Next /\ UNCHANGED vars
    /\ UNCHANGED structure

SpecOne == InitOne /\ [][NextOne]_allVars

-----------------------------------------------------------------------------
\* Whichever source of a table is lost, Recover returns exactly its records,
\* whether callers passed the indices of its elements or the table searched for
\* them.
EveryTableRecovers ==
    /\ RecoversEverySource
    /\ Packed!RecoversEverySource

\* The list of a bucket holds of every source exactly the packed entries of its
\* map, in ascending order: deletePacked, whose result is ignored, has always
\* deleted the old entry and no other.
BucketsHoldMaps == Packed!BucketsHoldMaps
=============================================================================
