---------------------------- MODULE FusedHashTable ----------------------------
(***************************************************************************)
(* The fused hash table of src/structures/hashtable.go: in every bucket a  *)
(* fused linked list, whose elements are entries packed into one word, key *)
(* in the high half and value in the low half.  The maps of the sources    *)
(* are kept beside the buckets, and the lists keep the packed entries of   *)
(* every source a second time.                                             *)
(***************************************************************************)
EXTENDS FusedListOps

CONSTANTS
    BucketCount,
    Keys, Values,
    ValueSpan,   \* the values of the low half, 2^32 in the code
    Absent,      \* the value of a key that a map does not hold
    MaxEntries   \* bound: entries in all the maps

VARIABLES
    sources,  \* sources[s]: the map of source s
    buckets   \* the fused list of every bucket

vars == <<sources, buckets>>

Bucket == 0 .. BucketCount - 1
BucketOf(key) == key % BucketCount

Pack(key, value) == key * ValueSpan + value
Unpack(word) == [key |-> word \div ValueSpan, value |-> word % ValueSpan]

KeysIn(map) == {k \in DOMAIN map : map[k] # Absent}

Entries == SumFunctionOnSet([s \in Source |-> Cardinality(KeysIn(sources[s]))], Source)

Init ==
    /\ sources = [s \in Source |-> [k \in Keys |-> Absent]]
    /\ buckets = [b \in Bucket |-> NewList]

InsertPacked(list, s, word) == InsertValue(list, s, Search(list.sources[s], word), word)

\* The result of Delete is ignored: no error when the word is not there, and
\* nothing is changed when the search ends behind the last one.
DeletePackedFirst(list, s, word) == DeleteValue(list, s, 0)
DeletePacked(list, s, word) ==
    LET index == Search(list.sources[s], word)
    IN  IF index < Len(list.sources[s]) THEN DeleteValue(list, s, index) ELSE list

\* The bucket of an old entry is without it before the new one goes in.
Without(s, key) ==
    LET list == buckets[BucketOf(key)]
    IN  IF sources[s][key] = Absent
        THEN list
        ELSE DeletePacked(list, s, Pack(key, sources[s][key]))

Put(s, key, value) ==
    /\ sources[s][key] # value
    /\ sources[s][key] = Absent => Entries < MaxEntries
    /\ buckets' = [buckets EXCEPT
                     ![BucketOf(key)] = InsertPacked(Without(s, key), s, Pack(key, value))]
    /\ sources' = [sources EXCEPT ![s][key] = value]

PutSame(s, key) ==
    /\ sources[s][key] # Absent
    /\ UNCHANGED vars

Delete(s, key) ==
    /\ sources[s][key] # Absent
    /\ buckets' = [buckets EXCEPT ![BucketOf(key)] = Without(s, key)]
    /\ sources' = [sources EXCEPT ![s][key] = Absent]

DeleteAbsent(s, key) ==
    /\ sources[s][key] = Absent
    /\ UNCHANGED vars

Next ==
    \E s \in Source, key \in Keys :
        \/ \E value \in Values : Put(s, key, value)
        \/ PutSame(s, key)
        \/ Delete(s, key)
        \/ DeleteAbsent(s, key)

Spec == Init /\ [][Next]_vars

-----------------------------------------------------------------------------
\* The packed entries of a map that belong to bucket b, in ascending order.
SortedWords(map, b) ==
    LET words == {Pack(k, map[k]) : k \in {j \in KeysIn(map) : BucketOf(j) = b}}
    IN  CHOOSE q \in [1 .. Cardinality(words) -> words] :
            \A i, j \in DOMAIN q : i < j => q[i] < q[j]

WordSurvivors(missing, b) == [s \in Source \ {missing} |-> SortedWords(sources[s], b)]

RecoveredEntries(missing) ==
    UNION {{Unpack(w) : w \in Range(RecoverValues(buckets[b], missing, WordSurvivors(missing, b)))} :
               b \in Bucket}

-----------------------------------------------------------------------------
\* The list of a bucket holds of every source exactly the packed entries of its
\* map, in ascending order: deletePacked, whose result is ignored, has always
\* deleted the old entry and no other.
BucketsHoldMaps ==
    \A b \in Bucket, s \in Source : buckets[b].sources[s] = SortedWords(sources[s], b)

\* Whichever map is lost, Recover rebuilds it exactly from the other maps,
\* which it packs and sorts anew: that order is the order of the nodes.
RecoversEverySource ==
    \A missing \in Source :
        /\ \A b \in Bucket : ListsFit(buckets[b], missing, WordSurvivors(missing, b))
        /\ RecoveredEntries(missing) =
             {[key |-> k, value |-> sources[missing][k]] : k \in KeysIn(sources[missing])}
=============================================================================
