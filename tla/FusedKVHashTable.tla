--------------------------- MODULE FusedKVHashTable ---------------------------
(***************************************************************************)
(* The fused key/value hash table under every sequence of calls its users  *)
(* may make.  `sources' is what the callers hold: each source keeps its    *)
(* own records and passes the rank a key has among its keys of the same    *)
(* bucket (Database.bucketIndex in src/db/database.go).                    *)
(***************************************************************************)
EXTENDS FusedKVOps

CONSTANTS
    Keys, Values,  \* the keys and values the sources put
    MaxRecords     \* bound: how many records all the sources hold

ASSUME KeysAssumption == /\ Keys \subseteq Word /\ Values \subseteq Word
                         /\ MaxRecords \in Nat

VARIABLES
    table,    \* the FusedKVHashTable
    sources   \* sources[s]: the records source s holds

vars == <<table, sources>>

Record == [key : Keys, value : Values]

KeysOf(records) == {r.key : r \in records}

\* The rank of key among the source's keys of its bucket.
IndexOf(s, key) ==
    Cardinality({k \in KeysOf(sources[s]) : BucketOf(k) = BucketOf(key) /\ k < key})

-----------------------------------------------------------------------------
Init ==
    /\ table = EmptyTable
    /\ sources = [s \in Source |-> {}]

InsertRecord(s, r) ==
    /\ r.key \notin KeysOf(sources[s])
    /\ SourceRecordCount(table) < MaxRecords
    /\ ValidPosition(table, s, BucketOf(r.key), IndexOf(s, r.key), TRUE)
    /\ table' = Insert(table, s, IndexOf(s, r.key), r.key, r.value)
    /\ sources' = [sources EXCEPT ![s] = @ \cup {r}]

ReplaceRecord(s, r, value) ==
    /\ r \in sources[s]
    /\ ValidPosition(table, s, BucketOf(r.key), IndexOf(s, r.key), FALSE)
    /\ table' = Replace(table, s, IndexOf(s, r.key), r.key, r.value, value)
    /\ sources' = [sources EXCEPT ![s] = (@ \ {r}) \cup {[r EXCEPT !.value = value]}]

DeleteRecord(s, r) ==
    /\ r \in sources[s]
    /\ ValidPosition(table, s, BucketOf(r.key), IndexOf(s, r.key), FALSE)
    /\ table' = Delete(table, s, IndexOf(s, r.key), r.key, r.value)
    /\ sources' = [sources EXCEPT ![s] = @ \ {r}]

Next ==
    \E s \in Source :
        \/ \E r \in Record : InsertRecord(s, r)
        \/ \E r \in sources[s], value \in Values : ReplaceRecord(s, r, value)
        \/ \E r \in sources[s] : DeleteRecord(s, r)

Spec == Init /\ [][Next]_vars

-----------------------------------------------------------------------------
Survivors(missing) == [s \in Source \ {missing} |-> sources[s]]

\* Whichever source is lost, Recover accepts the others and returns exactly
\* the records of the lost one: the index passed to Insert, Replace and Delete
\* always met the node that holds the element, and no split or merge of nodes
\* mixed two elements of one source.
RecoversEverySource ==
    \A missing \in Source :
        /\ SurvivorsMatch(table, missing, Survivors(missing))
        /\ Recover(table, missing, Survivors(missing)) = sources[missing]

\* The list stays as short as merging can make it: no node is empty, and no
\* two neighbours could share one node.  Insert does not merge, so this says
\* that where it adds a node none was free, and that mergeNodes looks far
\* enough on both sides.
Compact ==
    \A b \in Bucket :
        LET bucket == table.buckets[b]
        IN  /\ \A i \in DOMAIN bucket : bucket[i].bits # {}
            /\ \A i \in 1 .. Len(bucket) - 1 :
                  bucket[i].bits \cap bucket[i + 1].bits # {}

\* The index the loop of rebuildFusion gives a key: how many records of its
\* source and bucket came before it.
RebuildIndexStuck(t, s, key) == 0
RebuildIndex(t, s, key) == t.sizes[s][BucketOf(key)]

InsertNext(p, t) ==
    Insert(t, p[1], RebuildIndex(t, p[1], p[2].key), p[2].key, p[2].value)

\* The order in which that loop meets the records: source by source, in bucket
\* and key order.  A pair is a source and one of its records.
Comes(p, q) ==
    \/ p[1] < q[1]
    \/ /\ p[1] = q[1]
       /\ \/ BucketOf(p[2].key) < BucketOf(q[2].key)
          \/ BucketOf(p[2].key) = BucketOf(q[2].key) /\ p[2].key < q[2].key

LastOf(pairs) == CHOOSE p \in pairs : \A q \in pairs \ {p} : Comes(q, p)

Pairs(records) == UNION {{s} \X records[s] : s \in Source}

\* The loop: the last pair is inserted into what it made of the others.
InsertAll(records) ==
    MapThenFoldSet(InsertNext, EmptyTable, LAMBDA p : p, LastOf, Pairs(records))

\* rebuildFusion's loop of inserts yields the aligned table that Rebuild
\* describes, whatever the sources hold, and that table recovers them all too.
RebuildRecovers ==
    LET rebuilt == Rebuild(sources)
    IN  /\ InsertAll(sources) = rebuilt
        /\ \A missing \in Source :
              /\ SurvivorsMatch(rebuilt, missing, Survivors(missing))
              /\ Recover(rebuilt, missing, Survivors(missing)) = sources[missing]
=============================================================================
