------------------------------ MODULE FusedKVOps ------------------------------
(***************************************************************************)
(* The fused key/value hash table of src/structures/kvhashtable.go as a    *)
(* data type: a value holding its buckets and sizes, and one operator per  *)
(* method.  FusedKVHashTable runs it alone, Database runs it as the backup *)
(* of its shards.                                                          *)
(*                                                                         *)
(* A bucket is a list of FusedNodes whose nodes hold a key and a value.    *)
(***************************************************************************)
EXTENDS FusedNodes

CONSTANT BucketCount  \* defaultBucketCount, 16 in the code

\* NewFusedKVHashTable refuses fewer than one bucket.
ASSUME TableAssumption == BucketCount \in Nat /\ BucketCount >= 1

Bucket == 0 .. BucketCount - 1

BucketOf(key) == key % BucketCount

ValidPosition(table, s, b, index, insert) ==
    /\ s \in Source
    /\ index \in 0 .. table.sizes[s][b]
    /\ insert \/ index # table.sizes[s][b]

-----------------------------------------------------------------------------
(* Mutating a bucket                                                       *)

NewNode == [key |-> 0, value |-> 0, bits |-> {}]

\* A node after an element has been XORed into it (or out of it again).
Fused(node, key, value) ==
    [node EXCEPT !.key = Xor(@, key), !.value = Xor(@, value)]

Occupy(node, s, key, value) ==
    [Fused(node, key, value) EXCEPT !.bits = @ \cup {s}]

Vacate(node, s, key, value) ==
    [Fused(node, key, value) EXCEPT !.bits = @ \ {s}]

InsertInto(bucket, s, index, key, value) ==
    [WithRoom(bucket, s, index, NewNode) EXCEPT
        ![Candidate(bucket, s, index)] = Occupy(@, s, key, value)]

\* A range of nodes as one.
Combined(bucket, range) ==
    [key   |-> XorOver([i \in range |-> bucket[i].key], range),
     value |-> XorOver([i \in range |-> bucket[i].value], range),
     bits  |-> UNION {bucket[i].bits : i \in range}]

DeleteFrom(bucket, s, index, key, value) ==
    LET i == NodeAt(bucket, s, index)
        left == [bucket EXCEPT ![i] = Vacate(@, s, key, value)]
    IN  MergeNodes(left, i, Combined(Unlink(left, i), Swallowed(left, i)))

-----------------------------------------------------------------------------
(* The table                                                               *)

EmptyTable ==
    [buckets |-> [b \in Bucket |-> <<>>],
     sizes   |-> [s \in Source |-> [b \in Bucket |-> 0]]]

InsertForgetsSize(table, s, index, key, value) ==
    LET b == BucketOf(key)
    IN  [table EXCEPT !.buckets[b] = InsertInto(@, s, index, key, value)]
Insert(table, s, index, key, value) ==
    LET b == BucketOf(key)
    IN  [buckets |-> [table.buckets EXCEPT
                        ![b] = InsertInto(@, s, index, key, value)],
         sizes   |-> [table.sizes EXCEPT ![s][b] = @ + 1]]

ReplaceForgetsOld(table, s, index, key, oldValue, newValue) ==
    LET b == BucketOf(key)
    IN  [table EXCEPT !.buckets[b][NodeAt(table.buckets[b], s, index)].value =
            Xor(@, newValue)]
Replace(table, s, index, key, oldValue, newValue) ==
    LET b == BucketOf(key)
    IN  [table EXCEPT !.buckets[b][NodeAt(table.buckets[b], s, index)].value =
            Xor(@, Xor(oldValue, newValue))]

DeleteKeepsSize(table, s, index, key, value) ==
    LET b == BucketOf(key)
    IN  [table EXCEPT !.buckets[b] = DeleteFrom(@, s, index, key, value)]
Delete(table, s, index, key, value) ==
    LET b == BucketOf(key)
    IN  [buckets |-> [table.buckets EXCEPT
                        ![b] = DeleteFrom(@, s, index, key, value)],
         sizes   |-> [table.sizes EXCEPT ![s][b] = @ - 1]]

SourceRecordCount(table) ==
    SumFunctionOnSet([p \in Source \X Bucket |-> table.sizes[p[1]][p[2]]],
                     Source \X Bucket)

NodeCount(table) ==
    SumFunctionOnSet([b \in Bucket |-> Len(table.buckets[b])], Bucket)

\* 16 bytes for key and value, and one bit per source.
LogicalBytes(table) == NodeCount(table) * (16 + (SourceCount + 7) \div 8)

-----------------------------------------------------------------------------
(* Recovery: records are [key, value] pairs, a survivor a set of them      *)

InBucket(records, b) == {r \in records : BucketOf(r.key) = b}

\* The n-th record of one survivor's bucket in key order.
Nth(records, n) ==
    CHOOSE r \in records : Cardinality({q \in records : q.key < r.key}) = n

\* The checks of Recover on its arguments; it returns an error otherwise.
SurvivorsMatch(table, missing, survivors) ==
    /\ missing \in Source
    /\ DOMAIN survivors = Source \ {missing}
    /\ \A s \in DOMAIN survivors, b \in Bucket :
          Cardinality(InBucket(survivors[s], b)) = table.sizes[s][b]

\* Node i of bucket b with the elements of the survivors XORed out of it.
RecoverNode(table, b, i, missing, survivors) ==
    LET node == table.buckets[b][i]
        healthy == node.bits \ {missing}
        element == [s \in healthy |->
                        Nth(InBucket(survivors[s], b),
                            Before(table.buckets[b], s, i))]
    IN  [key   |-> Xor(node.key,
                       XorOver([s \in healthy |-> element[s].key], healthy)),
         value |-> Xor(node.value,
                       XorOver([s \in healthy |-> element[s].value], healthy))]

Recover(table, missing, survivors) ==
    UNION {{RecoverNode(table, b, i, missing, survivors) :
                i \in Occupied(table.buckets[b], missing)} : b \in Bucket}
-----------------------------------------------------------------------------
(* rebuildFusion: the records of every source inserted into a new table,   *)
(* source by source and in key order.  The n-th node then holds the n-th   *)
(* element of every source that has that many; FusedKVHashTable checks     *)
(* this closed form against the loop.                                      *)

RebuildNodeLate(own, n) ==
    LET here == {s \in Source : Cardinality(own[s]) > n}
    IN  [key   |-> XorOver([s \in here |-> Nth(own[s], n - 1).key], here),
         value |-> XorOver([s \in here |-> Nth(own[s], n - 1).value], here),
         bits  |-> here]
RebuildNode(own, n) ==
    LET here == {s \in Source : Cardinality(own[s]) >= n}
    IN  [key   |-> XorOver([s \in here |-> Nth(own[s], n - 1).key], here),
         value |-> XorOver([s \in here |-> Nth(own[s], n - 1).value], here),
         bits  |-> here]

RebuildBucket(own) ==
    [n \in 1 .. Max({Cardinality(own[s]) : s \in Source}) |-> RebuildNode(own, n)]

Rebuild(records) ==
    [buckets |-> [b \in Bucket |->
                    RebuildBucket([s \in Source |-> InBucket(records[s], b)])],
     sizes   |-> [s \in Source |-> [b \in Bucket |->
                    Cardinality(InBucket(records[s], b))]]]
=============================================================================
