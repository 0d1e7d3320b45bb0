--------------------------- MODULE FusedTablesProofs ---------------------------
(***************************************************************************)
(* Both hash tables under every sequence of calls, for any number of       *)
(* sources and buckets, all keys and values and any bounds.  In the        *)
(* key/value table whichever source is lost comes back exactly, and every  *)
(* bucket is as short as merging can make it; and the loop that rebuilds   *)
(* it makes a table that recovers them too.  In the packed table every     *)
(* bucket holds the packed entries of the maps in ascending order, so that *)
(* the search meets the old entry and Recover the order of the nodes.      *)
(***************************************************************************)
EXTENDS FusedTables, FusedKVProofs

\* The table carries the records of its sources, whose keys differ, in buckets
\* that no merge could shorten.
TablesInv ==
    /\ DOMAIN sources = Source
    /\ Shares(sources)
    /\ TableInv(table, sources)
    /\ TableDense(table)

\* The index a caller passes is the rank of its key.
LEMMA IndexIsRank ==
    ASSUME NEW s \in Source, NEW k \in Word, Keyed(sources[s])
    PROVE  IndexOf(s, k) = Rank(InBucket(sources[s], BucketOf(k)), k)
<1>. DEFINE b == BucketOf(k)
            K == {j \in KeysOf(sources[s]) : BucketOf(j) = b /\ j < k}
            B == Below(InBucket(sources[s], b), k)
            f == [r \in B |-> r.key]
<1>1. IsFiniteSet(B)
  <2>1. B \in SUBSET sources[s]
    BY DEF Below, InBucket
  <2>. QED BY <2>1, FS_Subset DEF Keyed
<1>2. f \in Bijection(B, K)
  <2>1. f \in [B -> K] /\ \A j \in K : \E r \in B : f[r] = j
    BY DEF Below, InBucket, KeysOf
  <2>2. \A r, q \in B : f[r] = f[q] => r = q
    BY DEF Below, InBucket, Keyed
  <2>3. DOMAIN f = B
    OBVIOUS
  <2>. HIDE DEF f, K, B
  <2>4. f \in Surjection(B, K)
    BY <2>1 DEF Surjection
  <2>5. f \in Injection(B, K)
    BY <2>1, <2>2, <2>3 DEF Injection, IsInjective
  <2>. QED BY <2>4, <2>5 DEF Bijection
<1>3. Cardinality(B) = Cardinality(K)
  <2>. HIDE DEF f, K, B
  <2>1. ExistsBijection(B, K)
    BY <1>2 DEF ExistsBijection
  <2>. QED BY <1>1, <2>1, FS_Bijection
<1>. QED BY <1>3 DEF IndexOf, Rank

LEMMA TablesInvInit ==
    ASSUME Init
    PROVE  TablesInv
<1>1. DOMAIN sources = Source /\ \A s \in Source : sources[s] = {}
  BY DEF Init
<1>2. table = EmptyTable
  BY DEF Init
<1>3. Shares(sources) /\ TableInv(EmptyTable, sources)
  BY <1>1, EmptyTableInv
<1>. QED BY <1>1, <1>2, <1>3, EmptyTableDense DEF TablesInv

LEMMA InsertKeepsTables ==
    ASSUME TablesInv, NEW s \in Source, NEW r \in Record, InsertRecord(s, r)
    PROVE  TablesInv'
<1>1. r.key \in Word /\ r.value \in Word /\ r = [key |-> r.key, value |-> r.value]
  BY KeysAssumption DEF Record
<1>2. PICK own, F, k, v : own = sources /\ F = sources' /\ k = r.key /\ v = r.value
  OBVIOUS
<1>3. \A q \in own[s] : q.key # k
  BY <1>2 DEF InsertRecord, KeysOf
<1>4. DOMAIN own = Source /\ Shares(own) /\ TableInv(table, own) /\ TableDense(table)
  BY <1>2 DEF TablesInv
<1>5. /\ DOMAIN F = Source /\ F[s] = own[s] \cup {r}
      /\ \A t \in Source \ {s} : F[t] = own[t]
  BY <1>2, <1>4 DEF InsertRecord
<1>6. Adds(F, own, s, [key |-> k, value |-> v])
  BY <1>1, <1>2, <1>5 DEF Adds
<1>7. PICK index : index = Rank(InBucket(own[s], BucketOf(k)), k)
  OBVIOUS
<1>8. IndexOf(s, k) = index
  BY <1>1, <1>2, <1>4, <1>7, IndexIsRank DEF Shares
<1>9. table' = Insert(table, s, index, k, v)
  BY <1>2, <1>8 DEF InsertRecord
<1>10. Shares(F) /\ TableInv(Insert(table, s, index, k, v), F)
  BY <1>1, <1>2, <1>3, <1>4, <1>6, <1>7, InsertTable
<1>11. TableDense(Insert(table, s, index, k, v))
  BY <1>1, <1>2, <1>3, <1>4, <1>7, InsertTableDense
<1>. QED BY <1>2, <1>5, <1>9, <1>10, <1>11 DEF TablesInv

LEMMA ReplaceKeepsTables ==
    ASSUME TablesInv, NEW s \in Source, NEW r \in sources[s], NEW v \in Values,
           ReplaceRecord(s, r, v)
    PROVE  TablesInv'
<1>1. PICK own, F, old : own = sources /\ F = sources' /\ old = table
  OBVIOUS
<1>2. DOMAIN own = Source /\ Shares(own) /\ TableInv(old, own) /\ TableDense(old)
  BY <1>1 DEF TablesInv
<1>3. r \in own[s] /\ r \in Element /\ v \in Word
  BY <1>1, <1>2, KeysAssumption DEF Shares, Keyed
<1>4. r.key \in Word /\ [r EXCEPT !.value = v] = [key |-> r.key, value |-> v]
  BY <1>3 DEF Element
<1>5. /\ DOMAIN F = Source
      /\ F[s] = (own[s] \ {r}) \cup {[r EXCEPT !.value = v]}
      /\ \A t \in Source \ {s} : F[t] = own[t]
  BY <1>1, <1>2 DEF ReplaceRecord
<1>6. Changes(F, own, s, r, v)
  BY <1>4, <1>5 DEF Changes
<1>7. PICK index : index = Rank(InBucket(own[s], BucketOf(r.key)), r.key)
  OBVIOUS
<1>8. IndexOf(s, r.key) = index
  BY <1>1, <1>2, <1>4, <1>7, IndexIsRank DEF Shares
<1>9. table' = Replace(old, s, index, r.key, r.value, v)
  BY <1>1, <1>8 DEF ReplaceRecord
<1>10. Shares(F) /\ TableInv(Replace(old, s, index, r.key, r.value, v), F)
  BY <1>2, <1>3, <1>6, <1>7, ReplaceTable
<1>11. TableDense(Replace(old, s, index, r.key, r.value, v))
  BY <1>2, <1>3, <1>7, ReplaceTableDense
<1>. QED BY <1>1, <1>5, <1>9, <1>10, <1>11 DEF TablesInv

LEMMA DeleteKeepsTables ==
    ASSUME TablesInv, NEW s \in Source, NEW r \in sources[s], DeleteRecord(s, r)
    PROVE  TablesInv'
<1>1. PICK own, F, old : own = sources /\ F = sources' /\ old = table
  OBVIOUS
<1>2. DOMAIN own = Source /\ Shares(own) /\ TableInv(old, own) /\ TableDense(old)
  BY <1>1 DEF TablesInv
<1>3. r \in own[s] /\ r \in Element /\ r.key \in Word
  BY <1>1, <1>2 DEF Shares, Keyed, Element
<1>4. /\ DOMAIN F = Source /\ F[s] = own[s] \ {r}
      /\ \A t \in Source \ {s} : F[t] = own[t]
  BY <1>1, <1>2 DEF DeleteRecord
<1>5. Drops(F, own, s, r)
  BY <1>4 DEF Drops
<1>6. PICK index : index = Rank(InBucket(own[s], BucketOf(r.key)), r.key)
  OBVIOUS
<1>7. IndexOf(s, r.key) = index
  BY <1>1, <1>2, <1>3, <1>6, IndexIsRank DEF Shares
<1>8. table' = Delete(old, s, index, r.key, r.value)
  BY <1>1, <1>7 DEF DeleteRecord
<1>9. Shares(F) /\ TableInv(Delete(old, s, index, r.key, r.value), F)
  BY <1>2, <1>3, <1>5, <1>6, DeleteTable
<1>10. TableDense(Delete(old, s, index, r.key, r.value))
  BY <1>2, <1>3, <1>6, DeleteTableDense
<1>. QED BY <1>1, <1>4, <1>8, <1>9, <1>10 DEF TablesInv

LEMMA TablesInvNext == TablesInv /\ [NextOne]_allVars => TablesInv'
<1>. SUFFICES ASSUME TablesInv, [NextOne]_allVars PROVE TablesInv'
  OBVIOUS
<1>1. CASE structure = "key/value" /\ Next
  <2>1. PICK s \in Source : \/ \E r \in Record : InsertRecord(s, r)
                            \/ \E r \in sources[s], value \in Values : ReplaceRecord(s, r, value)
                            \/ \E r \in sources[s] : DeleteRecord(s, r)
    BY <1>1 DEF Next
  <2>2. CASE \E r \in Record : InsertRecord(s, r)
    BY <2>2, InsertKeepsTables
  <2>3. CASE \E r \in sources[s], value \in Values : ReplaceRecord(s, r, value)
    BY <2>3, ReplaceKeepsTables
  <2>4. CASE \E r \in sources[s] : DeleteRecord(s, r)
    BY <2>4, DeleteKeepsTables
  <2>. QED BY <2>1, <2>2, <2>3, <2>4
<1>2. CASE UNCHANGED vars
  BY <1>2 DEF TablesInv, vars
<1>. QED BY <1>1, <1>2 DEF NextOne, allVars

-----------------------------------------------------------------------------
LEMMA CarriedRecovers ==
    ASSUME TablesInv
    PROVE  RecoversEverySource
<1>1. SUFFICES ASSUME NEW missing \in Source
               PROVE  /\ SurvivorsMatch(table, missing, Survivors(missing))
                      /\ Recover(table, missing, Survivors(missing)) = sources[missing]
  BY DEF RecoversEverySource
<1>2. /\ DOMAIN Survivors(missing) = Source \ {missing}
      /\ \A s \in Source \ {missing} : Survivors(missing)[s] = sources[s]
  BY DEF Survivors
<1>. QED BY <1>2, RecoverTable DEF TablesInv

LEMMA DenseIsCompact ==
    ASSUME TablesInv
    PROVE  Compact
<1>1. ASSUME NEW b \in Bucket
      PROVE  /\ DOMAIN table.buckets[b] = 1 .. Len(table.buckets[b])
             /\ Len(table.buckets[b]) \in Nat
             /\ Dense(table.buckets[b])
  <2>1. table.buckets[b] \in Seq(Node)
    BY DEF TablesInv, TableInv
  <2>. QED BY <2>1 DEF TablesInv, TableDense
<1>2. ASSUME NEW b \in Bucket
      PROVE  /\ \A i \in DOMAIN table.buckets[b] : table.buckets[b][i].bits # {}
             /\ \A i \in 1 .. Len(table.buckets[b]) - 1 :
                   table.buckets[b][i].bits \cap table.buckets[b][i + 1].bits # {}
  <2>1. \A i \in 1 .. Len(table.buckets[b]) : table.buckets[b][i].bits # {}
    BY <1>1 DEF Dense
  <2>2. ASSUME NEW i \in 1 .. Len(table.buckets[b]) - 1
        PROVE  Meet(table.buckets[b], i, i + 1)
    <3>1. i \in 1 .. Len(table.buckets[b]) /\ i + 1 \in 1 .. Len(table.buckets[b])
      BY <1>1
    <3>. QED BY <1>1, <3>1 DEF Dense
  <2>. QED BY <1>1, <2>1, <2>2 DEF Meet
<1>. QED BY <1>2 DEF Compact

LEMMA TablesInvAlways == SpecOne => []TablesInv
<1>1. InitOne => TablesInv
  BY TablesInvInit DEF InitOne
<1>. QED BY <1>1, TablesInvNext, PTL DEF SpecOne

\* Whichever source of the key/value table is lost, Recover accepts the others
\* and returns exactly the records of the lost one: the ranks that the callers
\* pass always meet the node of the element, and no split or merge of nodes
\* mixes two elements of one source.
THEOREM TableRecovers == SpecOne => []RecoversEverySource
<1>1. TablesInv => RecoversEverySource
  BY CarriedRecovers
<1>. QED BY <1>1, TablesInvAlways, PTL

\* No bucket has an empty node, or two neighbours that could be one: where
\* Insert adds a node none was free, and mergeNodes goes far enough both ways.
THEOREM TableCompact == SpecOne => []Compact
<1>1. TablesInv => Compact
  BY DenseIsCompact
<1>. QED BY <1>1, TablesInvAlways, PTL

-----------------------------------------------------------------------------
(* The loop of rebuildFusion                                               *)

\* Pairs that the loop meets in one order: no two of them come at once.
Queued(S) ==
    /\ IsFiniteSet(S)
    /\ \A p \in S : p[1] \in Source /\ p[2] \in Element
    /\ \A p, q \in S : p[1] = q[1] /\ p[2].key = q[2].key => p = q

LEMMA ComesOrders ==
    ASSUME NEW S, Queued(S), NEW p \in S, NEW q \in S, p # q
    PROVE  /\ Comes(p, q) \/ Comes(q, p)
           /\ ~(Comes(p, q) /\ Comes(q, p))
           /\ \A r \in S : Comes(p, q) /\ Comes(q, r) => Comes(p, r)
<1>1. \A x \in S : x[1] \in Nat /\ x[2].key \in Nat /\ BucketOf(x[2].key) \in Nat
  <2>1. \A x \in S : x[1] \in Source /\ x[2].key \in Word
    BY DEF Queued, Element
  <2>2. Source \subseteq Nat /\ Bucket \subseteq Nat
    BY SourceAssumption, TableAssumption DEF Source, Bucket
  <2>. QED BY <2>1, <2>2, WordIsNat, BucketTyped
<1>2. ~(p[1] = q[1] /\ p[2].key = q[2].key)
  BY DEF Queued
<1>3. Comes(p, q) \/ Comes(q, p)
  BY <1>1, <1>2 DEF Comes
<1>4. ~(Comes(p, q) /\ Comes(q, p))
  BY <1>1 DEF Comes
<1>5. ASSUME NEW r \in S, Comes(p, q), Comes(q, r) PROVE Comes(p, r)
  BY <1>1, <1>5 DEF Comes
<1>. QED BY <1>3, <1>4, <1>5

\* Some pair comes last.
LEMMA LastComes ==
    ASSUME NEW S, Queued(S), S # {}
    PROVE  LastOf(S) \in S /\ \A q \in S \ {LastOf(S)} : Comes(q, LastOf(S))
<1>. DEFINE B == {T \in SUBSET S : T # {} /\ ~\E p \in T : \A q \in T \ {p} : Comes(q, p)}
<1>1. SUFFICES ASSUME B # {} PROVE FALSE
  <2>1. S \notin B
    BY <1>1
  <2>2. \E p \in S : \A q \in S \ {p} : Comes(q, p)
    BY <2>1
  <2>. QED BY <2>2 DEF LastOf
<1>2. PICK T \in B : \A U \in B : U \subseteq T => U = T
  <2>1. B \subseteq SUBSET S /\ IsFiniteSet(S)
    BY DEF Queued
  <2>. HIDE DEF B
  <2>. QED BY <1>1, <2>1, SmallestSet
<1>3. PICK x \in T : TRUE
  OBVIOUS
<1>4. T \ {x} \notin B /\ T \ {x} \in SUBSET S /\ T \subseteq S /\ x \in S
  BY <1>2, <1>3
<1>5. CASE T \ {x} = {}
  <2>1. \A q \in T \ {x} : Comes(q, x)
    BY <1>5
  <2>. QED BY <1>2, <1>3, <2>1
<1>6. CASE T \ {x} # {}
  <2>1. PICK p \in T \ {x} : \A q \in (T \ {x}) \ {p} : Comes(q, p)
    BY <1>4, <1>6
  <2>2. p \in S /\ p # x
    BY <1>4, <2>1
  <2>3. CASE Comes(x, p)
    <3>1. \A q \in T \ {p} : Comes(q, p)
      BY <2>1, <2>3
    <3>. QED BY <1>2, <2>1, <3>1
  <2>4. CASE Comes(p, x)
    <3>1. ASSUME NEW q \in T \ {x} PROVE Comes(q, x)
      <4>1. CASE q = p
        BY <2>4, <4>1
      <4>2. CASE q # p
        <5>1. Comes(q, p) /\ q \in S
          BY <1>4, <2>1, <4>2
        <5>. QED BY <1>4, <2>2, <2>4, <4>2, <5>1, ComesOrders
      <4>. QED BY <4>1, <4>2
    <3>. QED BY <1>2, <1>3, <3>1
  <2>. QED BY <1>4, <2>2, <2>3, <2>4, ComesOrders
<1>. QED BY <1>5, <1>6

\* g is the recursive function inside InsertAll, on the sets D or on all.
LoopOn(D, g) ==
    g = [T \in D |-> IF T = {} THEN EmptyTable ELSE InsertNext(LastOf(T), g[T \ {LastOf(T)}])]

LEMMA QueuedParts ==
    ASSUME NEW S, Queued(S), NEW T \in SUBSET S
    PROVE  Queued(T)
BY FS_Subset DEF Queued

LEMMA LoopExists ==
    ASSUME NEW S, Queued(S)
    PROVE  \E g : LoopOn(SUBSET S, g)
<1>. DEFINE D(n) == {T \in SUBSET S : Cardinality(T) <= n}
            N == {n \in Nat : \E g : LoopOn(D(n), g)}
<1>1. \A T \in SUBSET S : /\ IsFiniteSet(T) /\ Cardinality(T) \in Nat
                          /\ Cardinality(T) <= Cardinality(S)
                          /\ T # {} => LastOf(T) \in T
  BY FS_Subset, FS_CardinalityType, QueuedParts, LastComes DEF Queued
<1>2. 0 \in N
  <2>. DEFINE g == [T \in D(0) |-> EmptyTable]
  <2>1. \A T \in D(0) : T = {}
    BY <1>1, FS_EmptySet
  <2>2. g = [T \in D(0) |-> IF T = {} THEN EmptyTable ELSE InsertNext(LastOf(T), g[T \ {LastOf(T)}])]
    BY <2>1
  <2>. QED BY <2>2 DEF LoopOn
<1>3. ASSUME NEW n \in Nat, n \in N PROVE n + 1 \in N
  <2>1. PICK g : LoopOn(D(n), g)
    BY <1>3
  <2>. DEFINE h == [T \in D(n + 1) |-> IF T = {} THEN EmptyTable
                                       ELSE InsertNext(LastOf(T), g[T \ {LastOf(T)}])]
  <2>2. \A T \in D(n + 1) : T # {} => T \ {LastOf(T)} \in D(n)
    BY <1>1, FS_RemoveElement
  <2>3. \A T \in D(n) : T \in D(n + 1) /\ h[T] = g[T]
    <3>1. \A T \in D(n) : T \in D(n + 1)
      BY <1>1
    <3>2. \A T \in D(n) : g[T] = IF T = {} THEN EmptyTable
                                 ELSE InsertNext(LastOf(T), g[T \ {LastOf(T)}])
      BY <2>1 DEF LoopOn
    <3>. QED BY <3>1, <3>2
  <2>4. h = [T \in D(n + 1) |-> IF T = {} THEN EmptyTable
                                ELSE InsertNext(LastOf(T), h[T \ {LastOf(T)}])]
    <3>. HIDE DEF h, D
    <3>1. \A T \in D(n + 1) : T # {} => h[T \ {LastOf(T)}] = g[T \ {LastOf(T)}]
      BY <2>2, <2>3
    <3>2. h = [T \in D(n + 1) |-> IF T = {} THEN EmptyTable
                                  ELSE InsertNext(LastOf(T), g[T \ {LastOf(T)}])]
      BY DEF h
    <3>. QED BY <3>1, <3>2
  <2>5. LoopOn(D(n + 1), h)
    BY <2>4 DEF LoopOn
  <2>. HIDE DEF h, D
  <2>. QED BY <2>5 DEF N
<1>4. Cardinality(S) \in N
  <2>. HIDE DEF N
  <2>. QED BY <1>1, <1>2, <1>3, SetInduction
<1>5. D(Cardinality(S)) = SUBSET S
  BY <1>1
<1>. HIDE DEF D
<1>. QED BY <1>4, <1>5 DEF N

\* The records of the pairs, source by source.
RecordsOf(T) == [s \in Source |-> {p[2] : p \in {q \in T : q[1] = s}}]

\* A pair that comes after the others adds its record, whose key is the largest
\* in its bucket.
LEMMA LastAdds ==
    ASSUME NEW T, Queued(T), T # {}
    PROVE  LET p == LastOf(T)
               own == RecordsOf(T \ {p})
               F == RecordsOf(T)
           IN  /\ p[1] \in Source /\ p[2].key \in Word /\ p[2].value \in Word
               /\ Adds(F, own, p[1], [key |-> p[2].key, value |-> p[2].value])
               /\ \A q \in own[p[1]] : BucketOf(q.key) = BucketOf(p[2].key) => q.key < p[2].key
<1>. DEFINE F == RecordsOf(T)
<1>1. PICK p : p = LastOf(T)
  OBVIOUS
<1>2. p \in T /\ \A q \in T \ {p} : Comes(q, p)
  BY <1>1, LastComes
<1>3. PICK own : own = RecordsOf(T \ {p})
  OBVIOUS
<1>4. /\ p[1] \in Source /\ p[2] \in Element /\ p[2].key \in Word /\ p[2].value \in Word
      /\ p[2] = [key |-> p[2].key, value |-> p[2].value]
  BY <1>2 DEF Queued, Element
<1>5. /\ F[p[1]] = own[p[1]] \cup {p[2]}
      /\ \A t \in Source \ {p[1]} : F[t] = own[t]
  <2>1. F[p[1]] = own[p[1]] \cup {p[2]}
    BY <1>2, <1>3, <1>4 DEF RecordsOf
  <2>2. ASSUME NEW t \in Source \ {p[1]} PROVE F[t] = own[t]
    <3>1. {q \in T : q[1] = t} = {q \in T \ {p} : q[1] = t}
      OBVIOUS
    <3>. QED BY <1>3, <3>1 DEF RecordsOf
  <2>. QED BY <2>1, <2>2
<1>6. ASSUME NEW r \in own[p[1]], BucketOf(r.key) = BucketOf(p[2].key) PROVE r.key < p[2].key
  <2>1. PICK q \in T \ {p} : q[1] = p[1] /\ q[2] = r
    BY <1>3, <1>4 DEF RecordsOf
  <2>2. Comes(q, p)
    BY <1>2, <2>1
  <2>3. p[1] \in Nat /\ BucketOf(r.key) \in Nat
    <3>1. Source \subseteq Nat /\ Bucket \subseteq Nat
      BY SourceAssumption, TableAssumption DEF Source, Bucket
    <3>. QED BY <1>4, <1>6, <3>1, BucketTyped
  <2>. QED BY <1>6, <2>1, <2>2, <2>3 DEF Comes
<1>7. Adds(F, own, p[1], [key |-> p[2].key, value |-> p[2].value])
  BY <1>4, <1>5 DEF Adds
<1>. QED BY <1>1, <1>3, <1>4, <1>6, <1>7

LEMMA RecordsShared ==
    ASSUME NEW T, Queued(T)
    PROVE  Shares(RecordsOf(T))
<1>1. SUFFICES ASSUME NEW s \in Source PROVE Keyed(RecordsOf(T)[s])
  BY DEF Shares
<1>. DEFINE P == {q \in T : q[1] = s}
            R == {p[2] : p \in P}
            f == [p \in P |-> p[2]]
<1>2. IsFiniteSet(P)
  BY FS_Subset DEF Queued
<1>3. f \in Surjection(P, R)
  BY DEF Surjection
<1>4. IsFiniteSet(R)
  <2>. HIDE DEF f, P, R
  <2>. QED BY <1>2, <1>3, FS_Surjection
<1>5. RecordsOf(T)[s] = R
  BY DEF RecordsOf
<1>6. \A r \in R : r \in Element
  BY DEF Queued
<1>7. \A q, r \in R : q.key = r.key => q = r
  BY DEF Queued
<1>. HIDE DEF R
<1>. QED BY <1>4, <1>5, <1>6, <1>7 DEF Keyed

\* The loop over any of the pairs makes the table rebuilt of their records.
LEMMA LoopRebuilds ==
    ASSUME NEW S, Queued(S), NEW g, LoopOn(SUBSET S, g)
    PROVE  g[S] = Rebuild(RecordsOf(S))
<1>. DEFINE B == {T \in SUBSET S : g[T] # Rebuild(RecordsOf(T))}
<1>1. SUFFICES ASSUME B # {} PROVE FALSE
  OBVIOUS
<1>2. PICK T \in B : \A U \in B : U \subseteq T => U = T
  <2>1. B \subseteq SUBSET S /\ IsFiniteSet(S)
    BY DEF Queued
  <2>. HIDE DEF B
  <2>. QED BY <1>1, <2>1, SmallestSet
<1>3. /\ T \in SUBSET S /\ g[T] # Rebuild(RecordsOf(T)) /\ Queued(T)
      /\ g[T] = IF T = {} THEN EmptyTable ELSE InsertNext(LastOf(T), g[T \ {LastOf(T)}])
  BY <1>2, QueuedParts DEF LoopOn
<1>4. CASE T = {}
  <2>1. \A s \in Source : RecordsOf(T)[s] = {}
    BY <1>4 DEF RecordsOf
  <2>2. Rebuild(RecordsOf(T)) = EmptyTable
    BY <2>1, RebuildNothing
  <2>. QED BY <1>3, <1>4, <2>2
<1>5. CASE T # {}
  <2>1. PICK p : p = LastOf(T)
    OBVIOUS
  <2>2. p \in T /\ T \ {p} \in SUBSET S /\ T \ {p} \notin B
    BY <1>2, <1>3, <1>5, <2>1, LastComes
  <2>3. g[T \ {p}] = Rebuild(RecordsOf(T \ {p}))
    BY <2>2
  <2>4. PICK own, F : own = RecordsOf(T \ {p}) /\ F = RecordsOf(T)
    OBVIOUS
  <2>5. Shares(own) /\ Shares(F)
    BY <1>3, <2>2, <2>4, RecordsShared, QueuedParts
  <2>6. PICK s, k, v : s = p[1] /\ k = p[2].key /\ v = p[2].value
    OBVIOUS
  <2>7. /\ s \in Source /\ k \in Word /\ v \in Word
        /\ Adds(F, own, s, [key |-> k, value |-> v])
        /\ \A q \in own[s] : BucketOf(q.key) = BucketOf(k) => q.key < k
    BY <1>3, <1>5, <2>1, <2>4, <2>6, LastAdds
  <2>8. Insert(Rebuild(own), s, Rebuild(own).sizes[s][BucketOf(k)], k, v) = Rebuild(F)
    BY <2>5, <2>7, InsertRebuilds
  <2>9. g[T] = InsertNext(p, Rebuild(own))
    BY <1>3, <1>5, <2>1, <2>3, <2>4
  <2>10. InsertNext(p, Rebuild(own)) = Rebuild(F)
    BY <2>6, <2>8 DEF InsertNext, RebuildIndex
  <2>. QED BY <1>3, <2>4, <2>9, <2>10
<1>. QED BY <1>4, <1>5

LEMMA InsertAllRebuilds ==
    ASSUME NEW own, DOMAIN own = Source, Shares(own)
    PROVE  InsertAll(own) = Rebuild(own)
<1>. DEFINE S == Pairs(own)
            G == CHOOSE h : h = [T \in SUBSET S |->
                        IF T = {} THEN EmptyTable
                        ELSE InsertNext(LastOf(T), h[T \ {LastOf(T)}])]
<1>1. Queued(S)
  <2>1. IsFiniteSet(S)
    <3>1. \A s \in Source : IsFiniteSet({s} \X own[s])
      BY FS_Product, FS_Singleton DEF Shares, Keyed
    <3>. DEFINE f == [s \in Source |-> {s} \X own[s]]
                A == {{s} \X own[s] : s \in Source}
    <3>2. f \in Surjection(Source, A)
      BY DEF Surjection
    <3>3. IsFiniteSet(A)
      <4>. HIDE DEF f, A
      <4>. QED BY <3>2, SomeSources, FS_Surjection
    <3>4. \A X \in A : IsFiniteSet(X)
      BY <3>1
    <3>5. S = UNION A
      BY DEF Pairs
    <3>. HIDE DEF A, S
    <3>. QED BY <3>3, <3>4, <3>5, FS_UNION
  <2>2. \A p \in S : p[1] \in Source /\ p[2] \in own[p[1]] /\ p = <<p[1], p[2]>>
    BY DEF Pairs
  <2>. HIDE DEF S
  <2>3. \A p \in S : p[2] \in Element
    BY <2>2 DEF Shares, Keyed
  <2>4. ASSUME NEW p \in S, NEW q \in S, p[1] = q[1], p[2].key = q[2].key PROVE p = q
    <3>1. p[2] = q[2]
      BY <2>2, <2>4 DEF Shares, Keyed
    <3>. QED BY <2>2, <2>4, <3>1
  <2>. QED BY <2>1, <2>2, <2>3, <2>4 DEF Queued
<1>2. InsertAll(own) = G[S]
  BY DEF InsertAll, MapThenFoldSet
<1>3. LoopOn(SUBSET S, G)
  <2>1. \E g : LoopOn(SUBSET S, g)
    BY <1>1, LoopExists
  <2>. QED BY <2>1 DEF LoopOn
<1>. HIDE DEF G
<1>4. G[S] = Rebuild(RecordsOf(S))
  BY <1>1, <1>3, LoopRebuilds
<1>5. RecordsOf(S) = [s \in Source |-> own[s]]
  <2>1. ASSUME NEW s \in Source PROVE {p[2] : p \in {q \in S : q[1] = s}} = own[s]
    <3>1. \A p \in S : p[2] \in own[p[1]]
      BY DEF Pairs
    <3>2. \A r \in own[s] : <<s, r>> \in S /\ <<s, r>>[1] = s /\ <<s, r>>[2] = r
      BY DEF Pairs
    <3>. HIDE DEF S
    <3>3. \A x \in {p[2] : p \in {q \in S : q[1] = s}} : x \in own[s]
      BY <3>1
    <3>4. \A r \in own[s] : r \in {p[2] : p \in {q \in S : q[1] = s}}
      BY <3>2
    <3>. QED BY <3>3, <3>4
  <2>. HIDE DEF S
  <2>. QED BY <2>1 DEF RecordsOf
<1>6. Rebuild([s \in Source |-> own[s]]) = Rebuild(own)
  BY DEF Rebuild
<1>. QED BY <1>2, <1>4, <1>5, <1>6

\* The loop makes the aligned table, which carries the records of all.
LEMMA LoopRecovers ==
    ASSUME TablesInv
    PROVE  RebuildRecovers
<1>1. InsertAll(sources) = Rebuild(sources)
  BY InsertAllRebuilds DEF TablesInv
<1>2. TableInv(Rebuild(sources), sources) /\ Shares(sources)
  BY RebuildTable DEF TablesInv
<1>3. ASSUME NEW missing \in Source
      PROVE  /\ SurvivorsMatch(Rebuild(sources), missing, Survivors(missing))
             /\ Recover(Rebuild(sources), missing, Survivors(missing)) = sources[missing]
  <2>1. /\ DOMAIN Survivors(missing) = Source \ {missing}
        /\ \A s \in Source \ {missing} : Survivors(missing)[s] = sources[s]
    BY DEF Survivors
  <2>. QED BY <1>2, <2>1, RecoverTable
<1>. QED BY <1>1, <1>3 DEF RebuildRecovers

\* Whatever the sources hold, the loop of rebuildFusion, which inserts their
\* records source by source at indices it counts itself, makes the table in
\* which the n-th node holds the n-th records, and whichever source is then
\* lost, that table recovers it.
THEOREM RebuildAlwaysRecovers == SpecOne => []RebuildRecovers
<1>1. TablesInv => RebuildRecovers
  BY LoopRecovers
<1>. QED BY <1>1, TablesInvAlways, PTL

-----------------------------------------------------------------------------
(* The members of a set in ascending order                                 *)

Sorts(q, S) ==
    /\ q \in Seq(Word) /\ Ascending(q) /\ Distinct(q)
    /\ \A w : w \in S <=> \E i \in 1 .. Len(q) : q[i] = w

Climbs(p) == \A i, j \in DOMAIN p : i < j => p[i] < p[j]

Smaller(S, x) == {w \in S : w < x}

\* An element comes after as many as are less.
LEMMA ClimbRank ==
    ASSUME NEW n \in Nat, NEW S \in SUBSET Nat, NEW p \in [1 .. n -> S], Climbs(p),
           \A w \in S : \E i \in 1 .. n : p[i] = w, NEW i \in 1 .. n
    PROVE  Cardinality(Smaller(S, p[i])) = i - 1
<1>. DEFINE T == {w \in S : w < p[i]}
            D == 1 .. i - 1
            f == [j \in D |-> p[j]]
<1>. PICK d : d = i - 1
  OBVIOUS
<1>1. d \in Nat /\ D = 1 .. d /\ \A j \in D : j \in 1 .. n /\ j < i
  OBVIOUS
<1>2. DOMAIN p = 1 .. n /\ \A j \in 1 .. n : p[j] \in Nat /\ p[j] \in S
  OBVIOUS
<1>3. ASSUME NEW j \in D PROVE p[j] \in T
  BY <1>1, <1>2 DEF Climbs
<1>4. ASSUME NEW w \in T PROVE \E j \in D : p[j] = w
  <2>1. PICK j \in 1 .. n : p[j] = w
    OBVIOUS
  <2>2. ~(i < j) /\ i # j
    BY <1>2, <2>1 DEF Climbs
  <2>3. j \in D
    BY <2>2
  <2>. QED BY <2>1, <2>3
<1>5. ASSUME NEW j \in D, NEW k \in D, p[j] = p[k] PROVE j = k
  <2>1. ~(j < k) /\ ~(k < j)
    BY <1>1, <1>2, <1>5 DEF Climbs
  <2>. QED BY <2>1
<1>6. f \in Bijection(D, T)
  <2>1. f \in [D -> T] /\ \A w \in T : \E j \in D : f[j] = w
    BY <1>3, <1>4
  <2>2. ASSUME NEW j \in D, NEW k \in D, f[j] = f[k] PROVE j = k
    BY <1>5, <2>2
  <2>3. DOMAIN f = D
    OBVIOUS
  <2>. HIDE DEF f, D, T
  <2>4. f \in Surjection(D, T)
    BY <2>1 DEF Surjection
  <2>5. f \in Injection(D, T)
    BY <2>1, <2>2, <2>3 DEF Injection, IsInjective
  <2>. QED BY <2>4, <2>5 DEF Bijection
<1>7. IsFiniteSet(D) /\ Cardinality(D) = d
  BY <1>1, CountTo
<1>8. Cardinality(T) = d
  <2>. HIDE DEF f, D, T
  <2>1. ExistsBijection(D, T)
    BY <1>6 DEF ExistsBijection
  <2>. QED BY <1>7, <2>1, FS_Bijection
<1>. QED BY <1>8 DEF Smaller

\* As many members as the sequence is long.
LEMMA SortsCount ==
    ASSUME NEW q, NEW S, Sorts(q, S)
    PROVE  /\ S \in SUBSET Nat /\ Len(q) \in Nat /\ IsFiniteSet(S) /\ Cardinality(S) = Len(q)
           /\ q \in [1 .. Len(q) -> S] /\ Climbs(q)
<1>. DEFINE D == 1 .. Len(q)
<1>1. /\ q \in Seq(Word) /\ Ascending(q) /\ Distinct(q) /\ Len(q) \in Nat /\ DOMAIN q = D
      /\ \A w : w \in S <=> \E i \in D : q[i] = w
  BY DEF Sorts
<1>2. \A i \in D : q[i] \in Nat
  <2>1. \A i \in D : q[i] \in Word
    BY <1>1
  <2>. QED BY <2>1, XorAssumption
<1>3. S \in SUBSET Nat
  BY <1>1, <1>2
<1>4. q \in [D -> S]
  BY <1>1
<1>5. ASSUME NEW i \in D, NEW j \in D, i < j PROVE q[i] < q[j]
  <2>1. q[i] <= q[j] /\ q[i] # q[j]
    BY <1>1, <1>5 DEF Ascending, Distinct
  <2>. QED BY <1>2, <2>1
<1>6. q \in Bijection(D, S)
  <2>1. \A w \in S : \E i \in D : q[i] = w
    BY <1>1
  <2>2. \A i, j \in D : q[i] = q[j] => i = j
    BY <1>1 DEF Distinct
  <2>. HIDE DEF D
  <2>3. q \in Surjection(D, S)
    BY <1>4, <2>1 DEF Surjection
  <2>4. q \in Injection(D, S)
    BY <1>1, <1>4, <2>2 DEF Injection, IsInjective
  <2>. QED BY <2>3, <2>4 DEF Bijection
<1>7. IsFiniteSet(D) /\ Cardinality(D) = Len(q)
  BY <1>1, CountTo
<1>8. IsFiniteSet(S) /\ Cardinality(S) = Len(q)
  <2>. HIDE DEF D
  <2>1. ExistsBijection(D, S)
    BY <1>6 DEF ExistsBijection
  <2>. QED BY <1>7, <2>1, FS_Bijection
<1>9. Climbs(q)
  BY <1>1, <1>5 DEF Climbs
<1>. QED BY <1>1, <1>3, <1>4, <1>8, <1>9

\* A climb through as many members as there are meets all of them.
LEMMA ClimbMeetsAll ==
    ASSUME NEW n \in Nat, NEW S \in SUBSET Nat, IsFiniteSet(S), Cardinality(S) = n,
           NEW p \in [1 .. n -> S], Climbs(p)
    PROVE  \A w \in S : \E i \in 1 .. n : p[i] = w
<1>. DEFINE D == 1 .. n
            T == {p[i] : i \in D}
<1>1. T \in SUBSET S
  OBVIOUS
<1>2. ASSUME NEW i \in D, NEW j \in D, p[i] = p[j] PROVE i = j
  <2>1. p[i] \in Nat /\ p[j] \in Nat /\ DOMAIN p = D
    OBVIOUS
  <2>2. ~(i < j) /\ ~(j < i)
    BY <1>2, <2>1 DEF Climbs
  <2>. QED BY <2>2
<1>3. p \in Bijection(D, T)
  <2>1. p \in [D -> T] /\ \A w \in T : \E i \in D : p[i] = w
    OBVIOUS
  <2>2. DOMAIN p = D
    OBVIOUS
  <2>. HIDE DEF D, T
  <2>3. p \in Surjection(D, T)
    BY <2>1 DEF Surjection
  <2>4. p \in Injection(D, T)
    BY <1>2, <2>1, <2>2 DEF Injection, IsInjective
  <2>. QED BY <2>3, <2>4 DEF Bijection
<1>4. IsFiniteSet(D) /\ Cardinality(D) = n
  BY CountTo
<1>5. Cardinality(T) = n
  <2>. HIDE DEF D, T
  <2>1. ExistsBijection(D, T)
    BY <1>3 DEF ExistsBijection
  <2>. QED BY <1>4, <2>1, FS_Bijection
<1>6. T = S
  <2>. HIDE DEF T
  <2>. QED BY <1>1, <1>5, FS_Subset
<1>. QED BY <1>6

\* There is one such sequence only.
LEMMA ClimbsOnce ==
    ASSUME NEW n \in Nat, NEW S \in SUBSET Nat, IsFiniteSet(S), Cardinality(S) = n,
           NEW p \in [1 .. n -> S], Climbs(p), NEW q \in [1 .. n -> S], Climbs(q)
    PROVE  p = q
<1>1. \A w \in S : \E i \in 1 .. n : p[i] = w
  BY ClimbMeetsAll
<1>2. \A w \in S : \E i \in 1 .. n : q[i] = w
  BY ClimbMeetsAll
<1>3. \A i \in 1 .. n : Cardinality(Smaller(S, p[i])) = i - 1
  BY <1>1, ClimbRank
<1>4. \A i \in 1 .. n : Cardinality(Smaller(S, q[i])) = i - 1
  BY <1>2, ClimbRank
<1>5. ASSUME NEW i \in 1 .. n PROVE p[i] = q[i]
  <2>1. PICK j \in 1 .. n : q[j] = p[i]
    BY <1>2
  <2>2. i - 1 = j - 1
    BY <1>3, <1>4, <2>1
  <2>. QED BY <2>1, <2>2
<1>. QED BY <1>5

LEMMA SortsUnique ==
    ASSUME NEW q, NEW S, Sorts(q, S)
    PROVE  (CHOOSE p \in [1 .. Cardinality(S) -> S] : Climbs(p)) = q
<1>. PICK n : n = Cardinality(S)
  OBVIOUS
<1>1. /\ S \in SUBSET Nat /\ n \in Nat /\ IsFiniteSet(S)
      /\ q \in [1 .. n -> S] /\ Climbs(q)
  BY SortsCount
<1>2. \A p \in [1 .. n -> S] : Climbs(p) => p = q
  BY <1>1, ClimbsOnce
<1>. QED BY <1>1, <1>2

\* What InsertAt and RemoveAt leave in a sequence.
LEMMA InsertAtHas ==
    ASSUME NEW q \in Seq(Word), NEW c \in 1 .. Len(q) + 1, NEW w \in Word
    PROVE  LET p == InsertAt(q, c, w)
           IN  /\ p \in Seq(Word)
               /\ \A x : (\E j \in 1 .. Len(p) : p[j] = x)
                            <=> (x = w \/ \E i \in 1 .. Len(q) : q[i] = x)
<1>. DEFINE p == InsertAt(q, c, w)
<1>1. /\ p \in Seq(Word) /\ Len(p) = Len(q) + 1 /\ Len(q) \in Nat
      /\ \A j \in 1 .. Len(q) + 1 : p[j] = IF j < c THEN q[j] ELSE IF j = c THEN w ELSE q[j - 1]
  <2>1. p \in Seq(Word)
    BY InsertAtIs
  <2>2. /\ Len(p) = Len(q) + 1
        /\ \A j \in 1 .. Len(q) + 1 : p[j] = IF j < c THEN q[j] ELSE IF j = c THEN w ELSE q[j - 1]
    BY InsertAtIs
  <2>3. Len(q) \in Nat
    OBVIOUS
  <2>. HIDE DEF p
  <2>. QED BY <2>1, <2>2, <2>3
<1>. HIDE DEF p
<1>2. ASSUME NEW i \in 1 .. Len(q) PROVE \E j \in 1 .. Len(p) : p[j] = q[i]
  <2>1. CASE i < c
    <3>1. i \in 1 .. Len(p) /\ i \in 1 .. Len(q) + 1
      BY <1>1
    <3>2. p[i] = q[i]
      BY <1>1, <2>1, <3>1
    <3>. QED BY <3>1, <3>2
  <2>2. CASE ~(i < c)
    <3>. PICK j \in 1 .. Len(q) + 1 : j = i + 1
      BY <1>1
    <3>1. ~(j < c) /\ j # c /\ j - 1 = i
      BY <2>2
    <3>. QED BY <1>1, <3>1
  <2>. QED BY <2>1, <2>2
<1>3. c \in 1 .. Len(p) /\ p[c] = w
  BY <1>1
<1>4. ASSUME NEW j \in 1 .. Len(p) PROVE p[j] = w \/ \E i \in 1 .. Len(q) : p[j] = q[i]
  <2>1. CASE j < c
    BY <1>1, <2>1
  <2>2. CASE j = c
    BY <1>3, <2>2
  <2>3. CASE j > c
    <3>. PICK i : i = j - 1
      OBVIOUS
    <3>1. i \in 1 .. Len(q) /\ ~(j < c) /\ j # c /\ j \in 1 .. Len(q) + 1
      BY <1>1, <2>3
    <3>. QED BY <1>1, <3>1
  <2>4. j \in Nat /\ c \in Nat
    BY <1>1
  <2>. QED BY <2>1, <2>2, <2>3, <2>4
<1>. QED BY <1>1, <1>2, <1>3, <1>4 DEF p

LEMMA RemoveAtHas ==
    ASSUME NEW q \in Seq(Word), Distinct(q), NEW c \in 1 .. Len(q)
    PROVE  LET p == RemoveAt(q, c)
           IN  /\ p \in Seq(Word)
               /\ \A x : (\E j \in 1 .. Len(p) : p[j] = x)
                            <=> (x # q[c] /\ \E i \in 1 .. Len(q) : q[i] = x)
<1>. DEFINE p == RemoveAt(q, c)
<1>1. /\ p \in Seq(Word) /\ Len(p) = Len(q) - 1 /\ Len(q) \in Nat
      /\ \A j \in 1 .. Len(q) - 1 : p[j] = IF j < c THEN q[j] ELSE q[j + 1]
  BY RemoveAtIs
<1>. HIDE DEF p
<1>2. ASSUME NEW i \in 1 .. Len(q), i # c PROVE \E j \in 1 .. Len(p) : p[j] = q[i]
  <2>1. CASE i < c
    BY <1>1, <2>1
  <2>2. CASE i > c
    <3>. PICK j : j = i - 1
      OBVIOUS
    <3>1. j \in 1 .. Len(q) - 1 /\ ~(j < c) /\ j + 1 = i
      BY <1>1, <2>2
    <3>. QED BY <1>1, <3>1
  <2>. QED BY <1>2, <2>1, <2>2
<1>3. ASSUME NEW j \in 1 .. Len(p) PROVE \E i \in 1 .. Len(q) : p[j] = q[i] /\ i # c
  <2>0. j \in 1 .. Len(q) - 1
    BY <1>1
  <2>1. CASE j < c
    BY <1>1, <2>0, <2>1
  <2>2. CASE ~(j < c)
    <3>. PICK i : i = j + 1
      OBVIOUS
    <3>1. i \in 1 .. Len(q) /\ i # c
      BY <1>1, <2>0, <2>2
    <3>2. p[j] = q[i]
      BY <1>1, <2>0, <2>2
    <3>. QED BY <3>1, <3>2
  <2>. QED BY <2>1, <2>2
<1>4. \A i \in 1 .. Len(q) : q[i] = q[c] => i = c
  BY DEF Distinct
<1>5. ASSUME NEW x
      PROVE  (\E j \in 1 .. Len(p) : p[j] = x) <=> (x # q[c] /\ \E i \in 1 .. Len(q) : q[i] = x)
  <2>1. ASSUME NEW j \in 1 .. Len(p), p[j] = x PROVE x # q[c] /\ \E i \in 1 .. Len(q) : q[i] = x
    BY <1>3, <1>4, <2>1
  <2>2. ASSUME NEW i \in 1 .. Len(q), q[i] = x, x # q[c] PROVE \E j \in 1 .. Len(p) : p[j] = x
    BY <1>2, <2>2
  <2>. QED BY <2>1, <2>2
<1>. QED BY <1>1, <1>5 DEF p

\* A list with its source s changed to the members of S.
Changed(new, list, s, S) ==
    /\ ListInv(new) /\ Sorts(new.sources[s], S)
    /\ \A t \in Source \ {s} : new.sources[t] = list.sources[t]

\* A word goes in where the search for it ends.
LEMMA SortsInsert ==
    ASSUME NEW list, ListInv(list), NEW s \in Source, NEW S, Sorts(list.sources[s], S),
           NEW w \in Word, w \notin S
    PROVE  Changed(InsertValue(list, s, Search(list.sources[s], w), w), list, s, S \cup {w})
<1>. PICK q \in Seq(Word) : q = list.sources[s]
  BY DEF Sorts
<1>. PICK m : m = Search(q, w)
  OBVIOUS
<1>. PICK new : new = InsertValue(list, s, m, w)
  OBVIOUS
<1>1. Ascending(q) /\ Distinct(q) /\ \A x : x \in S <=> \E i \in 1 .. Len(q) : q[i] = x
  BY DEF Sorts
<1>2. m + 1 \in 1 .. Len(q) + 1 /\ Ascending(InsertAt(q, m + 1, w))
  BY <1>1, InsertKeepsOrder
<1>3. m \in 0 .. Len(q)
  BY <1>1, SearchIs
<1>4. ListInv(new) /\ new.sources = [list.sources EXCEPT ![s] = InsertAt(@, m + 1, w)]
  BY <1>3, InsertKeepsList
<1>. PICK c \in 1 .. Len(q) + 1 : c = m + 1
  BY <1>2
<1>. DEFINE p == InsertAt(q, c, w)
<1>5. /\ p \in Seq(Word)
      /\ \A x : (\E j \in 1 .. Len(p) : p[j] = x) <=> (x = w \/ \E i \in 1 .. Len(q) : q[i] = x)
  BY Zenon, InsertAtHas
<1>6. Distinct(p)
  <2>1. \A i \in 1 .. Len(q) : q[i] # w
    BY <1>1
  <2>. QED BY <1>1, <2>1, InsertKeepsDistinct
<1>7. \A x : x \in S \cup {w} <=> \E j \in 1 .. Len(p) : p[j] = x
  BY <1>1, <1>5
<1>8. Sorts(p, S \cup {w})
  BY <1>2, <1>5, <1>6, <1>7 DEF Sorts
<1>9. new.sources[s] = p /\ \A t \in Source \ {s} : new.sources[t] = list.sources[t]
  <2>1. list.sources \in [Source -> Seq(Word)]
    BY DEF ListInv
  <2>. QED BY <1>4, <2>1
<1>. QED BY <1>4, <1>8, <1>9 DEF Changed

\* A word that is there is found, and no other is deleted.
LEMMA SortsDelete ==
    ASSUME NEW list, ListInv(list), NEW s \in Source, NEW S, Sorts(list.sources[s], S),
           NEW w \in S
    PROVE  /\ Search(list.sources[s], w) < Len(list.sources[s])
           /\ Changed(DeleteValue(list, s, Search(list.sources[s], w)), list, s, S \ {w})
<1>. PICK q \in Seq(Word) : q = list.sources[s]
  BY DEF Sorts
<1>1. Ascending(q) /\ Distinct(q) /\ \A x : x \in S <=> \E i \in 1 .. Len(q) : q[i] = x
  BY DEF Sorts
<1>. PICK c \in 1 .. Len(q) : q[c] = w
  BY <1>1
<1>. PICK m : m = Search(q, w)
  OBVIOUS
<1>2. m = c - 1
  BY <1>1, SearchFinds
<1>3. m \in 0 .. Len(q) - 1 /\ m < Len(q) /\ m + 1 = c
  BY <1>2
<1>. PICK new : new = DeleteValue(list, s, m)
  OBVIOUS
<1>4. ListInv(new) /\ new.sources = [list.sources EXCEPT ![s] = RemoveAt(@, m + 1)]
  BY <1>3, DeleteKeepsList
<1>. DEFINE p == RemoveAt(q, c)
<1>5. /\ p \in Seq(Word)
      /\ \A x : (\E j \in 1 .. Len(p) : p[j] = x) <=> (x # w /\ \E i \in 1 .. Len(q) : q[i] = x)
  <2>1. /\ p \in Seq(Word)
        /\ \A x : (\E j \in 1 .. Len(p) : p[j] = x)
                     <=> (x # q[c] /\ \E i \in 1 .. Len(q) : q[i] = x)
    BY Zenon, <1>1, RemoveAtHas
  <2>. HIDE DEF p
  <2>. QED BY <2>1
<1>6. Ascending(p) /\ Distinct(p)
  BY <1>1, RemoveKeepsOrder
<1>7. \A x : x \in S \ {w} <=> \E j \in 1 .. Len(p) : p[j] = x
  BY <1>1, <1>5
<1>8. Sorts(p, S \ {w})
  BY <1>5, <1>6, <1>7 DEF Sorts
<1>9. new.sources[s] = p /\ \A t \in Source \ {s} : new.sources[t] = list.sources[t]
  <2>1. list.sources \in [Source -> Seq(Word)]
    BY DEF ListInv
  <2>. QED BY <1>3, <1>4, <2>1
<1>. QED BY <1>3, <1>4, <1>8, <1>9 DEF Changed

-----------------------------------------------------------------------------
(* The packed table                                                        *)

\* The lists in its buckets are those of FusedListOps.
LEMMA PackedSource == Packed!Source = Source
BY DEF Packed!Source, Source

LEMMA PackedNew == Packed!NewList = NewList
BY PackedSource DEF Packed!NewList, NewList

LEMMA PackedBefore == \A l, s, i : Packed!Before(l, s, i) = Before(l, s, i)
BY Zenon DEF Packed!Before, Before, Packed!Occupied, Occupied,
       Packed!Cardinality, Cardinality

LEMMA PackedCount ==
    \A l, s : Packed!Cardinality(Packed!Occupied(l, s)) = Cardinality(Occupied(l, s))
BY Zenon DEF Packed!Occupied, Occupied, Packed!Cardinality, Cardinality

LEMMA PackedNodeAt == \A l, s, i : Packed!NodeAt(l, s, i) = NodeAt(l, s, i)
BY Zenon DEF Packed!NodeAt, NodeAt, Packed!Before, Before, Packed!Occupied,
       Occupied, Packed!Cardinality, Cardinality

LEMMA PackedInsertAt == \A q, i, e : Packed!InsertAt(q, i, e) = InsertAt(q, i, e)
BY Zenon DEF Packed!InsertAt, InsertAt

LEMMA PackedRemoveAt == \A q, i : Packed!RemoveAt(q, i) = RemoveAt(q, i)
BY Zenon DEF Packed!RemoveAt, RemoveAt

LEMMA PackedCandidate == \A l, s, i : Packed!Candidate(l, s, i) = Candidate(l, s, i)
BY PackedNodeAt DEF Packed!Candidate, Candidate

LEMMA PackedRoom == \A l, s, i, e : Packed!WithRoom(l, s, i, e) = WithRoom(l, s, i, e)
<1>1. \A l, s, i : Packed!NextSource(l, s, i) = NextSource(l, s, i)
  BY PackedNodeAt, PackedCount DEF Packed!NextSource, NextSource
<1>. QED BY <1>1, PackedCandidate, PackedInsertAt DEF Packed!WithRoom, WithRoom

LEMMA PackedInsert == \A l, s, i, v : Packed!InsertValue(l, s, i, v) = InsertValue(l, s, i, v)
<1>. SUFFICES ASSUME NEW l, NEW s, NEW i, NEW v
              PROVE  Packed!InsertValue(l, s, i, v) = InsertValue(l, s, i, v)
  OBVIOUS
<1>. PICK room, at : room = WithRoom(l.nodes, s, i, NewListNode) /\ at = Candidate(l.nodes, s, i)
  OBVIOUS
<1>1. Packed!WithRoom(l.nodes, s, i, Packed!NewListNode) = room
  BY PackedRoom DEF Packed!NewListNode, NewListNode
<1>2. Packed!Candidate(l.nodes, s, i) = at
  BY PackedCandidate
<1>3. InsertValue(l, s, i, v) =
        [nodes |-> [room EXCEPT ![at] = TakeIn(@, s, v)],
         sources |-> [l.sources EXCEPT ![s] = InsertAt(@, i + 1, v)]]
  BY Zenon DEF InsertValue
<1>4. Packed!InsertValue(l, s, i, v) =
        [nodes |-> [room EXCEPT ![at] = Packed!TakeIn(@, s, v)],
         sources |-> [l.sources EXCEPT ![s] = Packed!InsertAt(@, i + 1, v)]]
  BY Zenon, <1>1, <1>2 DEF Packed!InsertValue
<1>. QED BY Zenon, <1>3, <1>4 DEF Packed!TakeIn, TakeIn, Packed!InsertAt, InsertAt

LEMMA PackedUnlink == \A l, i : Packed!Unlink(l, i) = Unlink(l, i)
BY Zenon DEF Packed!Unlink, Unlink, Packed!RemoveAt, RemoveAt

LEMMA PackedMin == \A N : Packed!Min(N) = Min(N)
BY Zenon DEF Packed!Min, Min

LEMMA PackedMax == \A N : Packed!Max(N) = Max(N)
BY Zenon DEF Packed!Max, Max

LEMMA PackedSwallowed == \A l, i : Packed!Swallowed(l, i) = Swallowed(l, i)
<1>1. \A l, n : Packed!MergeLeft(l, n) = MergeLeft(l, n)
  BY Zenon DEF Packed!MergeLeft, MergeLeft, Packed!Disjoint, Disjoint, Packed!Min,
       Min
<1>2. \A l, a, n : Packed!MergeRight(l, a, n) = MergeRight(l, a, n)
  BY Zenon DEF Packed!MergeRight, MergeRight, Packed!Disjoint, Disjoint,
       Packed!Max, Max
<1>. QED BY <1>1, <1>2, PackedUnlink DEF Packed!Swallowed, Swallowed

LEMMA PackedMerge == \A l, i, e : Packed!MergeNodes(l, i, e) = MergeNodes(l, i, e)
BY Zenon, PackedUnlink, PackedSwallowed, PackedMin, PackedMax DEF Packed!MergeNodes, MergeNodes

LEMMA PackedXorOver == \A f, S : Packed!XorOver(f, S) = XorOver(f, S)
BY Zenon DEF Packed!XorOver, XorOver, Packed!FoldFunctionOnSet,
       FoldFunctionOnSet, Packed!MapThenFoldSet, MapThenFoldSet

LEMMA PackedMerged == \A l, R : Packed!Merged(l, R) = Merged(l, R)
BY Zenon DEF Packed!Merged, Merged, Packed!XorOver, XorOver,
       Packed!FoldFunctionOnSet, FoldFunctionOnSet, Packed!MapThenFoldSet,
       MapThenFoldSet

LEMMA PackedDelete == \A l, s, i : Packed!DeleteValue(l, s, i) = DeleteValue(l, s, i)
<1>. SUFFICES ASSUME NEW l, NEW s, NEW i PROVE Packed!DeleteValue(l, s, i) = DeleteValue(l, s, i)
  OBVIOUS
<1>. PICK at, left : /\ at = NodeAt(l.nodes, s, i)
                     /\ left = [l.nodes EXCEPT ![at] = GiveUp(@, s, l.sources[s][i + 1])]
  OBVIOUS
<1>1. Packed!NodeAt(l.nodes, s, i) = at
  BY PackedNodeAt
<1>2. left = [l.nodes EXCEPT ![at] = Packed!GiveUp(@, s, l.sources[s][i + 1])]
  BY Zenon DEF Packed!GiveUp, GiveUp
<1>3. DeleteValue(l, s, i) =
        [nodes |-> MergeNodes(left, at, Merged(Unlink(left, at), Swallowed(left, at))),
         sources |-> [l.sources EXCEPT ![s] = RemoveAt(@, i + 1)]]
  BY Zenon DEF DeleteValue
<1>4. Packed!DeleteValue(l, s, i) =
        [nodes |-> Packed!MergeNodes(left, at, Packed!Merged(Packed!Unlink(left, at),
                                                          Packed!Swallowed(left, at))),
         sources |-> [l.sources EXCEPT ![s] = RemoveAt(@, i + 1)]]
  BY Zenon, <1>1, <1>2 DEF Packed!DeleteValue, Packed!RemoveAt, RemoveAt
<1>. QED BY <1>3, <1>4, PackedUnlink, PackedSwallowed, PackedMerged, PackedMerge

LEMMA PackedFitting ==
    \A l, missing, survivors : Packed!ListsFit(l, missing, survivors) = ListsFit(l, missing, survivors)
BY Zenon DEF Packed!ListsFit, ListsFit, Packed!Source, Source, Packed!Occupied,
       Occupied, Packed!Cardinality, Cardinality

LEMMA PackedRecover ==
    \A l, missing, survivors :
        Packed!RecoverValues(l, missing, survivors) = RecoverValues(l, missing, survivors)
<1>. SUFFICES ASSUME NEW l, NEW missing, NEW survivors
              PROVE  Packed!RecoverValues(l, missing, survivors) = RecoverValues(l, missing, survivors)
  OBVIOUS
<1>. DEFINE H(i) == l.nodes[i].bits \ {missing}
            e(i) == [s \in H(i) |-> survivors[s][Before(l.nodes, s, i) + 1]]
            d(i) == [s \in H(i) |-> survivors[s][Packed!Before(l.nodes, s, i) + 1]]
            E(i) == Xor(l.nodes[i].value, XorOver(e(i), H(i)))
            D(i) == Xor(l.nodes[i].value, Packed!XorOver(d(i), H(i)))
            N == 1 .. Cardinality(Occupied(l.nodes, missing))
<1>1. \A i : d(i) = e(i)
  BY PackedBefore
<1>2. \A i : D(i) = E(i)
  BY <1>1, PackedXorOver
<1>3. RecoverValues(l, missing, survivors) = [n \in N |-> E(NodeAt(l.nodes, missing, n - 1))]
  BY Zenon DEF RecoverValues
<1>4. Packed!RecoverValues(l, missing, survivors) =
          [n \in 1 .. Packed!Cardinality(Packed!Occupied(l.nodes, missing)) |->
              D(Packed!NodeAt(l.nodes, missing, n - 1))]
  BY Zenon DEF Packed!RecoverValues
<1>. HIDE DEF D, E
<1>5. Packed!RecoverValues(l, missing, survivors) =
          [n \in N |-> D(Packed!NodeAt(l.nodes, missing, n - 1))]
  BY <1>4, PackedCount
<1>. HIDE DEF N
<1>. QED BY <1>2, <1>3, <1>5, PackedNodeAt

LEMMA PackedSearch == \A q, v : Packed!Search(q, v) = Search(q, v)
BY Zenon DEF Packed!Search, Search, Packed!Cardinality, Cardinality

\* A map, its keys, and the words of its entries in a bucket.
Map == [PackedKeys -> PackedValues \cup {Absent}]
WordOf(k, v) == k * ValueSpan + v
Held(map, b) == {k \in PackedKeys : map[k] # Absent /\ BucketOf(k) = b}
WordsAt(map, b) == {WordOf(k, map[k]) : k \in Held(map, b)}

LEMMA WordTells ==
    ASSUME NEW k \in PackedKeys, NEW v \in PackedValues
    PROVE  /\ WordOf(k, v) \in Word
           /\ WordOf(k, v) \div ValueSpan = k /\ WordOf(k, v) % ValueSpan = v
<1>. PICK V : V = ValueSpan
  OBVIOUS
<1>1. V \in Nat \ {0} /\ k \in Nat /\ v \in 0 .. V - 1
  BY TablesAssumption
<1>2. (k * V + v) \div V = k /\ (k * V + v) % V = v
  BY SMTT(30), <1>1
<1>3. k * ValueSpan + v \in Word
  BY TablesAssumption
<1>. QED BY <1>2, <1>3 DEF WordOf

\* An entry is no other entry of the map.
LEMMA WordDiffers ==
    ASSUME NEW k \in PackedKeys, NEW v \in PackedValues,
           NEW j \in PackedKeys, NEW u \in PackedValues, WordOf(k, v) = WordOf(j, u)
    PROVE  k = j
<1>1. WordOf(k, v) \div ValueSpan = k
  BY WordTells
<1>2. WordOf(j, u) \div ValueSpan = j
  BY WordTells
<1>. QED BY <1>1, <1>2

LEMMA PackedBucketOf == ASSUME NEW k \in PackedKeys PROVE BucketOf(k) \in Bucket
<1>1. k \in Nat
  BY TablesAssumption
<1>2. \A n \in Nat : n >= 1 => k % n \in 0 .. n - 1
  BY <1>1
<1>. QED BY <1>2, TableAssumption DEF BucketOf, Bucket

\* What a map without a key has in the buckets, and with a new value for it.
LEMMA WordsWithout ==
    ASSUME NEW map \in Map, NEW key \in PackedKeys, map[key] # Absent
    PROVE  LET b == BucketOf(key)
               w == WordOf(key, map[key])
           IN  /\ w \in WordsAt(map, b)
               /\ WordsAt([map EXCEPT ![key] = Absent], b) = WordsAt(map, b) \ {w}
<1>. DEFINE new == [map EXCEPT ![key] = Absent]
<1>. PICK b, w : b = BucketOf(key) /\ w = WordOf(key, map[key])
  OBVIOUS
<1>0. \A k \in PackedKeys : map[k] # Absent => map[k] \in PackedValues
  BY DEF Map
<1>1. \A k : k \in Held(new, b) <=> k \in Held(map, b) /\ k # key
  BY DEF Held, Map
<1>2. \A k \in Held(new, b) : new[k] = map[k]
  BY <1>1 DEF Map, Held
<1>3. key \in Held(map, b)
  BY DEF Held
<1>. HIDE DEF new
<1>4. ASSUME NEW x PROVE x \in WordsAt(new, b) <=> x \in WordsAt(map, b) /\ x # w
  <2>1. ASSUME x \in WordsAt(new, b) PROVE x \in WordsAt(map, b) /\ x # w
    <3>1. PICK k \in Held(new, b) : x = WordOf(k, new[k])
      BY <2>1 DEF WordsAt
    <3>2. k \in Held(map, b) /\ k # key /\ x = WordOf(k, map[k])
      BY <1>1, <1>2, <3>1
    <3>3. k \in PackedKeys /\ map[k] \in PackedValues /\ map[key] \in PackedValues
      BY <1>0, <3>2 DEF Held
    <3>4. x # w
      BY <3>2, <3>3, WordDiffers
    <3>. QED BY <3>2, <3>4 DEF WordsAt
  <2>2. ASSUME x \in WordsAt(map, b), x # w PROVE x \in WordsAt(new, b)
    <3>1. PICK k \in Held(map, b) : x = WordOf(k, map[k])
      BY <2>2 DEF WordsAt
    <3>2. k # key
      BY <2>2, <3>1
    <3>3. k \in Held(new, b) /\ x = WordOf(k, new[k])
      BY <1>1, <1>2, <3>1, <3>2
    <3>. QED BY <3>3 DEF WordsAt
  <2>. QED BY <2>1, <2>2
<1>5. w \in WordsAt(map, b)
  BY <1>3 DEF WordsAt
<1>6. WordsAt(new, b) = WordsAt(map, b) \ {w}
  BY <1>4
<1>. QED BY <1>5, <1>6 DEF new

LEMMA WordsWith ==
    ASSUME NEW map \in Map, NEW key \in PackedKeys, NEW v \in PackedValues
    PROVE  LET b == BucketOf(key)
               w == WordOf(key, v)
               old == WordsAt([map EXCEPT ![key] = Absent], b)
           IN  /\ w \notin old
               /\ WordsAt([map EXCEPT ![key] = v], b) = old \cup {w}
<1>. DEFINE new == [map EXCEPT ![key] = v]
            left == [map EXCEPT ![key] = Absent]
<1>. PICK b, w : b = BucketOf(key) /\ w = WordOf(key, v)
  OBVIOUS
<1>0. \A k \in PackedKeys : map[k] # Absent => map[k] \in PackedValues
  BY DEF Map
<1>1. v # Absent
  BY TablesAssumption
<1>2. /\ \A k : k \in Held(new, b) <=> k \in Held(left, b) \/ k = key
      /\ \A k \in Held(left, b) : k # key
  BY <1>1 DEF Held, Map
<1>3. /\ \A k \in Held(left, b) : left[k] = map[k] /\ new[k] = map[k] /\ k \in PackedKeys /\ map[k] # Absent
      /\ new[key] = v
  BY <1>2 DEF Map, Held
<1>. HIDE DEF new, left
<1>4. ASSUME w \in WordsAt(left, b) PROVE FALSE
  <2>1. PICK k \in Held(left, b) : w = WordOf(k, left[k])
    BY <1>4 DEF WordsAt
  <2>2. k \in PackedKeys /\ left[k] \in PackedValues /\ k # key
    BY <1>0, <1>2, <1>3
  <2>. QED BY <2>1, <2>2, WordDiffers
<1>5. ASSUME NEW x PROVE x \in WordsAt(new, b) <=> x \in WordsAt(left, b) \/ x = w
  <2>1. ASSUME x \in WordsAt(new, b) PROVE x \in WordsAt(left, b) \/ x = w
    <3>1. PICK k \in Held(new, b) : x = WordOf(k, new[k])
      BY <2>1 DEF WordsAt
    <3>2. CASE k = key
      BY <1>3, <3>1, <3>2
    <3>3. CASE k # key
      <4>1. k \in Held(left, b) /\ x = WordOf(k, left[k])
        BY <1>2, <1>3, <3>1, <3>3
      <4>. QED BY <4>1 DEF WordsAt
    <3>. QED BY <3>2, <3>3
  <2>2. ASSUME x \in WordsAt(left, b) PROVE x \in WordsAt(new, b)
    <3>1. PICK k \in Held(left, b) : x = WordOf(k, left[k])
      BY <2>2 DEF WordsAt
    <3>2. k \in Held(new, b) /\ x = WordOf(k, new[k])
      BY <1>2, <1>3, <3>1
    <3>. QED BY <3>2 DEF WordsAt
  <2>3. w \in WordsAt(new, b)
    BY <1>2, <1>3 DEF WordsAt
  <2>. QED BY <2>1, <2>2, <2>3
<1>6. WordsAt(new, b) = WordsAt(left, b) \cup {w}
  BY <1>5
<1>. QED BY <1>4, <1>6 DEF new, left

LEMMA WordsElsewhere ==
    ASSUME NEW map \in Map, NEW new \in Map, NEW key,
           \A k \in PackedKeys \ {key} : new[k] = map[k],
           NEW b, b # BucketOf(key)
    PROVE  WordsAt(new, b) = WordsAt(map, b)
<1>1. Held(new, b) = Held(map, b)
  BY DEF Held
<1>2. \A k \in Held(map, b) : new[k] = map[k]
  BY DEF Held
<1>. QED BY <1>1, <1>2 DEF WordsAt

\* Every bucket backs up the sorted entries of the maps.
Sorted(list, own, b) ==
    /\ ListInv(list)
    /\ \A s \in Source : Sorts(list.sources[s], WordsAt(own[s], b))
PackedInv ==
    /\ maps \in [Source -> Map]
    /\ DOMAIN buckets = Bucket
    /\ \A b \in Bucket : Sorted(buckets[b], maps, b)

LEMMA PackedStarts == Packed!Init => PackedInv
<1>. SUFFICES ASSUME Packed!Init PROVE PackedInv
  OBVIOUS
<1>1. /\ maps = [s \in Source |-> [k \in PackedKeys |-> Absent]]
      /\ buckets = [b \in Bucket |-> NewList]
  <2>1. Packed!Bucket = Bucket
    BY DEF Packed!Bucket, Bucket
  <2>. QED BY <2>1, PackedSource, PackedNew DEF Packed!Init
<1>2. maps \in [Source -> Map] /\ DOMAIN buckets = Bucket
  BY <1>1 DEF Map
<1>3. ASSUME NEW b \in Bucket, NEW s \in Source
      PROVE  Sorts(NewList.sources[s], WordsAt(maps[s], b))
  <2>1. NewList.sources[s] = <<>>
    BY DEF NewList
  <2>2. Held(maps[s], b) = {}
    BY <1>1 DEF Held
  <2>3. WordsAt(maps[s], b) = {}
    BY <2>2 DEF WordsAt
  <2>4. <<>> \in Seq(Word) /\ Len(<<>>) = 0 /\ 1 .. 0 = {}
    OBVIOUS
  <2>. QED BY <2>1, <2>3, <2>4 DEF Sorts, Ascending, Distinct
<1>. QED BY <1>1, <1>2, <1>3, NewListInv DEF PackedInv, Sorted

\* The bucket without the old entry of a key, if it has one.
LEMMA WithoutSorted ==
    ASSUME PackedInv, NEW s \in Source, NEW key \in PackedKeys
    PROVE  LET b == BucketOf(key)
               new == Packed!Without(s, key)
           IN  /\ ListInv(new)
               /\ Sorts(new.sources[s], WordsAt([maps[s] EXCEPT ![key] = Absent], b))
               /\ \A t \in Source \ {s} : new.sources[t] = buckets[b].sources[t]
<1>. PICK b, list, map : b = BucketOf(key) /\ list = buckets[b] /\ map = maps[s]
  OBVIOUS
<1>1. map \in Map /\ b \in Bucket /\ Sorted(list, maps, b)
  BY PackedBucketOf DEF PackedInv
<1>2. ListInv(list) /\ Sorts(list.sources[s], WordsAt(map, b))
  BY <1>1 DEF Sorted
<1>3. b = Packed!BucketOf(key)
  BY DEF BucketOf, Packed!BucketOf
<1>4. CASE map[key] = Absent
  <2>1. Packed!Without(s, key) = list
    BY <1>3, <1>4 DEF Packed!Without
  <2>2. [map EXCEPT ![key] = Absent] = map
    BY <1>1, <1>4 DEF Map
  <2>. QED BY <1>2, <2>1, <2>2
<1>5. CASE map[key] # Absent
  <2>. PICK w : w = WordOf(key, map[key])
    OBVIOUS
  <2>1. w \in WordsAt(map, b) /\ WordsAt([map EXCEPT ![key] = Absent], b) = WordsAt(map, b) \ {w}
    BY <1>1, <1>5, WordsWithout
  <2>. DEFINE index == Search(list.sources[s], w)
              new == DeleteValue(list, s, index)
  <2>2. index < Len(list.sources[s]) /\ Changed(new, list, s, WordsAt(map, b) \ {w})
    BY <1>2, <2>1, SortsDelete
  <2>3. Packed!Without(s, key) = Packed!DeletePacked(list, s, w)
    BY <1>3, <1>5 DEF Packed!Without, Packed!Pack, WordOf
  <2>4. Packed!DeletePacked(list, s, w) = new
    <3>1. Packed!DeletePacked(list, s, w) = IF index < Len(list.sources[s]) THEN new ELSE list
      BY Zenon, PackedSearch, PackedDelete DEF Packed!DeletePacked
    <3>. QED BY <2>2, <3>1
  <2>. HIDE DEF new
  <2>. QED BY <2>1, <2>2, <2>3, <2>4 DEF Changed
<1>. QED BY <1>4, <1>5

\* A bucket does not see the entries of other buckets.
LEMMA SortedElsewhere ==
    ASSUME NEW old \in [Source -> Map], NEW own \in [Source -> Map], NEW s \in Source,
           \A t \in Source \ {s} : own[t] = old[t],
           NEW key, \A k \in PackedKeys \ {key} : own[s][k] = old[s][k],
           NEW list, NEW c, c # BucketOf(key), Sorted(list, old, c)
    PROVE  Sorted(list, own, c)
<1>1. old[s] \in Map /\ own[s] \in Map
  OBVIOUS
<1>2. WordsAt(own[s], c) = WordsAt(old[s], c)
  BY <1>1, WordsElsewhere
<1>3. \A t \in Source : WordsAt(own[t], c) = WordsAt(old[t], c)
  BY <1>2
<1>. QED BY <1>3 DEF Sorted

\* One bucket with the entry of a key anew, the others as they were.
LEMMA PackedChange ==
    ASSUME PackedInv, NEW s \in Source, NEW key \in PackedKeys, NEW v \in PackedValues \cup {Absent},
           NEW new, ListInv(new),
           Sorts(new.sources[s], WordsAt([maps[s] EXCEPT ![key] = v], BucketOf(key))),
           \A t \in Source \ {s} : new.sources[t] = buckets[BucketOf(key)].sources[t],
           maps' = [maps EXCEPT ![s][key] = v],
           buckets' = [buckets EXCEPT ![BucketOf(key)] = new]
    PROVE  PackedInv'
<1>. PICK own, kept : own = maps' /\ kept = buckets'
  OBVIOUS
<1>. PICK b : b = BucketOf(key)
  OBVIOUS
<1>. PICK map \in Map : map = maps[s]
  BY DEF PackedInv
<1>. PICK changed : changed = [map EXCEPT ![key] = v]
  OBVIOUS
<1>0. changed \in Map
  BY DEF Map
<1>6. \A k \in PackedKeys \ {key} : changed[k] = map[k]
  BY DEF Map
<1>1. maps \in [Source -> Map] /\ DOMAIN buckets = Bucket /\ b \in Bucket
  BY PackedBucketOf DEF PackedInv
<1>2. own = [maps EXCEPT ![s] = changed]
  BY <1>1
<1>3. own \in [Source -> Map] /\ own[s] = changed /\ \A t \in Source \ {s} : own[t] = maps[t]
  BY <1>0, <1>1, <1>2
<1>4. /\ DOMAIN kept = Bucket /\ kept[b] = new
      /\ \A c \in Bucket \ {b} : kept[c] = buckets[c]
  BY <1>1
<1>5. ASSUME NEW c \in Bucket PROVE Sorted(kept[c], own, c)
  <2>1. Sorted(buckets[c], maps, c)
    BY DEF PackedInv
  <2>2. CASE c = b
    <3>1. ASSUME NEW t \in Source PROVE Sorts(new.sources[t], WordsAt(own[t], b))
      <4>1. CASE t = s
        BY <1>3, <4>1
      <4>2. CASE t # s
        BY <1>3, <2>1, <2>2, <4>2 DEF Sorted
      <4>. QED BY <4>1, <4>2
    <3>2. Sorted(new, own, b)
      BY <3>1 DEF Sorted
    <3>. QED BY <1>4, <2>2, <3>2
  <2>3. CASE c # b
    <3>1. /\ maps \in [Source -> Map] /\ own \in [Source -> Map] /\ s \in Source
          /\ \A t \in Source \ {s} : own[t] = maps[t]
          /\ \A k \in PackedKeys \ {key} : own[s][k] = maps[s][k]
          /\ c # BucketOf(key) /\ Sorted(buckets[c], maps, c)
      BY <1>1, <1>3, <1>6, <2>1, <2>3
    <3>2. Sorted(buckets[c], own, c)
      BY ONLY <3>1, SortedElsewhere
    <3>. QED BY <1>4, <2>3, <3>2
  <2>. QED BY <2>2, <2>3
<1>. QED BY <1>3, <1>4, <1>5 DEF PackedInv

LEMMA PackedPut ==
    ASSUME PackedInv, NEW s \in Source, NEW key \in PackedKeys, NEW v \in PackedValues,
           Packed!Put(s, key, v)
    PROVE  PackedInv'
<1>. PICK b : b = BucketOf(key)
  OBVIOUS
<1>. PICK list : list = Packed!Without(s, key)
  OBVIOUS
<1>. PICK map \in Map : map = maps[s]
  BY DEF PackedInv
<1>. PICK w : w = WordOf(key, v)
  OBVIOUS
<1>. PICK S : S = WordsAt([map EXCEPT ![key] = Absent], b)
  OBVIOUS
<1>1. /\ ListInv(list) /\ Sorts(list.sources[s], S)
      /\ \A t \in Source \ {s} : list.sources[t] = buckets[b].sources[t]
  BY WithoutSorted
<1>2. w \in Word /\ w \notin S /\ WordsAt([map EXCEPT ![key] = v], b) = S \cup {w}
  BY WordsWith, WordTells
<1>. DEFINE new == InsertValue(list, s, Search(list.sources[s], w), w)
<1>3. Changed(new, list, s, S \cup {w})
  BY <1>1, <1>2, SortsInsert
<1>4. Packed!InsertPacked(list, s, Packed!Pack(key, v)) = new
  BY PackedSearch, PackedInsert DEF Packed!InsertPacked, Packed!Pack, WordOf
<1>5. b = Packed!BucketOf(key)
  BY DEF BucketOf, Packed!BucketOf
<1>6. maps' = [maps EXCEPT ![s][key] = v] /\ buckets' = [buckets EXCEPT ![b] = new]
  BY <1>4, <1>5 DEF Packed!Put
<1>. HIDE DEF new
<1>7. /\ Sorts(new.sources[s], WordsAt([maps[s] EXCEPT ![key] = v], BucketOf(key)))
      /\ \A t \in Source \ {s} : new.sources[t] = buckets[BucketOf(key)].sources[t]
      /\ buckets' = [buckets EXCEPT ![BucketOf(key)] = new]
      /\ ListInv(new)
  BY <1>1, <1>2, <1>3, <1>6 DEF Changed
<1>8. v \in PackedValues \cup {Absent}
  OBVIOUS
<1>. QED BY Zenon, <1>6, <1>7, <1>8, PackedChange

LEMMA PackedRemove ==
    ASSUME PackedInv, NEW s \in Source, NEW key \in PackedKeys, Packed!Delete(s, key)
    PROVE  PackedInv'
<1>. PICK b : b = BucketOf(key)
  OBVIOUS
<1>. PICK new : new = Packed!Without(s, key)
  OBVIOUS
<1>1. /\ ListInv(new) /\ Sorts(new.sources[s], WordsAt([maps[s] EXCEPT ![key] = Absent], b))
      /\ \A t \in Source \ {s} : new.sources[t] = buckets[b].sources[t]
  BY WithoutSorted
<1>2. b = Packed!BucketOf(key)
  BY DEF BucketOf, Packed!BucketOf
<1>3. maps' = [maps EXCEPT ![s][key] = Absent] /\ buckets' = [buckets EXCEPT ![b] = new]
  BY <1>2 DEF Packed!Delete
<1>. QED BY <1>1, <1>3, PackedChange

LEMMA PackedInvNext == PackedInv /\ [NextOne]_allVars => PackedInv'
<1>. SUFFICES ASSUME PackedInv, [NextOne]_allVars PROVE PackedInv'
  OBVIOUS
<1>1. CASE UNCHANGED packedVars
  BY <1>1 DEF PackedInv, packedVars
<1>2. CASE Packed!Next
  <2>1. PICK s \in Source, key \in PackedKeys : \/ \E v \in PackedValues : Packed!Put(s, key, v)
                                              \/ Packed!PutSame(s, key)
                                              \/ Packed!Delete(s, key)
                                              \/ Packed!DeleteAbsent(s, key)
    BY <1>2, PackedSource DEF Packed!Next
  <2>2. CASE \E v \in PackedValues : Packed!Put(s, key, v)
    BY <2>2, PackedPut
  <2>3. CASE Packed!Delete(s, key)
    BY <2>3, PackedRemove
  <2>4. CASE Packed!PutSame(s, key) \/ Packed!DeleteAbsent(s, key)
    BY <1>1, <2>4 DEF Packed!PutSame, Packed!DeleteAbsent, Packed!vars, packedVars
  <2>. QED BY <2>1, <2>2, <2>3, <2>4
<1>. QED BY <1>1, <1>2 DEF NextOne, allVars, packedVars

LEMMA PackedInvAlways == SpecOne => []PackedInv
<1>1. InitOne => PackedInv
  BY PackedStarts DEF InitOne
<1>. QED BY <1>1, PackedInvNext, PTL DEF SpecOne

-----------------------------------------------------------------------------
LEMMA PackedWords ==
    ASSUME NEW map \in Map, NEW b
    PROVE  /\ Packed!SortedWords(map, b) =
                 CHOOSE p \in [1 .. Cardinality(WordsAt(map, b)) -> WordsAt(map, b)] : Climbs(p)
           /\ Packed!KeysIn(map) = {k \in PackedKeys : map[k] # Absent}
<1>1. DOMAIN map = PackedKeys
  BY DEF Map
<1>2. Packed!KeysIn(map) = {k \in PackedKeys : map[k] # Absent}
  BY <1>1 DEF Packed!KeysIn
<1>. DEFINE W == {Packed!Pack(k, map[k]) : k \in {j \in Packed!KeysIn(map) : Packed!BucketOf(j) = b}}
<1>3. {j \in Packed!KeysIn(map) : Packed!BucketOf(j) = b} = Held(map, b)
  BY <1>2 DEF Held, Packed!BucketOf, BucketOf
<1>4. W = WordsAt(map, b)
  BY <1>3 DEF WordsAt, WordOf, Packed!Pack
<1>5. Packed!SortedWords(map, b) =
          CHOOSE p \in [1 .. Packed!Cardinality(W) -> W] : \A i, j \in DOMAIN p : i < j => p[i] < p[j]
  BY Zenon DEF Packed!SortedWords
<1>6. Packed!Cardinality(W) = Cardinality(W)
  BY Zenon DEF Packed!Cardinality, Cardinality
<1>. HIDE DEF W
<1>7. Packed!SortedWords(map, b) = CHOOSE p \in [1 .. Cardinality(W) -> W] : Climbs(p)
  BY Zenon, <1>5, <1>6 DEF Climbs
<1>. QED BY <1>2, <1>4, <1>7

LEMMA PackedHolds == PackedInv => Packed!BucketsHoldMaps
<1>. SUFFICES ASSUME PackedInv PROVE Packed!BucketsHoldMaps
  OBVIOUS
<1>1. ASSUME NEW b \in Bucket, NEW s \in Source
      PROVE  buckets[b].sources[s] = Packed!SortedWords(maps[s], b)
  <2>1. maps[s] \in Map /\ Sorts(buckets[b].sources[s], WordsAt(maps[s], b))
    BY DEF PackedInv, Sorted
  <2>. QED BY <2>1, PackedWords, SortsUnique
<1>2. Packed!Bucket = Bucket
  BY DEF Packed!Bucket, Bucket
<1>. QED BY <1>1, <1>2, PackedSource DEF Packed!BucketsHoldMaps

LEMMA PackedRecovers == PackedInv => Packed!RecoversEverySource
<1>. SUFFICES ASSUME PackedInv, NEW missing \in Source
              PROVE  /\ \A b \in Bucket :
                          Packed!ListsFit(buckets[b], missing, Packed!WordSurvivors(missing, b))
                     /\ Packed!RecoveredEntries(missing) =
                          {[key |-> k, value |-> maps[missing][k]] : k \in Packed!KeysIn(maps[missing])}
  <2>1. Packed!Bucket = Bucket
    BY DEF Packed!Bucket, Bucket
  <2>. QED BY <2>1, PackedSource DEF Packed!RecoversEverySource
<1>. PICK map \in Map : map = maps[missing]
  BY DEF PackedInv
<1>1. ASSUME NEW b \in Bucket
      PROVE  /\ Packed!ListsFit(buckets[b], missing, Packed!WordSurvivors(missing, b))
             /\ Packed!RecoverValues(buckets[b], missing, Packed!WordSurvivors(missing, b))
                    = buckets[b].sources[missing]
  <2>. PICK list : list = buckets[b]
    OBVIOUS
  <2>1. ListInv(list)
    BY DEF PackedInv, Sorted
  <2>2. \A s \in Source : list.sources[s] = Packed!SortedWords(maps[s], b)
    <3>1. Packed!Bucket = Bucket
      BY DEF Packed!Bucket, Bucket
    <3>. QED BY <3>1, PackedHolds, PackedSource DEF Packed!BucketsHoldMaps
  <2>. PICK survivors : survivors = [s \in Source \ {missing} |-> list.sources[s]]
    OBVIOUS
  <2>3. Packed!WordSurvivors(missing, b) = survivors
    BY <2>2, PackedSource DEF Packed!WordSurvivors
  <2>4. /\ ListsFit(list, missing, survivors)
        /\ RecoverValues(list, missing, survivors) = list.sources[missing]
    BY <2>1, ListRecovers
  <2>. QED BY <2>3, <2>4, PackedFitting, PackedRecover
<1>2. ASSUME NEW b \in Bucket
      PROVE  Packed!Range(Packed!RecoverValues(buckets[b], missing, Packed!WordSurvivors(missing, b)))
                 = WordsAt(map, b)
  <2>. PICK q : q = buckets[b].sources[missing]
    OBVIOUS
  <2>1. Sorts(q, WordsAt(map, b))
    BY DEF PackedInv, Sorted
  <2>2. DOMAIN q = 1 .. Len(q) /\ \A w : w \in WordsAt(map, b) <=> \E i \in 1 .. Len(q) : q[i] = w
    BY <2>1 DEF Sorts
  <2>3. Packed!Range(q) = WordsAt(map, b)
    BY <2>2 DEF Packed!Range
  <2>. QED BY <1>1, <2>3
<1>3. Packed!RecoveredEntries(missing) = UNION {{Packed!Unpack(w) : w \in WordsAt(map, b)} : b \in Bucket}
  <2>1. Packed!Bucket = Bucket
    BY DEF Packed!Bucket, Bucket
  <2>. DEFINE A(b) == Packed!Range(Packed!RecoverValues(buckets[b], missing, Packed!WordSurvivors(missing, b)))
  <2>2. Packed!RecoveredEntries(missing) = UNION {{Packed!Unpack(w) : w \in A(b)} : b \in Bucket}
    BY Zenon, <2>1 DEF Packed!RecoveredEntries
  <2>3. \A b \in Bucket : A(b) = WordsAt(map, b)
    BY <1>2
  <2>. HIDE DEF A
  <2>. QED BY <2>2, <2>3
<1>. DEFINE Recovered == UNION {{Packed!Unpack(w) : w \in WordsAt(map, b)} : b \in Bucket}
            Held0 == Packed!KeysIn(map)
            Entry(k) == [key |-> k, value |-> map[k]]
<1>4. Held0 = {k \in PackedKeys : map[k] # Absent}
  BY PackedWords
<1>5. ASSUME NEW k \in Held0 PROVE Packed!Unpack(WordOf(k, map[k])) = Entry(k)
  <2>1. k \in PackedKeys /\ map[k] \in PackedValues
    BY <1>4 DEF Map
  <2>. PICK w : w = WordOf(k, map[k])
    OBVIOUS
  <2>2. w \div ValueSpan = k /\ w % ValueSpan = map[k]
    BY <2>1, WordTells
  <2>. QED BY Zenon, <2>2 DEF Packed!Unpack
<1>6. ASSUME NEW x
      PROVE  x \in Recovered <=> \E b \in Bucket : \E k \in Held(map, b) : x = Packed!Unpack(WordOf(k, map[k]))
  BY DEF WordsAt
<1>7. ASSUME NEW b \in Bucket, NEW k \in Held(map, b) PROVE k \in Held0
  BY <1>4 DEF Held
<1>8. ASSUME NEW k \in Held0 PROVE \E b \in Bucket : k \in Held(map, b)
  BY <1>4, PackedBucketOf DEF Held
<1>. HIDE DEF Recovered, Held0, Entry
<1>9. ASSUME NEW x PROVE x \in Recovered <=> \E k \in Held0 : x = Entry(k)
  BY <1>5, <1>6, <1>7, <1>8
<1>10. Recovered = {Entry(k) : k \in Held0}
  BY <1>9
<1>. QED BY <1>1, <1>3, <1>10 DEF Recovered, Held0, Entry

\* The list of a bucket always holds exactly the packed entries of the maps, in
\* ascending order: deletePacked, whose result is ignored, finds the old entry,
\* and each insertion is where the search ended.
THEOREM PackedBucketsHoldMaps == SpecOne => []BucketsHoldMaps
<1>1. PackedInv => BucketsHoldMaps
  BY PackedHolds DEF BucketsHoldMaps
<1>. QED BY <1>1, PackedInvAlways, PTL

\* Whichever source of either table is lost, Recover returns exactly its
\* records, from the others that it sorts anew.
THEOREM BothTablesRecover == SpecOne => []EveryTableRecovers
<1>1. TablesInv /\ PackedInv => EveryTableRecovers
  BY CarriedRecovers, PackedRecovers DEF EveryTableRecovers
<1>. QED BY <1>1, TablesInvAlways, PackedInvAlways, PTL
=============================================================================
