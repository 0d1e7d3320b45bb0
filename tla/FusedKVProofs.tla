----------------------------- MODULE FusedKVProofs -----------------------------
(***************************************************************************)
(* What the operations of the fused key/value table do to the records it   *)
(* backs up, for any number of sources and buckets and all words: a bucket *)
(* carries the records of every source, one per node whose bit is set, in  *)
(* key order; Insert, Replace and Delete keep that, and what Recover gets  *)
(* out of the nodes is the records of the missing source.  They also keep  *)
(* every bucket as short as merging can make it, and the sizes of buckets  *)
(* are counted in nodes and in records.                                    *)
(***************************************************************************)
EXTENDS FusedKVOps, FusedListProofs

-----------------------------------------------------------------------------
(* Ranks: the position of a record among those of one source and bucket    *)

Element == [key : Word, value : Word]

\* Records of which no two have the same key.
Keyed(R) ==
    /\ IsFiniteSet(R)
    /\ \A r \in R : r \in Element
    /\ \A q, r \in R : q.key = r.key => q = r

LEMMA WordIsNat == \A w \in Word : w \in Nat
BY XorAssumption

LEMMA KeyedOrdered == \A R : Keyed(R) => Ordered(R)
BY WordIsNat DEF Keyed, Ordered, Element

\* Nth finds the record of a rank.
LEMMA NthIs ==
    ASSUME NEW R, Keyed(R), NEW r \in R
    PROVE  Nth(R, Rank(R, r.key)) = r
<1>1. \A q \in R : Rank(R, q.key) = Rank(R, r.key) => q = r
  BY RankUnique, KeyedOrdered
<1>2. Nth(R, Rank(R, r.key)) = CHOOSE q \in R : Rank(R, q.key) = Rank(R, r.key)
  BY DEF Nth, Rank, Below
<1>. QED BY <1>1, <1>2

-----------------------------------------------------------------------------
(* Buckets: el[i][s] is the record of source s that node i has fused in    *)

Node == [key : Word, value : Word, bits : SUBSET Source]

\* A node holds the XORs of the keys and of the values of its records.
XorKeys(cell, S) == XorOver([s \in S |-> cell[s].key], S)
Holds(node, cell) ==
    /\ node.key = XorKeys(cell, node.bits)
    /\ node.value = XorValues(cell, node.bits)

Fusing(list, el) == \A i \in 1 .. Len(list) : Holds(list[i], el[i])

\* What the sources have in one bucket.
Owned(E) == \A s \in Source : Keyed(E[s])

LEMMA OwnedOrders == \A E : Owned(E) => Orders(E)
BY KeyedOrdered DEF Owned, Orders

Carries(list, el, E) == list \in Seq(Node) /\ Placed(list, el, E) /\ Fusing(list, el)

-----------------------------------------------------------------------------
(* Nodes                                                                   *)

\* The records of the sources in S.
Cells(cell, S) == \A s \in S : cell[s] \in Element

LEMMA XorsTyped ==
    ASSUME NEW S \in SUBSET Source, NEW cell, Cells(cell, S)
    PROVE  XorKeys(cell, S) \in Word /\ XorValues(cell, S) \in Word
<1>1. IsFiniteSet(S)
  BY SomeSources
<1>2. WordsOn([s \in S |-> cell[s].key], S) /\ WordsOn([s \in S |-> cell[s].value], S)
  BY DEF WordsOn, Cells, Element
<1>. QED BY <1>1, <1>2, XorOverTyped DEF XorKeys, XorValues

LEMMA XorsSame ==
    ASSUME NEW S \in SUBSET Source, NEW cell, NEW other, \A s \in S : other[s] = cell[s]
    PROVE  XorKeys(other, S) = XorKeys(cell, S) /\ XorValues(other, S) = XorValues(cell, S)
<1>1. IsFiniteSet(S)
  BY SomeSources
<1>. DEFINE f == [s \in S |-> cell[s].key]
            g == [s \in S |-> other[s].key]
            v == [s \in S |-> cell[s].value]
            w == [s \in S |-> other[s].value]
<1>2. (\A s \in S : f[s] = g[s]) /\ (\A s \in S : v[s] = w[s])
  OBVIOUS
<1>3. XorOver(f, S) = XorOver(g, S) /\ XorOver(v, S) = XorOver(w, S)
  <2>. HIDE DEF f, g, v, w
  <2>. QED BY <1>1, <1>2, XorOverSame
<1>. QED BY <1>3 DEF XorKeys, XorValues

LEMMA XorsAdd ==
    ASSUME NEW S \in SUBSET Source, NEW e \in Source, e \notin S,
           NEW cell, Cells(cell, S \cup {e})
    PROVE  /\ XorKeys(cell, S \cup {e}) = Xor(XorKeys(cell, S), cell[e].key)
           /\ XorValues(cell, S \cup {e}) = Xor(XorValues(cell, S), cell[e].value)
<1>. DEFINE T == S \cup {e}
            f == [s \in T |-> cell[s].key]
            g == [s \in S |-> cell[s].key]
            v == [s \in T |-> cell[s].value]
            w == [s \in S |-> cell[s].value]
<1>1. IsFiniteSet(S)
  BY SomeSources
<1>2. /\ WordsOn(f, S) /\ f[e] \in Word /\ f[e] = cell[e].key
      /\ WordsOn(v, S) /\ v[e] \in Word /\ v[e] = cell[e].value
  BY DEF WordsOn, Cells, Element
<1>3. (\A s \in S : f[s] = g[s]) /\ (\A s \in S : v[s] = w[s])
  OBVIOUS
<1>4. /\ XorOver(f, S \cup {e}) = Xor(XorOver(f, S), f[e]) /\ XorOver(f, S) = XorOver(g, S)
      /\ XorOver(v, S \cup {e}) = Xor(XorOver(v, S), v[e]) /\ XorOver(v, S) = XorOver(w, S)
  <2>. HIDE DEF f, g, v, w
  <2>. QED BY <1>1, <1>2, <1>3, XorOverAdd, XorOverSame
<1>. QED BY <1>2, <1>4 DEF XorKeys, XorValues

LEMMA XorsNone ==
    /\ NewNode \in Node
    /\ \A cell : Holds(NewNode, cell)
BY XorOverEmpty, XorLaws DEF NewNode, Node, Holds, XorKeys, XorValues

\* A node with new bits, and with new key and value too.
LEMMA NewBits ==
    ASSUME NEW n \in Node, NEW S
    PROVE  [n EXCEPT !.bits = S] = [key |-> n.key, value |-> n.value, bits |-> S]
BY DEF Node

LEMMA FusedIs ==
    ASSUME NEW node \in Node, NEW k \in Word, NEW v \in Word, NEW S
    PROVE  [Fused(node, k, v) EXCEPT !.bits = S]
              = [key |-> Xor(node.key, k), value |-> Xor(node.value, v), bits |-> S]
<1>1. PICK x \in Word, y \in Word : x = Xor(node.key, k) /\ y = Xor(node.value, v)
  BY XorLaws DEF Node
<1>2. PICK fused : fused = [node EXCEPT !.key = x, !.value = y]
  OBVIOUS
<1>3. fused \in Node /\ fused.key = x /\ fused.value = y
  BY <1>2 DEF Node
<1>4. [fused EXCEPT !.bits = S] = [key |-> fused.key, value |-> fused.value, bits |-> S]
  BY <1>3, NewBits, Zenon
<1>5. Fused(node, k, v) = fused
  BY <1>1, <1>2, Zenon DEF Fused
<1>. QED BY <1>1, <1>3, <1>4, <1>5, Zenon

\* A record that is fused into a node.
LEMMA OccupyHolds ==
    ASSUME NEW node \in Node, NEW cell, Holds(node, cell), NEW s \in Source, s \notin node.bits,
           Cells(cell, node.bits), NEW other, other[s] \in Element,
           \A t \in node.bits : other[t] = cell[t]
    PROVE  /\ Occupy(node, s, other[s].key, other[s].value) \in Node
           /\ Occupy(node, s, other[s].key, other[s].value).bits = node.bits \cup {s}
           /\ Holds(Occupy(node, s, other[s].key, other[s].value), other)
<1>. DEFINE new == Occupy(node, s, other[s].key, other[s].value)
<1>1. node.bits \in SUBSET Source /\ node.key \in Word /\ node.value \in Word
  BY DEF Node
<1>2. new = [key |-> Xor(node.key, other[s].key), value |-> Xor(node.value, other[s].value),
             bits |-> node.bits \cup {s}]
  <2>1. PICK k \in Word, v \in Word : k = other[s].key /\ v = other[s].value
    BY DEF Element
  <2>2. Fused(node, k, v).bits = node.bits
    BY DEF Fused, Node
  <2>3. [Fused(node, k, v) EXCEPT !.bits = node.bits \cup {s}]
           = [key |-> Xor(node.key, k), value |-> Xor(node.value, v), bits |-> node.bits \cup {s}]
    BY FusedIs
  <2>4. Occupy(node, s, k, v) = [Fused(node, k, v) EXCEPT !.bits = node.bits \cup {s}]
    BY <2>2, Zenon DEF Occupy
  <2>. QED BY <2>1, <2>3, <2>4, Zenon
<1>3. Cells(other, node.bits \cup {s})
  BY DEF Cells
<1>4. /\ XorKeys(other, node.bits) = node.key
      /\ XorValues(other, node.bits) = node.value
  BY <1>1, XorsSame DEF Holds
<1>5. /\ XorKeys(other, node.bits \cup {s}) = Xor(node.key, other[s].key)
      /\ XorValues(other, node.bits \cup {s}) = Xor(node.value, other[s].value)
  BY <1>1, <1>3, <1>4, XorsAdd
<1>6. Xor(node.key, other[s].key) \in Word /\ Xor(node.value, other[s].value) \in Word
  BY <1>1, XorLaws DEF Element
<1>. QED BY <1>1, <1>2, <1>5, <1>6 DEF Node, Holds

\* And out of it again.
LEMMA VacateHolds ==
    ASSUME NEW node \in Node, NEW cell, Holds(node, cell), NEW s \in node.bits,
           Cells(cell, node.bits)
    PROVE  /\ Xor(node.key, cell[s].key) = XorKeys(cell, node.bits \ {s})
           /\ Xor(node.value, cell[s].value) = XorValues(cell, node.bits \ {s})
           /\ XorKeys(cell, node.bits \ {s}) \in Word /\ XorValues(cell, node.bits \ {s}) \in Word
<1>. DEFINE S == node.bits \ {s}
<1>1. node.bits \in SUBSET Source /\ S \in SUBSET Source /\ s \in Source /\ s \notin S
      /\ S \cup {s} = node.bits
  BY DEF Node
<1>2. Cells(cell, S) /\ Cells(cell, S \cup {s}) /\ cell[s].key \in Word /\ cell[s].value \in Word
  BY <1>1 DEF Cells, Element
<1>. HIDE DEF S
<1>3. /\ node.key = Xor(XorKeys(cell, S), cell[s].key)
      /\ node.value = Xor(XorValues(cell, S), cell[s].value)
  BY <1>1, <1>2, XorsAdd DEF Holds
<1>4. XorKeys(cell, S) \in Word /\ XorValues(cell, S) \in Word
  BY <1>1, <1>2, XorsTyped
<1>5. /\ Xor(node.key, cell[s].key) = XorKeys(cell, S)
      /\ Xor(node.value, cell[s].value) = XorValues(cell, S)
  BY <1>2, <1>3, <1>4, XorLaws
<1>. QED BY <1>4, <1>5 DEF S

-----------------------------------------------------------------------------
(* What a bucket carries after an insertion                                *)

BucketInv(list, E) == \E el : Carries(list, el, E)

\* A fresh node carries nothing.
LEMMA FreshKeeps ==
    ASSUME NEW list, NEW el, NEW E, Carries(list, el, E), NEW c \in 1 .. Len(list) + 1
    PROVE  LET new == InsertAt(list, c, NewNode)
               cells == [i \in 1 .. Len(list) + 1 |-> IF i < c THEN el[i] ELSE el[i - 1]]
           IN  /\ Carries(new, cells, E)
               /\ Len(new) = Len(list) + 1
               /\ \A s \in Source : ~Has(new, c, s)
               /\ \A s \in Source : \A k : Divides(list, el, s, c, k) => Divides(new, cells, s, c, k)
<1>. DEFINE new == InsertAt(list, c, NewNode)
            cells == [i \in 1 .. Len(list) + 1 |-> IF i < c THEN el[i] ELSE el[i - 1]]
<1>1. list \in Seq(Node) /\ NewNode \in Node /\ NewNode.bits = {} /\ Len(list) \in Nat
  BY XorsNone DEF Carries, NewNode
<1>2. /\ new \in Seq(Node) /\ Len(new) = Len(list) + 1
      /\ \A j \in 1 .. Len(list) + 1 :
            new[j] = IF j < c THEN list[j] ELSE IF j = c THEN NewNode ELSE list[j - 1]
  BY <1>1, InsertAtIs
<1>3. \A j \in 1 .. Len(list) + 1 : cells[j] = IF j < c THEN el[j] ELSE el[j - 1]
  OBVIOUS
<1>. HIDE DEF new, cells
<1>4. ASSUME NEW i \in 1 .. Len(new), NEW s \in Source
      PROVE  /\ Has(new, i, s) <=> \/ i < c /\ Has(list, i, s)
                                   \/ i > c /\ Has(list, i - 1, s)
             /\ i < c => i \in 1 .. Len(list)
             /\ i > c => i - 1 \in 1 .. Len(list)
  BY <1>1, <1>2 DEF Has
<1>5. Placed(new, cells, E)
  <2>1. \A i \in 1 .. Len(new) : \A s \in Source : Has(new, i, s) => cells[i][s] \in E[s]
    <3>1. SUFFICES ASSUME NEW i \in 1 .. Len(new), NEW s \in Source, Has(new, i, s)
                   PROVE  cells[i][s] \in E[s]
      OBVIOUS
    <3>2. CASE i < c
      <4>1. i \in 1 .. Len(list) /\ Has(list, i, s)
        <5>1. c \in Nat /\ i \in Nat
          OBVIOUS
        <5>. QED BY <1>4, <3>1, <3>2, <5>1
      <4>2. el[i][s] \in E[s]
        BY <4>1 DEF Carries, Placed
      <4>. QED BY <1>2, <1>3, <3>2, <4>2
    <3>3. CASE ~(i < c)
      <4>1. i - 1 \in 1 .. Len(list) /\ Has(list, i - 1, s)
        BY <1>4, <3>1, <3>3
      <4>. QED BY <1>2, <1>3, <3>3, <4>1 DEF Carries, Placed
    <3>. QED BY <3>2, <3>3
  <2>2. ASSUME NEW s \in Source, NEW r \in E[s]
        PROVE  \E i \in 1 .. Len(new) : Has(new, i, s) /\ cells[i][s] = r
    <3>1. PICK i \in 1 .. Len(list) : Has(list, i, s) /\ el[i][s] = r
      BY DEF Carries, Placed
    <3>2. CASE i < c
      <4>1. i \in 1 .. Len(new)
        BY <1>1, <1>2
      <4>. QED BY <1>2, <1>3, <1>4, <3>1, <3>2, <4>1
    <3>3. CASE ~(i < c)
      <4>1. i + 1 \in 1 .. Len(new) /\ i + 1 > c /\ ~(i + 1 < c) /\ i + 1 - 1 = i
        BY <1>1, <1>2, <3>3
      <4>2. PICK j \in 1 .. Len(new) : j = i + 1
        BY <4>1
      <4>3. Has(new, j, s)
        BY <1>4, <3>1, <4>1, <4>2
      <4>4. cells[j] = el[i]
        BY <1>2, <1>3, <4>1, <4>2
      <4>. QED BY <3>1, <4>3, <4>4
    <3>. QED BY <3>2, <3>3
  <2>3. ASSUME NEW s \in Source, NEW i \in 1 .. Len(new), NEW j \in 1 .. Len(new),
               Has(new, i, s), Has(new, j, s), i < j
        PROVE  cells[i][s].key < cells[j][s].key
    <3>. DEFINE a == IF i < c THEN i ELSE i - 1
                b == IF j < c THEN j ELSE j - 1
    <3>1. /\ a \in 1 .. Len(list) /\ b \in 1 .. Len(list) /\ a < b
          /\ Has(list, a, s) /\ Has(list, b, s)
      BY <1>1, <1>2, <1>4, <2>3
    <3>2. cells[i] = el[a] /\ cells[j] = el[b]
      BY <1>2, <1>3
    <3>. QED BY <3>1, <3>2 DEF Carries, Placed
  <2>. QED BY <2>1, <2>2, <2>3 DEF Placed
<1>6. Fusing(new, cells)
  <2>1. SUFFICES ASSUME NEW i \in 1 .. Len(new) PROVE Holds(new[i], cells[i])
    BY DEF Fusing
  <2>2. CASE i = c
    <3>1. new[i] = NewNode
      BY <1>1, <1>2, <2>2
    <3>2. Holds(NewNode, cells[i])
      BY XorsNone
    <3>. QED BY <3>1, <3>2
  <2>3. CASE i < c
    <3>1. i \in 1 .. Len(list) /\ new[i] = list[i] /\ cells[i] = el[i]
      BY <1>1, <1>2, <1>3, <2>3
    <3>. QED BY <3>1 DEF Carries, Fusing
  <2>4. CASE i > c
    <3>1. i - 1 \in 1 .. Len(list) /\ new[i] = list[i - 1] /\ cells[i] = el[i - 1]
      BY <1>1, <1>2, <1>3, <2>4
    <3>. QED BY <3>1 DEF Carries, Fusing
  <2>. QED BY <1>2, <2>2, <2>3, <2>4
<1>7. \A s \in Source : ~Has(new, c, s)
  BY <1>1, <1>2 DEF Has
<1>8. ASSUME NEW s \in Source, NEW k, Divides(list, el, s, c, k)
      PROVE  Divides(new, cells, s, c, k)
  <2>1. SUFFICES ASSUME NEW j \in 1 .. Len(new), Has(new, j, s)
                 PROVE  j < c <=> cells[j][s].key < k
    BY DEF Divides
  <2>2. CASE j < c
    BY <1>2, <1>3, <1>4, <1>8, <2>1, <2>2 DEF Divides
  <2>3. CASE j > c
    <3>1. j - 1 \in 1 .. Len(list) /\ Has(list, j - 1, s) /\ ~(j - 1 < c) /\ cells[j] = el[j - 1]
      BY <1>1, <1>2, <1>3, <1>4, <2>1, <2>3
    <3>2. ~(el[j - 1][s].key < k)
      BY <1>8, <3>1 DEF Divides
    <3>. QED BY <2>3, <3>1, <3>2
  <2>. QED BY <1>2, <1>7, <2>1, <2>2, <2>3
<1>9. Carries(new, cells, E)
  BY <1>2, <1>5, <1>6 DEF Carries
<1>. QED BY <1>2, <1>7, <1>8, <1>9 DEF new, cells

Taken(list, c, s, k, v) == [list EXCEPT ![c] = Occupy(@, s, k, v)]

\* A node without s between the smaller and the larger keys takes a record.
LEMMA NodeTakes ==
    ASSUME NEW list, NEW el, NEW E, Owned(E), Carries(list, el, E), NEW c \in 1 .. Len(list),
           NEW s \in Source, ~Has(list, c, s), NEW k \in Word, NEW v \in Word,
           NEW F, Adds(F, E, s, [key |-> k, value |-> v]),
           \A q \in E[s] : q.key # k, Divides(list, el, s, c, k)
    PROVE  BucketInv(Taken(list, c, s, k, v), F)
<1>. DEFINE r == [key |-> k, value |-> v]
            node == Occupy(list[c], s, k, v)
            new == [list EXCEPT ![c] = node]
            cells == [i \in 1 .. Len(list) |-> [t \in Source |->
                        IF i = c /\ t = s THEN r ELSE el[i][t]]]
<1>1. /\ list \in Seq(Node) /\ Len(list) \in Nat /\ list[c] \in Node
      /\ list[c].bits \in SUBSET Source /\ s \notin list[c].bits
      /\ r.key = k /\ r.value = v /\ r \in Element
  <2>1. list \in Seq(Node) /\ s \notin list[c].bits
    BY DEF Carries, Has
  <2>2. Len(list) \in Nat /\ list[c] \in Node
    BY <2>1
  <2>3. list[c].bits \in SUBSET Source
    BY <2>2 DEF Node
  <2>4. r.key = k /\ r.value = v /\ r \in Element
    BY DEF Element
  <2>. QED BY <2>1, <2>2, <2>3, <2>4
<1>2. ASSUME NEW i \in 1 .. Len(list), NEW t \in Source
      PROVE  cells[i][t] = IF i = c /\ t = s THEN r ELSE el[i][t]
  OBVIOUS
<1>3. \A i \in 1 .. Len(list), t \in Source : Has(list, i, t) => el[i][t] \in E[t] /\ el[i][t] \in Element
  BY DEF Carries, Placed, Owned, Keyed
<1>. HIDE DEF cells, r
<1>4. node \in Node /\ node.bits = list[c].bits \cup {s} /\ Holds(node, cells[c])
  <2>1. Cells(el[c], list[c].bits) /\ Holds(list[c], el[c])
    BY <1>1, <1>3 DEF Cells, Has, Carries, Fusing
  <2>2. cells[c][s] = r /\ \A t \in list[c].bits : cells[c][t] = el[c][t]
    BY <1>1, <1>2
  <2>3. PICK other : other = cells[c]
    OBVIOUS
  <2>. QED BY <1>1, <2>1, <2>2, <2>3, OccupyHolds
<1>. HIDE DEF node
<1>5. /\ new \in Seq(Node) /\ Len(new) = Len(list)
      /\ \A i \in 1 .. Len(list) : new[i] = IF i = c THEN node ELSE list[i]
  BY <1>1, <1>4
<1>. HIDE DEF new
<1>6. ASSUME NEW i \in 1 .. Len(list), NEW t \in Source
      PROVE  Has(new, i, t) <=> Has(list, i, t) \/ (i = c /\ t = s)
  BY <1>4, <1>5 DEF Has
<1>7. Placed(new, cells, F)
  <2>1. \A i \in 1 .. Len(new) : \A t \in Source : Has(new, i, t) => cells[i][t] \in F[t]
    BY <1>2, <1>3, <1>5, <1>6 DEF Adds, r
  <2>2. ASSUME NEW t \in Source, NEW q \in F[t]
        PROVE  \E i \in 1 .. Len(new) : Has(new, i, t) /\ cells[i][t] = q
    <3>1. CASE q \in E[t]
      <4>1. PICK i \in 1 .. Len(list) : Has(list, i, t) /\ el[i][t] = q
        BY <3>1 DEF Carries, Placed
      <4>2. ~(i = c /\ t = s)
        BY <4>1
      <4>. QED BY <1>2, <1>5, <1>6, <4>1, <4>2
    <3>2. CASE q \notin E[t]
      <4>1. t = s /\ q = r
        BY <3>2 DEF Adds, r
      <4>. QED BY <1>2, <1>5, <1>6, <4>1
    <3>. QED BY <3>1, <3>2
  <2>3. ASSUME NEW t \in Source, NEW i \in 1 .. Len(new), NEW j \in 1 .. Len(new),
               Has(new, i, t), Has(new, j, t), i < j
        PROVE  cells[i][t].key < cells[j][t].key
    <3>1. i \in 1 .. Len(list) /\ j \in 1 .. Len(list)
      BY <1>5
    <3>2. CASE i = c /\ t = s
      <4>1. cells[i][t] = r /\ cells[j][t] = el[j][t] /\ Has(list, j, t) /\ ~(j < c)
        BY <1>2, <1>6, <2>3, <3>1, <3>2
      <4>2. ~(el[j][s].key < k)
        BY <3>1, <3>2, <4>1 DEF Divides
      <4>3. el[j][s].key # k /\ el[j][s].key \in Nat /\ k \in Nat
        BY <1>3, <3>1, <3>2, <4>1, WordIsNat DEF Element
      <4>. QED BY <1>1, <3>2, <4>1, <4>2, <4>3
    <3>3. CASE j = c /\ t = s
      <4>1. cells[j][t] = r /\ cells[i][t] = el[i][t] /\ Has(list, i, t) /\ i < c
        BY <1>2, <1>6, <2>3, <3>1, <3>3
      <4>. QED BY <1>1, <3>1, <3>3, <4>1 DEF Divides
    <3>4. CASE t # s \/ (i # c /\ j # c)
      <4>1. cells[i][t] = el[i][t] /\ cells[j][t] = el[j][t] /\ Has(list, i, t) /\ Has(list, j, t)
        BY <1>2, <1>6, <2>3, <3>1, <3>4
      <4>. QED BY <2>3, <3>1, <4>1 DEF Carries, Placed
    <3>. QED BY <3>2, <3>3, <3>4
  <2>. QED BY <2>1, <2>2, <2>3 DEF Placed
<1>8. Fusing(new, cells)
  <2>1. SUFFICES ASSUME NEW i \in 1 .. Len(new) PROVE Holds(new[i], cells[i])
    BY DEF Fusing
  <2>2. CASE i = c
    <3>1. new[i] = node
      BY <1>5, <2>2
    <3>2. Holds(node, cells[i])
      BY <1>4, <2>2
    <3>. QED BY <3>1, <3>2
  <2>3. CASE i # c
    <3>1. i \in 1 .. Len(list) /\ new[i] = list[i] /\ list[i].bits \in SUBSET Source
      <4>1. i \in 1 .. Len(list) /\ new[i] = list[i]
        BY <1>5, <2>3
      <4>2. list[i] \in Node
        BY <1>1, <4>1
      <4>. QED BY <4>1, <4>2 DEF Node
    <3>2. \A t \in list[i].bits : cells[i][t] = el[i][t]
      BY <1>2, <2>3, <3>1
    <3>3. Holds(list[i], el[i])
      BY <3>1 DEF Carries, Fusing
    <3>. QED BY <3>1, <3>2, <3>3, XorsSame DEF Holds
  <2>. QED BY <2>2, <2>3
<1>9. BucketInv(new, F)
  BY <1>5, <1>7, <1>8 DEF BucketInv, Carries
<1>. QED BY <1>9 DEF new, node, Taken

\* Insert keeps what the bucket carried and adds the record.
LEMMA InsertKeeps ==
    ASSUME NEW list, NEW E, Owned(E), BucketInv(list, E),
           NEW s \in Source, NEW k \in Word, NEW v \in Word,
           NEW F, Adds(F, E, s, [key |-> k, value |-> v]),
           \A q \in E[s] : q.key # k
    PROVE  BucketInv(InsertInto(list, s, Rank(E[s], k), k, v), F)
<1>. DEFINE index == Rank(E[s], k)
            c == Candidate(list, s, index)
            room == WithRoom(list, s, index, NewNode)
<1>1. PICK el : Carries(list, el, E)
  BY DEF BucketInv
<1>2. list \in Seq(Node) /\ Placed(list, el, E) /\ k \in Nat /\ Len(list) \in Nat
  BY <1>1, WordIsNat DEF Carries
<1>3. c \in 1 .. Len(list) + 1 /\ Divides(list, el, s, c, k)
  BY <1>2, CandidateDivides, OwnedOrders
<1>4. c # NextSource(list, s, index) => c \in 1 .. Len(list) /\ ~Has(list, c, s)
  BY <1>2, RoomIs, OwnedOrders
<1>5. InsertInto(list, s, index, k, v) = Taken(room, c, s, k, v)
  BY DEF InsertInto, Taken
<1>. HIDE DEF c, index
<1>6. CASE c = NextSource(list, s, index)
  <2>1. room = InsertAt(list, c, NewNode)
    BY <1>6 DEF WithRoom, c
  <2>. HIDE DEF room
  <2>2. PICK cells : /\ Carries(room, cells, E) /\ Len(room) = Len(list) + 1
                     /\ ~Has(room, c, s) /\ Divides(room, cells, s, c, k)
    BY <1>1, <1>3, <2>1, FreshKeeps
  <2>3. c \in 1 .. Len(room)
    BY <1>3, <2>2
  <2>. QED BY <1>5, <2>2, <2>3, NodeTakes DEF index
<1>7. CASE c # NextSource(list, s, index)
  <2>1. room = list
    BY <1>7 DEF WithRoom, c
  <2>. HIDE DEF room
  <2>. QED BY <1>1, <1>3, <1>4, <1>5, <1>7, <2>1, NodeTakes DEF index
<1>. QED BY <1>6, <1>7

-----------------------------------------------------------------------------
(* Replace                                                                 *)

Replaced(list, i, x) == [list EXCEPT ![i].value = Xor(@, x)]

\* F is E with value v in place of the old one of record r of source s.
Changes(F, E, s, r, v) ==
    /\ F[s] = (E[s] \ {r}) \cup {[key |-> r.key, value |-> v]}
    /\ \A t \in Source \ {s} : F[t] = E[t]

\* A node in which the value of one record changes.
LEMMA ReplaceHolds ==
    ASSUME NEW node \in Node, NEW cell, Holds(node, cell), NEW s \in node.bits,
           Cells(cell, node.bits), NEW other, other[s].key = cell[s].key,
           other[s] \in Element, \A t \in node.bits \ {s} : other[t] = cell[t]
    PROVE  /\ XorKeys(other, node.bits) = node.key
           /\ XorValues(other, node.bits) = Xor(node.value, Xor(cell[s].value, other[s].value))
<1>. DEFINE S == node.bits \ {s}
<1>1. node.bits \in SUBSET Source /\ S \in SUBSET Source /\ s \in Source /\ s \notin S
      /\ S \cup {s} = node.bits /\ node.key \in Word /\ node.value \in Word
  BY DEF Node
<1>2. Cells(cell, S \cup {s}) /\ Cells(other, S \cup {s}) /\ Cells(cell, S)
  BY <1>1 DEF Cells
<1>3. \A t \in S : other[t] = cell[t]
  OBVIOUS
<1>4. /\ cell[s].key \in Word /\ cell[s].value \in Word /\ other[s].value \in Word
  BY <1>1, <1>2 DEF Cells, Element
<1>. HIDE DEF S
<1>5. /\ XorKeys(other, S) = XorKeys(cell, S) /\ XorValues(other, S) = XorValues(cell, S)
      /\ XorKeys(cell, S) \in Word /\ XorValues(cell, S) \in Word
  BY <1>1, <1>2, <1>3, XorsSame, XorsTyped
<1>6. /\ XorKeys(other, S \cup {s}) = Xor(XorKeys(other, S), other[s].key)
      /\ XorValues(other, S \cup {s}) = Xor(XorValues(other, S), other[s].value)
      /\ XorKeys(cell, S \cup {s}) = Xor(XorKeys(cell, S), cell[s].key)
      /\ XorValues(cell, S \cup {s}) = Xor(XorValues(cell, S), cell[s].value)
  BY <1>1, <1>2, XorsAdd
<1>7. node.key = XorKeys(other, node.bits)
  BY <1>1, <1>5, <1>6 DEF Holds
<1>8. ASSUME NEW a \in Word, NEW b \in Word, NEW c \in Word
      PROVE  Xor(Xor(a, b), Xor(b, c)) = Xor(a, c)
  <2>1. Xor(b, c) \in Word /\ Xor(b, Xor(b, c)) = c
    <3>1. Xor(Xor(b, b), c) = Xor(b, Xor(b, c)) /\ Xor(b, b) = 0 /\ Xor(0, c) = c
      BY XorLaws
    <3>. QED BY <3>1, XorLaws
  <2>2. \A d \in Word : Xor(Xor(a, b), d) = Xor(a, Xor(b, d))
    BY XorLaws
  <2>. QED BY <2>1, <2>2
<1>9. XorValues(other, node.bits) = Xor(node.value, Xor(cell[s].value, other[s].value))
  <2>1. node.value = Xor(XorValues(cell, S), cell[s].value)
    BY <1>1, <1>6 DEF Holds
  <2>2. XorValues(other, node.bits) = Xor(XorValues(cell, S), other[s].value)
    BY <1>1, <1>5, <1>6
  <2>. QED BY <1>4, <1>5, <1>8, <2>1, <2>2
<1>. QED BY <1>7, <1>9

LEMMA ReplaceKeeps ==
    ASSUME NEW list, NEW E, Owned(E), BucketInv(list, E),
           NEW s \in Source, NEW r \in E[s], NEW v \in Word,
           NEW F, Changes(F, E, s, r, v)
    PROVE  BucketInv(Replaced(list, NodeAt(list, s, Rank(E[s], r.key)), Xor(r.value, v)), F)
<1>. DEFINE c == NodeAt(list, s, Rank(E[s], r.key))
            x == Xor(r.value, v)
            q == [key |-> r.key, value |-> v]
            new == Replaced(list, c, x)
<1>1. PICK el : Carries(list, el, E)
  BY DEF BucketInv
<1>2. list \in Seq(Node) /\ Placed(list, el, E) /\ Len(list) \in Nat
  BY <1>1 DEF Carries
<1>3. c \in 1 .. Len(list) /\ Has(list, c, s) /\ el[c][s] = r
  BY <1>2, NodeAtRank, OwnedOrders
<1>4. /\ r \in Element /\ q \in Element /\ q.key = r.key /\ q.value = v
      /\ x \in Word /\ r.value \in Word
  BY XorLaws DEF Owned, Keyed, Element
<1>5. \A i \in 1 .. Len(list), t \in Source : Has(list, i, t) => el[i][t] \in E[t] /\ el[i][t] \in Element
  BY <1>2 DEF Placed, Owned, Keyed
<1>. DEFINE cells == [i \in 1 .. Len(list) |-> [t \in Source |->
                        IF i = c /\ t = s THEN q ELSE el[i][t]]]
<1>6. ASSUME NEW i \in 1 .. Len(list), NEW t \in Source
      PROVE  cells[i][t] = IF i = c /\ t = s THEN q ELSE el[i][t]
  OBVIOUS
<1>. HIDE DEF cells, c, x, q
<1>7. PICK node : node = [list[c] EXCEPT !.value = Xor(list[c].value, x)]
  OBVIOUS
<1>8. list[c] \in Node /\ list[c].bits \in SUBSET Source /\ s \in list[c].bits
      /\ list[c].value \in Word
  <2>1. list[c] \in Node
    BY <1>2, <1>3
  <2>. QED BY <1>3, <2>1 DEF Node, Has
<1>9. /\ node \in Node /\ node.bits = list[c].bits /\ node.key = list[c].key
      /\ node.value = Xor(list[c].value, x)
  <2>1. Xor(list[c].value, x) \in Word
    BY <1>4, <1>8, XorLaws
  <2>2. PICK w \in Word : w = Xor(list[c].value, x)
    BY <2>1
  <2>3. node = [list[c] EXCEPT !.value = w]
    BY <1>7, <2>2, Zenon
  <2>4. node \in Node /\ node.bits = list[c].bits /\ node.key = list[c].key /\ node.value = w
    BY <1>8, <2>3 DEF Node
  <2>. QED BY <2>2, <2>4
<1>10. Holds(node, cells[c])
  <2>1. Cells(el[c], list[c].bits) /\ Holds(list[c], el[c])
    BY <1>1, <1>3, <1>5, <1>8 DEF Cells, Has, Carries, Fusing
  <2>2. PICK other : other = cells[c]
    OBVIOUS
  <2>3. other[s] = q /\ \A t \in list[c].bits \ {s} : other[t] = el[c][t]
    BY <1>3, <1>6, <1>8, <2>2
  <2>4. /\ XorKeys(other, list[c].bits) = list[c].key
        /\ XorValues(other, list[c].bits) = Xor(list[c].value, Xor(el[c][s].value, other[s].value))
    BY <1>3, <1>4, <1>8, <2>1, <2>3, ReplaceHolds
  <2>. QED BY <1>3, <1>4, <1>9, <2>2, <2>3, <2>4 DEF Holds, x
<1>11. /\ new \in Seq(Node) /\ Len(new) = Len(list)
       /\ \A i \in 1 .. Len(list) : new[i] = IF i = c THEN node ELSE list[i]
  <2>1. new = [list EXCEPT ![c] = node]
    BY <1>7, Zenon DEF Replaced
  <2>. HIDE DEF new
  <2>. QED BY <1>2, <1>3, <1>9, <2>1
<1>. HIDE DEF new
<1>12. ASSUME NEW i \in 1 .. Len(list), NEW t \in Source
       PROVE  Has(new, i, t) <=> Has(list, i, t)
  BY <1>9, <1>11 DEF Has
<1>13. ASSUME NEW i \in 1 .. Len(list), NEW t \in Source, Has(list, i, t)
       PROVE  /\ cells[i][t].key = el[i][t].key
              /\ el[i][t] # r \/ t # s => cells[i][t] = el[i][t]
              /\ el[i][t] = r /\ t = s => cells[i][t] = q
  <2>1. CASE i = c /\ t = s
    BY <1>3, <1>4, <1>6, <2>1
  <2>2. CASE t # s
    BY <1>6, <2>2
  <2>3. CASE i # c /\ t = s
    <3>1. el[i][t] # r
      <4>1. el[i][s].key # el[c][s].key
        <5>1. el[i][s].key \in Nat /\ el[c][s].key \in Nat
          BY <1>3, <1>5, <1>13, <2>3, WordIsNat DEF Element
        <5>2. i < c \/ c < i
          BY <1>3, <2>3
        <5>. QED BY <1>2, <1>3, <1>13, <2>3, <5>1, <5>2 DEF Placed
      <4>. QED BY <1>3, <2>3, <4>1
    <3>. QED BY <1>6, <2>3, <3>1
  <2>. QED BY <2>1, <2>2, <2>3
<1>14. Placed(new, cells, F)
  <2>1. ASSUME NEW i \in 1 .. Len(new), NEW t \in Source, Has(new, i, t) PROVE cells[i][t] \in F[t]
    <3>1. i \in 1 .. Len(list) /\ Has(list, i, t) /\ el[i][t] \in E[t]
      BY <1>5, <1>11, <1>12, <2>1
    <3>2. CASE el[i][t] = r /\ t = s
      BY <1>13, <3>1, <3>2 DEF Changes, q
    <3>3. CASE el[i][t] # r \/ t # s
      <4>1. el[i][t] \in F[t]
        BY <3>1, <3>3 DEF Changes
      <4>. QED BY <1>13, <3>1, <3>3, <4>1
    <3>. QED BY <3>2, <3>3
  <2>2. ASSUME NEW t \in Source, NEW p \in F[t]
        PROVE  \E i \in 1 .. Len(new) : Has(new, i, t) /\ cells[i][t] = p
    <3>1. CASE p \in E[t] /\ (p # r \/ t # s)
      <4>1. PICK i \in 1 .. Len(list) : Has(list, i, t) /\ el[i][t] = p
        BY <1>2, <3>1 DEF Placed
      <4>2. cells[i][t] = p
        BY <1>13, <3>1, <4>1
      <4>. QED BY <1>11, <1>12, <4>1, <4>2
    <3>2. CASE ~(p \in E[t] /\ (p # r \/ t # s))
      <4>1. p = q /\ t = s
        BY <3>2 DEF Changes, q
      <4>2. cells[c][s] = q
        BY <1>3, <1>13
      <4>. QED BY <1>3, <1>11, <1>12, <4>1, <4>2
    <3>. QED BY <3>1, <3>2
  <2>3. ASSUME NEW t \in Source, NEW i \in 1 .. Len(new), NEW j \in 1 .. Len(new),
               Has(new, i, t), Has(new, j, t), i < j
        PROVE  cells[i][t].key < cells[j][t].key
    <3>1. i \in 1 .. Len(list) /\ j \in 1 .. Len(list) /\ Has(list, i, t) /\ Has(list, j, t)
      BY <1>11, <1>12, <2>3
    <3>2. el[i][t].key < el[j][t].key
      BY <1>2, <2>3, <3>1 DEF Placed
    <3>. QED BY <1>13, <3>1, <3>2
  <2>. QED BY <2>1, <2>2, <2>3 DEF Placed
<1>15. Fusing(new, cells)
  <2>1. SUFFICES ASSUME NEW i \in 1 .. Len(new) PROVE Holds(new[i], cells[i])
    BY DEF Fusing
  <2>2. CASE i = c
    <3>1. new[i] = node
      BY <1>11, <2>2
    <3>. QED BY <1>10, <2>2, <3>1
  <2>3. CASE i # c
    <3>1. i \in 1 .. Len(list) /\ new[i] = list[i] /\ list[i].bits \in SUBSET Source
      <4>1. i \in 1 .. Len(list) /\ new[i] = list[i]
        BY <1>11, <2>3
      <4>2. list[i] \in Node
        BY <1>2, <4>1
      <4>. QED BY <4>1, <4>2 DEF Node
    <3>2. \A t \in list[i].bits : cells[i][t] = el[i][t]
      BY <1>6, <2>3, <3>1
    <3>3. Holds(list[i], el[i])
      BY <1>1, <3>1 DEF Carries, Fusing
    <3>. QED BY <3>1, <3>2, <3>3, XorsSame DEF Holds
  <2>. QED BY <2>2, <2>3
<1>16. BucketInv(new, F)
  BY <1>11, <1>14, <1>15 DEF BucketInv, Carries
<1>. QED BY <1>16 DEF new, c, x

-----------------------------------------------------------------------------
(* Delete                                                                  *)

\* An empty node carries nothing and may go.
LEMMA UnlinkKeeps ==
    ASSUME NEW list, NEW E, BucketInv(list, E), NEW c \in 1 .. Len(list)
    PROVE  /\ BucketInv(Unlink(list, c), E)
           /\ Unlink(list, c) \in Seq(Node)
           /\ Len(Unlink(list, c)) = Len(list) - (IF list[c].bits = {} THEN 1 ELSE 0)
<1>1. PICK el : Carries(list, el, E)
  BY DEF BucketInv
<1>2. list \in Seq(Node) /\ Len(list) \in Nat
  BY <1>1 DEF Carries
<1>. DEFINE new == RemoveAt(list, c)
            cells == [i \in 1 .. Len(list) - 1 |-> IF i < c THEN el[i] ELSE el[i + 1]]
            move == [i \in 1 .. Len(list) |-> IF i < c THEN i ELSE i - 1]
<1>3. /\ new \in Seq(Node) /\ Len(new) = Len(list) - 1
      /\ \A j \in 1 .. Len(list) - 1 : new[j] = IF j < c THEN list[j] ELSE list[j + 1]
  BY <1>2, RemoveAtIs
<1>4. /\ \A j \in 1 .. Len(list) - 1 : cells[j] = IF j < c THEN el[j] ELSE el[j + 1]
      /\ \A i \in 1 .. Len(list) : move[i] = IF i < c THEN i ELSE i - 1
  OBVIOUS
<1>. HIDE DEF new, cells, move
<1>5. CASE list[c].bits = {}
  <2>1. Moves(list, el, new, cells, move)
    <3>1. ASSUME NEW i \in 1 .. Len(list), NEW s \in Source, Has(list, i, s)
          PROVE  move[i] \in 1 .. Len(new) /\ Has(new, move[i], s) /\ cells[move[i]][s] = el[i][s]
      <4>1. i # c
        BY <1>5, <3>1 DEF Has
      <4>2. CASE i < c
        <5>1. move[i] = i /\ i \in 1 .. Len(list) - 1
          BY <1>2, <1>4, <4>2
        <5>. QED BY <1>3, <1>4, <3>1, <4>2, <5>1 DEF Has
      <4>3. CASE i > c
        <5>1. PICK j \in 1 .. Len(list) - 1 : j = i - 1 /\ ~(j < c) /\ j + 1 = i
          BY <1>2, <4>3
        <5>2. move[i] = j
          BY <1>4, <4>3, <5>1
        <5>3. new[j] = list[i] /\ cells[j] = el[i]
          BY <1>3, <1>4, <5>1
        <5>. QED BY <1>3, <3>1, <5>2, <5>3 DEF Has
      <4>. QED BY <1>2, <4>1, <4>2, <4>3
    <3>2. ASSUME NEW j \in 1 .. Len(new), NEW s \in Source, Has(new, j, s)
          PROVE  \E i \in 1 .. Len(list) : Has(list, i, s) /\ move[i] = j
      <4>1. CASE j < c
        <5>1. j \in 1 .. Len(list) - 1 /\ j \in 1 .. Len(list)
          BY <1>2, <1>3
        <5>2. new[j] = list[j]
          BY <1>3, <4>1, <5>1
        <5>3. move[j] = j
          BY <1>4, <4>1, <5>1
        <5>. QED BY <3>2, <5>1, <5>2, <5>3 DEF Has
      <4>2. CASE ~(j < c)
        <5>1. PICK i \in 1 .. Len(list) : i = j + 1 /\ ~(i < c) /\ i - 1 = j
          BY <1>2, <1>3, <4>2
        <5>2. new[j] = list[i] /\ move[i] = j
          BY <1>3, <1>4, <4>2, <5>1
        <5>. QED BY <3>2, <5>2 DEF Has
      <4>. QED BY <4>1, <4>2
    <3>3. \A i, j \in 1 .. Len(list) : move[i] < move[j] => i < j
      BY <1>2, <1>4
    <3>. QED BY <3>1, <3>2, <3>3 DEF Moves
  <2>2. Placed(new, cells, E)
    BY <1>1, <2>1, MovesPlaced DEF Carries
  <2>3. Fusing(new, cells)
    <3>1. SUFFICES ASSUME NEW j \in 1 .. Len(new) PROVE Holds(new[j], cells[j])
      BY DEF Fusing
    <3>2. PICK i \in 1 .. Len(list) : i = IF j < c THEN j ELSE j + 1
      BY <1>2, <1>3
    <3>3. new[j] = list[i] /\ cells[j] = el[i]
      BY <1>3, <1>4, <3>2
    <3>. QED BY <1>1, <3>3 DEF Carries, Fusing
  <2>4. Carries(new, cells, E)
    BY <1>3, <2>2, <2>3 DEF Carries
  <2>5. Unlink(list, c) = new /\ BucketInv(new, E)
    BY <1>5, <2>4 DEF BucketInv, Unlink, new
  <2>. QED BY <1>3, <1>5, <2>5
<1>6. CASE list[c].bits # {}
  <2>1. Unlink(list, c) = list
    BY <1>6 DEF Unlink
  <2>. QED BY <1>2, <1>6, <2>1
<1>. QED BY <1>5, <1>6

\* The nodes in R are disjoint, and cell has the records of all of them.
Combinable(list, el, R, cell) ==
    /\ R \in SUBSET (1 .. Len(list))
    /\ \A i \in R : Cells(el[i], list[i].bits)
    /\ \A i, j \in R : i # j => list[i].bits \cap list[j].bits = {}
    /\ \A i \in R : \A s \in list[i].bits : cell[s] = el[i][s]

\* The node in which they are combined.
LEMMA CombinedHolds ==
    ASSUME NEW list \in Seq(Node), NEW el, Fusing(list, el),
           NEW R, IsFiniteSet(R), NEW cell, Combinable(list, el, R, cell)
    PROVE  Combined(list, R) \in Node /\ Holds(Combined(list, R), cell)
<1>. DEFINE S == UNION {list[i].bits : i \in R}
            d == [i \in R |-> list[i].bits]
            keys == [i \in R |-> list[i].key]
            values == [i \in R |-> list[i].value]
            fk == [s \in S |-> cell[s].key]
            fv == [s \in S |-> cell[s].value]
<1>1. \A i \in R : list[i] \in Node /\ i \in 1 .. Len(list)
  BY DEF Combinable
<1>2. \A i \in R : /\ list[i].bits \in SUBSET Source /\ IsFiniteSet(list[i].bits)
                   /\ list[i].key \in Word /\ list[i].value \in Word
  BY <1>1, SomeSources DEF Node
<1>3. S \in SUBSET Source /\ IsFiniteSet(S)
  <2>1. S \in SUBSET Source
    BY <1>2
  <2>. QED BY <2>1, SomeSources
<1>4. Cells(cell, S)
  BY <1>1 DEF Cells, Combinable
<1>5. WordsOn(fk, S) /\ WordsOn(fv, S) /\ WordsOn(keys, R) /\ WordsOn(values, R)
  BY <1>2, <1>4 DEF WordsOn, Cells, Element
<1>6. ASSUME NEW i \in R
      PROVE  /\ list[i].key = XorOver(fk, list[i].bits)
             /\ list[i].value = XorOver(fv, list[i].bits)
  <2>. DEFINE T == list[i].bits
              gk == [s \in T |-> cell[s].key]
              gv == [s \in T |-> cell[s].value]
  <2>1. /\ list[i].key = XorKeys(el[i], T) /\ list[i].value = XorValues(el[i], T)
        /\ \A s \in T : cell[s] = el[i][s]
    BY <1>1 DEF Fusing, Holds, Combinable
  <2>2. XorKeys(cell, T) = XorKeys(el[i], T) /\ XorValues(cell, T) = XorValues(el[i], T)
    BY <1>2, <2>1, XorsSame
  <2>3. \A s \in T : fk[s] = gk[s] /\ fv[s] = gv[s]
    OBVIOUS
  <2>4. XorOver(fk, T) = XorOver(gk, T) /\ XorOver(fv, T) = XorOver(gv, T)
    <3>1. IsFiniteSet(T)
      BY <1>2
    <3>. HIDE DEF fk, fv, gk, gv, T
    <3>. QED BY <2>3, <3>1, XorOverSame
  <2>. QED BY <2>1, <2>2, <2>4 DEF XorKeys, XorValues
<1>7. /\ \A i \in R : /\ d[i] = list[i].bits /\ IsFiniteSet(d[i])
                      /\ WordsOn(fk, d[i]) /\ WordsOn(fv, d[i])
                      /\ keys[i] = XorOver(fk, d[i]) /\ values[i] = XorOver(fv, d[i])
      /\ \A i, j \in R : i # j => d[i] \cap d[j] = {}
      /\ Members(d, R) = S
  <2>1. \A i \in R : d[i] = list[i].bits /\ IsFiniteSet(d[i])
    BY <1>2
  <2>2. \A i \in R : WordsOn(fk, d[i]) /\ WordsOn(fv, d[i])
    BY <1>5 DEF WordsOn
  <2>3. \A i \in R : keys[i] = XorOver(fk, d[i]) /\ values[i] = XorOver(fv, d[i])
    <3>1. \A i \in R : keys[i] = list[i].key /\ values[i] = list[i].value
      OBVIOUS
    <3>. HIDE DEF keys, values, fk, fv, d
    <3>. QED BY <1>6, <2>1, <3>1
  <2>4. \A i, j \in R : i # j => d[i] \cap d[j] = {}
    BY DEF Combinable
  <2>5. Members(d, R) = S
    BY DEF Members
  <2>. QED BY <2>1, <2>2, <2>3, <2>4, <2>5
<1>. HIDE DEF d, keys, values, fk, fv, S
<1>8. XorOver(keys, R) = XorOver(fk, S) /\ XorOver(values, R) = XorOver(fv, S)
  <2>1. Family(fk, R, d, keys) /\ Family(fv, R, d, values)
    BY <1>7 DEF Family
  <2>. QED BY <1>7, <2>1, XorOverFamily
<1>9. XorOver(keys, R) \in Word /\ XorOver(values, R) \in Word
  BY <1>5, XorOverTyped
<1>10. Combined(list, R) = [key |-> XorOver(keys, R), value |-> XorOver(values, R), bits |-> S]
  BY DEF Combined, keys, values, S
<1>11. XorOver(fk, S) = XorKeys(cell, S) /\ XorOver(fv, S) = XorValues(cell, S)
  BY DEF XorKeys, XorValues, fk, fv
<1>12. Combined(list, R) \in Node
  BY <1>3, <1>9, <1>10 DEF Node
<1>13. Holds(Combined(list, R), cell)
  BY <1>8, <1>10, <1>11 DEF Holds
<1>. QED BY <1>12, <1>13

\* A range of disjoint nodes as one carries what they did.
LEMMA MergeKeeps ==
    ASSUME NEW list, NEW E, Owned(E), BucketInv(list, E),
           NEW l \in Nat, l >= 1, NEW r \in Nat, l <= r, r <= Len(list), Disjoint(list, l, r)
    PROVE  BucketInv(Splice(list, l, Combined(list, l .. r), r), E)
<1>1. PICK el : Carries(list, el, E)
  BY DEF BucketInv
<1>2. list \in Seq(Node) /\ Len(list) \in Nat /\ Placed(list, el, E) /\ Fusing(list, el)
  BY <1>1 DEF Carries
<1>. DEFINE R == l .. r
            node == Combined(list, R)
            new == Splice(list, l, node, r)
            cell == [s \in Source |-> el[CHOOSE m \in R : Has(list, m, s)][s]]
            cells == [j \in 1 .. Len(list) - (r - l) |->
                        IF j < l THEN el[j] ELSE IF j = l THEN cell ELSE el[j + (r - l)]]
            move == [i \in 1 .. Len(list) |->
                        IF i < l THEN i ELSE IF i <= r THEN l ELSE i - (r - l)]
<1>3. IsFiniteSet(R) /\ R \subseteq 1 .. Len(list)
  <2>1. l \in Int /\ r \in Int
    OBVIOUS
  <2>2. IsFiniteSet(R)
    BY <2>1, FS_Interval
  <2>. QED BY <1>2, <2>2
<1>4. \A i \in 1 .. Len(list) : list[i].bits \in SUBSET Source
  <2>1. \A i \in 1 .. Len(list) : list[i] \in Node
    BY <1>2
  <2>. QED BY <2>1 DEF Node
<1>5. \A i, j \in R : i # j => list[i].bits \cap list[j].bits = {}
  BY DEF Disjoint
<1>6. \A i \in R : \A s \in list[i].bits : cell[s] = el[i][s]
  <2>. SUFFICES ASSUME NEW i \in R, NEW s \in list[i].bits PROVE cell[s] = el[i][s]
    OBVIOUS
  <2>1. \A m \in R : Has(list, m, s) => m = i
    BY <1>5 DEF Has
  <2>2. Has(list, i, s)
    BY DEF Has
  <2>3. (CHOOSE m \in R : Has(list, m, s)) = i
    <3>. HIDE DEF R
    <3>. QED BY <2>1, <2>2
  <2>4. s \in Source
    BY <1>3, <1>4
  <2>. QED BY <2>3, <2>4
<1>7. \A i \in 1 .. Len(list) : Cells(el[i], list[i].bits)
  BY <1>2, <1>4 DEF Cells, Placed, Has, Owned, Keyed
<1>. HIDE DEF cell
<1>8. node \in Node /\ Holds(node, cell)
  <2>1. Combinable(list, el, R, cell)
    BY <1>3, <1>5, <1>6, <1>7 DEF Combinable
  <2>. HIDE DEF R
  <2>. QED BY <1>2, <1>3, <2>1, CombinedHolds
<1>9. \A s \in Source : s \in node.bits <=> \E i \in R : Has(list, i, s)
  BY DEF Combined, Has
<1>. HIDE DEF node
<1>10. /\ new \in Seq(Node)
       /\ Len(new) = Len(list) - (r - l)
       /\ \A j \in 1 .. Len(list) - (r - l) :
             new[j] = IF j < l THEN list[j] ELSE IF j = l THEN node ELSE list[j + (r - l)]
  <2>. HIDE DEF R, cells, move
  <2>1. l <= r + 1 /\ r <= Len(list) /\ l >= 1 /\ l \in Nat /\ r \in Nat
    OBVIOUS
  <2>2. PICK n \in Node : n = node
    BY <1>8
  <2>3. /\ Splice(list, l, n, r) \in Seq(Node)
        /\ Len(Splice(list, l, n, r)) = Len(list) - (r - l)
        /\ \A j \in 1 .. Len(list) - (r - l) :
              Splice(list, l, n, r)[j] =
                 IF j < l THEN list[j] ELSE IF j = l THEN n ELSE list[j + (r - l)]
    BY <1>2, <2>1, SpliceIs
  <2>. QED BY <2>2, <2>3
<1>11. /\ \A j \in 1 .. Len(list) - (r - l) :
             cells[j] = IF j < l THEN el[j] ELSE IF j = l THEN cell ELSE el[j + (r - l)]
       /\ \A i \in 1 .. Len(list) :
             move[i] = IF i < l THEN i ELSE IF i <= r THEN l ELSE i - (r - l)
  OBVIOUS
<1>. HIDE DEF new, cells, move
<1>12. Moves(list, el, new, cells, move)
  <2>1. ASSUME NEW i \in 1 .. Len(list), NEW s \in Source, Has(list, i, s)
        PROVE  move[i] \in 1 .. Len(new) /\ Has(new, move[i], s) /\ cells[move[i]][s] = el[i][s]
    <3>1. CASE i < l
      <4>1. i \in 1 .. Len(list) - (r - l) /\ move[i] = i
        BY <1>2, <1>11, <3>1
      <4>2. new[i] = list[i] /\ cells[i] = el[i]
        BY <1>10, <1>11, <3>1, <4>1
      <4>. QED BY <1>10, <2>1, <4>1, <4>2 DEF Has
    <3>2. CASE l <= i /\ i <= r
      <4>1. l \in 1 .. Len(list) - (r - l) /\ move[i] = l /\ i \in R /\ ~(l < l)
        BY <1>2, <1>11, <3>2
      <4>2. new[l] = node /\ cells[l] = cell
        BY <1>10, <1>11, <4>1
      <4>3. Has(new, l, s)
        BY <1>9, <2>1, <4>1, <4>2 DEF Has
      <4>4. cell[s] = el[i][s]
        BY <1>6, <2>1, <4>1 DEF Has
      <4>. QED BY <1>10, <4>1, <4>2, <4>3, <4>4
    <3>3. CASE i > r
      <4>1. PICK j \in 1 .. Len(list) - (r - l) : j = i - (r - l) /\ j > l /\ j + (r - l) = i
        BY <1>2, <3>3
      <4>2. move[i] = j
        BY <1>11, <3>3, <4>1
      <4>3. new[j] = list[i] /\ cells[j] = el[i]
        BY SMTT(30), <1>10, <1>11, <4>1
      <4>. QED BY <1>10, <2>1, <4>1, <4>2, <4>3 DEF Has
    <3>. QED BY <3>1, <3>2, <3>3
  <2>2. ASSUME NEW j \in 1 .. Len(new), NEW s \in Source, Has(new, j, s)
        PROVE  \E i \in 1 .. Len(list) : Has(list, i, s) /\ move[i] = j
    <3>1. j \in 1 .. Len(list) - (r - l) /\ j \in Nat
      BY <1>10
    <3>2. CASE j < l
      <4>1. j \in 1 .. Len(list) /\ new[j] = list[j] /\ move[j] = j
        BY <1>2, <1>10, <1>11, <3>1, <3>2
      <4>. QED BY <2>2, <4>1 DEF Has
    <3>3. CASE j = l
      <4>1. new[j] = node
        BY <1>10, <3>1, <3>3
      <4>2. PICK i \in R : Has(list, i, s)
        BY <1>9, <2>2, <4>1 DEF Has
      <4>3. i \in 1 .. Len(list) /\ move[i] = l
        BY <1>2, <1>11, <4>2
      <4>. QED BY <3>3, <4>2, <4>3
    <3>4. CASE j > l
      <4>1. PICK i \in 1 .. Len(list) : i = j + (r - l) /\ i > r /\ i - (r - l) = j
        BY <1>2, <3>1, <3>4
      <4>2. new[j] = list[i]
        BY <1>10, <3>1, <3>4, <4>1
      <4>3. move[i] = j
        BY <1>11, <4>1
      <4>. QED BY <2>2, <4>2, <4>3 DEF Has
    <3>. QED BY <3>1, <3>2, <3>3, <3>4
  <2>3. \A i, j \in 1 .. Len(list) : move[i] < move[j] => i < j
    BY <1>2, <1>11
  <2>. QED BY <2>1, <2>2, <2>3 DEF Moves
<1>13. Placed(new, cells, E)
  BY <1>2, <1>12, MovesPlaced
<1>14. Fusing(new, cells)
  <2>1. SUFFICES ASSUME NEW j \in 1 .. Len(new) PROVE Holds(new[j], cells[j])
    BY DEF Fusing
  <2>2. j \in 1 .. Len(list) - (r - l)
    BY <1>10
  <2>3. CASE j = l
    <3>1. new[j] = node /\ cells[j] = cell
      BY <1>10, <1>11, <2>2, <2>3
    <3>2. Holds(node, cell)
      BY <1>8
    <3>. QED BY <3>1, <3>2
  <2>4. CASE j # l
    <3>1. \E i \in 1 .. Len(list) : new[j] = list[i] /\ cells[j] = el[i]
      <4>1. CASE j < l
        <5>1. j \in 1 .. Len(list) /\ new[j] = list[j] /\ cells[j] = el[j]
          BY <1>2, <1>10, <1>11, <2>2, <4>1
        <5>. QED BY <5>1
      <4>2. CASE j > l
        <5>1. j + (r - l) \in 1 .. Len(list)
          BY <1>2, <2>2, <4>2
        <5>2. new[j] = list[j + (r - l)] /\ cells[j] = el[j + (r - l)]
          BY <1>10, <1>11, <2>2, <4>2
        <5>. QED BY <5>1, <5>2
      <4>. QED BY <2>2, <2>4, <4>1, <4>2
    <3>2. PICK i \in 1 .. Len(list) : new[j] = list[i] /\ cells[j] = el[i]
      BY <3>1
    <3>. QED BY <1>2, <3>2 DEF Fusing
  <2>. QED BY <2>3, <2>4
<1>15. BucketInv(new, E)
  BY <1>10, <1>13, <1>14 DEF BucketInv, Carries
<1>. QED BY <1>15 DEF new, node

Vacated(list, i, s, k, v) == [list EXCEPT ![i] = Vacate(@, s, k, v)]

\* The node of a record gives it up.
LEMMA VacateKeeps ==
    ASSUME NEW list, NEW el, NEW E, Owned(E), Carries(list, el, E),
           NEW s \in Source, NEW r \in E[s],
           NEW c \in 1 .. Len(list), Has(list, c, s), el[c][s] = r,
           NEW F, Drops(F, E, s, r)
    PROVE  BucketInv(Vacated(list, c, s, r.key, r.value), F)
<1>. DEFINE new == Vacated(list, c, s, r.key, r.value)
            node == [key |-> Xor(list[c].key, r.key), value |-> Xor(list[c].value, r.value),
                     bits |-> list[c].bits \ {s}]
<1>1. list \in Seq(Node) /\ Placed(list, el, E) /\ Fusing(list, el) /\ Len(list) \in Nat
  BY DEF Carries
<1>2. list[c] \in Node /\ list[c].bits \in SUBSET Source /\ s \in list[c].bits
      /\ r.key \in Word /\ r.value \in Word
  <2>1. list[c] \in Node
    BY <1>1
  <2>. QED BY <2>1 DEF Node, Has, Owned, Keyed, Element
<1>3. Cells(el[c], list[c].bits) /\ Holds(list[c], el[c])
  BY <1>1, <1>2 DEF Cells, Has, Placed, Owned, Keyed, Fusing
<1>4. /\ Xor(list[c].key, r.key) = XorKeys(el[c], list[c].bits \ {s})
      /\ Xor(list[c].value, r.value) = XorValues(el[c], list[c].bits \ {s})
      /\ Xor(list[c].key, r.key) \in Word /\ Xor(list[c].value, r.value) \in Word
  <2>. DEFINE cell == el[c]
  <2>1. PICK n \in Node : n = list[c]
    BY <1>2
  <2>. HIDE DEF cell
  <2>2. /\ Xor(n.key, cell[s].key) = XorKeys(cell, n.bits \ {s})
        /\ Xor(n.value, cell[s].value) = XorValues(cell, n.bits \ {s})
        /\ XorKeys(cell, n.bits \ {s}) \in Word /\ XorValues(cell, n.bits \ {s}) \in Word
    BY <1>2, <1>3, <2>1, VacateHolds DEF cell
  <2>3. cell[s] = r
    BY DEF cell
  <2>. QED BY <2>1, <2>2, <2>3 DEF cell
<1>5. node \in Node /\ node.bits = list[c].bits \ {s} /\ Holds(node, el[c])
  <2>1. node \in Node /\ node.bits = list[c].bits \ {s}
    BY <1>2, <1>4 DEF Node
  <2>2. Holds(node, el[c])
    BY <1>4 DEF Holds
  <2>. QED BY <2>1, <2>2
<1>6. [Fused(list[c], r.key, r.value) EXCEPT !.bits = list[c].bits \ {s}] = node
  <2>1. PICK k \in Word, v \in Word : k = r.key /\ v = r.value
    BY <1>2
  <2>2. [Fused(list[c], k, v) EXCEPT !.bits = list[c].bits \ {s}]
           = [key |-> Xor(list[c].key, k), value |-> Xor(list[c].value, v),
              bits |-> list[c].bits \ {s}]
    BY <1>2, FusedIs
  <2>. QED BY <2>1, <2>2, Zenon
<1>7. Fused(list[c], r.key, r.value).bits = list[c].bits
  BY <1>2 DEF Fused, Node
<1>8. new = [list EXCEPT ![c] = node]
  <2>1. Vacate(list[c], s, r.key, r.value) = node
    <3>1. PICK x : x = Fused(list[c], r.key, r.value)
      OBVIOUS
    <3>2. x.bits = list[c].bits
      BY <1>7, <3>1
    <3>3. [x EXCEPT !.bits = x.bits \ {s}] = node
      BY <1>6, <3>1, <3>2, Zenon
    <3>4. Vacate(list[c], s, r.key, r.value) = [x EXCEPT !.bits = x.bits \ {s}]
      BY <3>1, Zenon DEF Vacate
    <3>. QED BY <3>3, <3>4, Zenon
  <2>. HIDE DEF node
  <2>. QED BY <2>1, Zenon DEF Vacated
<1>. HIDE DEF new, node
<1>9. /\ new \in Seq(Node) /\ Len(new) = Len(list)
      /\ \A i \in 1 .. Len(list) : new[i] = IF i = c THEN node ELSE list[i]
  BY <1>1, <1>5, <1>8
<1>10. ASSUME NEW i \in 1 .. Len(list), NEW t \in Source
       PROVE  Has(new, i, t) <=> Has(list, i, t) /\ ~(i = c /\ t = s)
  BY <1>5, <1>9 DEF Has
<1>11. ASSUME NEW i \in 1 .. Len(list), Has(list, i, s), el[i][s] = r PROVE i = c
  <2>1. r.key \in Nat
    BY <1>2, WordIsNat
  <2>2. ~(i < c) /\ ~(c < i)
    BY SMTT(30), <1>1, <1>11, <2>1 DEF Placed
  <2>. QED BY <1>1, <2>2
<1>12. Placed(new, el, F)
  <2>1. ASSUME NEW i \in 1 .. Len(new), NEW t \in Source, Has(new, i, t) PROVE el[i][t] \in F[t]
    <3>1. i \in 1 .. Len(list) /\ Has(list, i, t) /\ ~(i = c /\ t = s)
      BY <1>9, <1>10, <2>1
    <3>2. el[i][t] \in E[t]
      BY <1>1, <3>1 DEF Placed
    <3>3. t = s => el[i][t] # r
      BY <1>11, <3>1
    <3>. QED BY <3>2, <3>3 DEF Drops
  <2>2. ASSUME NEW t \in Source, NEW q \in F[t]
        PROVE  \E i \in 1 .. Len(new) : Has(new, i, t) /\ el[i][t] = q
    <3>1. q \in E[t] /\ (t = s => q # r)
      BY DEF Drops
    <3>2. PICK i \in 1 .. Len(list) : Has(list, i, t) /\ el[i][t] = q
      BY <1>1, <3>1 DEF Placed
    <3>3. ~(i = c /\ t = s)
      BY <3>1, <3>2
    <3>. QED BY <1>9, <1>10, <3>2, <3>3
  <2>3. ASSUME NEW t \in Source, NEW i \in 1 .. Len(new), NEW j \in 1 .. Len(new),
               Has(new, i, t), Has(new, j, t), i < j
        PROVE  el[i][t].key < el[j][t].key
    <3>1. i \in 1 .. Len(list) /\ j \in 1 .. Len(list) /\ Has(list, i, t) /\ Has(list, j, t)
      BY <1>9, <1>10, <2>3
    <3>. QED BY <1>1, <2>3, <3>1 DEF Placed
  <2>. QED BY <2>1, <2>2, <2>3 DEF Placed
<1>13. Fusing(new, el)
  <2>1. SUFFICES ASSUME NEW i \in 1 .. Len(new) PROVE Holds(new[i], el[i])
    BY DEF Fusing
  <2>2. CASE i = c
    <3>1. new[i] = node
      BY <1>9, <2>2
    <3>. QED BY <1>5, <2>2, <3>1
  <2>3. CASE i # c
    <3>1. i \in 1 .. Len(list) /\ new[i] = list[i]
      BY <1>9, <2>3
    <3>. QED BY <1>1, <3>1 DEF Fusing
  <2>. QED BY <2>2, <2>3
<1>. QED BY <1>9, <1>12, <1>13 DEF new, BucketInv, Carries

\* Delete keeps what the bucket carried but for the record.
LEMMA DeleteKeeps ==
    ASSUME NEW list, NEW E, Owned(E), BucketInv(list, E),
           NEW s \in Source, NEW r \in E[s],
           NEW F, Owned(F), Drops(F, E, s, r)
    PROVE  BucketInv(DeleteFrom(list, s, Rank(E[s], r.key), r.key, r.value), F)
<1>. DEFINE c == NodeAt(list, s, Rank(E[s], r.key))
            left == Vacated(list, c, s, r.key, r.value)
            linked == Unlink(left, c)
            range == Swallowed(left, c)
            node == Combined(linked, range)
<1>1. PICK el : Carries(list, el, E)
  BY DEF BucketInv
<1>2. list \in Seq(Node) /\ Placed(list, el, E) /\ Len(list) \in Nat
  BY <1>1 DEF Carries
<1>3. c \in 1 .. Len(list) /\ Has(list, c, s) /\ el[c][s] = r
  BY <1>2, NodeAtRank, OwnedOrders
<1>4. DeleteFrom(list, s, Rank(E[s], r.key), r.key, r.value) = MergeNodes(left, c, node)
  BY DEF DeleteFrom, Vacated
<1>5. MergeNodes(left, c, node)
         = IF linked = <<>> THEN <<>>
           ELSE SubSeq(linked, 1, Min(range) - 1) \o <<node>>
                    \o SubSeq(linked, Max(range) + 1, Len(linked))
  BY DEF MergeNodes
<1>6. BucketInv(left, F)
  <2>. HIDE DEF c
  <2>. QED BY <1>1, <1>3, VacateKeeps
<1>7. left \in Seq(Node) /\ c \in 1 .. Len(left)
  <2>1. PICK cells : Carries(left, cells, F)
    BY <1>6 DEF BucketInv
  <2>2. Len(left) = Len(list)
    BY <1>2 DEF Vacated
  <2>. QED BY <1>3, <2>1, <2>2 DEF Carries
<1>. HIDE DEF c, left, node, range
<1>8. BucketInv(linked, F) /\ linked \in Seq(Node)
      /\ Len(linked) = Len(left) - (IF left[c].bits = {} THEN 1 ELSE 0)
  BY <1>6, <1>7, UnlinkKeeps
<1>9. CASE linked = <<>>
  BY <1>4, <1>5, <1>8, <1>9
<1>10. CASE linked # <<>>
  <2>1. PICK l, r1 \in Nat : Merges(left, c, l, r1)
    BY <1>7, <1>8, <1>10, SwallowedIs, OwnedOrders
  <2>2. /\ l >= 1 /\ l <= r1 /\ r1 <= Len(linked) /\ Disjoint(linked, l, r1)
        /\ range = l .. r1 /\ Min(l .. r1) = l /\ Max(l .. r1) = r1
    BY <2>1 DEF Merges, Widest, range
  <2>. HIDE DEF linked
  <2>3. BucketInv(Splice(linked, l, Combined(linked, l .. r1), r1), F)
    BY <1>8, <2>2, MergeKeeps
  <2>4. MergeNodes(left, c, node) = Splice(linked, l, Combined(linked, l .. r1), r1)
    BY <1>5, <1>10, <2>2 DEF Splice, node
  <2>. QED BY <1>4, <2>3, <2>4
<1>. QED BY <1>9, <1>10

-----------------------------------------------------------------------------
(* The table                                                               *)

\* What every source has in bucket b.
Share(own, b) == [s \in Source |-> InBucket(own[s], b)]

Shares(own) == \A s \in Source : Keyed(own[s])

\* The table carries the records own[s] of every source s.
TableInv(table, own) ==
    /\ table.buckets \in [Bucket -> Seq(Node)]
    /\ table.sizes \in [Source -> [Bucket -> Nat]]
    /\ \A b \in Bucket : BucketInv(table.buckets[b], Share(own, b))
    /\ \A s \in Source, b \in Bucket :
          table.sizes[s][b] = Cardinality(InBucket(own[s], b))

LEMMA BucketTyped == \A k \in Word : BucketOf(k) \in Bucket
<1>1. \A n \in Nat : n % BucketCount \in 0 .. BucketCount - 1
  BY TableAssumption
<1>. QED BY <1>1, WordIsNat DEF BucketOf, Bucket

LEMMA ShareKeyed ==
    ASSUME NEW R, Keyed(R), NEW b
    PROVE  /\ Keyed(InBucket(R, b)) /\ IsFiniteSet(InBucket(R, b))
           /\ Cardinality(InBucket(R, b)) \in Nat
<1>1. InBucket(R, b) \in SUBSET R
  BY DEF InBucket
<1>2. IsFiniteSet(InBucket(R, b))
  BY <1>1, FS_Subset DEF Keyed
<1>3. Keyed(InBucket(R, b))
  BY <1>1, <1>2 DEF Keyed
<1>. QED BY <1>2, <1>3, FS_CardinalityType

LEMMA ShareOwned ==
    ASSUME NEW own, Shares(own), NEW b
    PROVE  Owned(Share(own, b)) /\ \A s \in Source : Share(own, b)[s] = InBucket(own[s], b)
BY ShareKeyed DEF Shares, Owned, Share

\* new is table with list and size in bucket b, where F differs from own in
\* source s.
Updates(new, table, s, b, list, size, own, F) ==
    /\ new.buckets = [table.buckets EXCEPT ![b] = list]
    /\ new.sizes = [table.sizes EXCEPT ![s][b] = size]
    /\ BucketInv(list, Share(F, b))
    /\ size = Cardinality(InBucket(F[s], b))
    /\ \A t \in Source, c \in Bucket :
          t # s \/ c # b => InBucket(F[t], c) = InBucket(own[t], c)

LEMMA UpdatesKeep ==
    ASSUME NEW table, NEW own, TableInv(table, own), NEW F, Shares(F),
           NEW s \in Source, NEW b \in Bucket, NEW list, NEW size, NEW new,
           Updates(new, table, s, b, list, size, own, F)
    PROVE  TableInv(new, F)
<1>1. list \in Seq(Node) /\ size \in Nat
  BY ShareKeyed DEF Updates, BucketInv, Carries, Shares
<1>2. /\ new.buckets \in [Bucket -> Seq(Node)]
      /\ \A c \in Bucket : new.buckets[c] = IF c = b THEN list ELSE table.buckets[c]
  BY <1>1 DEF Updates, TableInv
<1>3. /\ new.sizes \in [Source -> [Bucket -> Nat]]
      /\ \A t \in Source, c \in Bucket :
            new.sizes[t][c] = IF t = s /\ c = b THEN size ELSE table.sizes[t][c]
  BY <1>1 DEF Updates, TableInv
<1>4. ASSUME NEW c \in Bucket PROVE BucketInv(new.buckets[c], Share(F, c))
  <2>1. CASE c = b
    BY <1>2, <2>1 DEF Updates
  <2>2. CASE c # b
    <3>1. \A t \in Source : InBucket(F[t], c) = InBucket(own[t], c)
      BY <2>2 DEF Updates
    <3>2. Share(F, c) = Share(own, c)
      BY <3>1 DEF Share
    <3>. QED BY <1>2, <2>2, <3>2 DEF TableInv
  <2>. QED BY <2>1, <2>2
<1>5. ASSUME NEW t \in Source, NEW c \in Bucket
      PROVE  new.sizes[t][c] = Cardinality(InBucket(F[t], c))
  BY <1>3 DEF Updates, TableInv
<1>. QED BY <1>2, <1>3, <1>4, <1>5 DEF TableInv

LEMMA InsertTable ==
    ASSUME NEW table, NEW own, Shares(own), TableInv(table, own),
           NEW s \in Source, NEW k \in Word, NEW v \in Word, \A q \in own[s] : q.key # k,
           NEW F, Adds(F, own, s, [key |-> k, value |-> v])
    PROVE  LET index == Rank(InBucket(own[s], BucketOf(k)), k)
           IN  /\ Shares(F)
               /\ ValidPosition(table, s, BucketOf(k), index, TRUE)
               /\ TableInv(Insert(table, s, index, k, v), F)
<1>. DEFINE b == BucketOf(k)
            own1 == InBucket(own[s], b)
            index == Rank(own1, k)
            r == [key |-> k, value |-> v]
            new == Insert(table, s, index, k, v)
            list == InsertInto(table.buckets[b], s, index, k, v)
<1>1. b \in Bucket /\ r \in Element /\ r.key = k /\ r.value = v
  BY BucketTyped DEF Element
<1>2. /\ Keyed(own1) /\ IsFiniteSet(own1) /\ Cardinality(own1) \in Nat
      /\ index \in Nat /\ index <= Cardinality(own1)
      /\ table.sizes[s][b] = Cardinality(own1)
  <2>1. Keyed(own1) /\ IsFiniteSet(own1) /\ Cardinality(own1) \in Nat
    BY ShareKeyed DEF Shares
  <2>2. index \in Nat /\ index <= Cardinality(own1)
    BY <2>1, RankTyped, KeyedOrdered
  <2>. QED BY <1>1, <2>1, <2>2 DEF TableInv
<1>. HIDE DEF b, r
<1>3. Shares(F)
  <2>1. SUFFICES ASSUME NEW t \in Source PROVE Keyed(F[t])
    BY DEF Shares
  <2>2. CASE t # s
    BY <2>2 DEF Adds, Shares
  <2>3. CASE t = s
    <3>1. F[s] = own[s] \cup {r} /\ Keyed(own[s])
      BY DEF Adds, Shares, r
    <3>2. IsFiniteSet(F[s])
      BY <3>1, FS_AddElement DEF Keyed
    <3>. QED BY <1>1, <2>3, <3>1, <3>2 DEF Keyed
  <2>. QED BY <2>2, <2>3
<1>4. /\ InBucket(F[s], b) = own1 \cup {r}
      /\ r \notin own1
      /\ \A t \in Source, c \in Bucket :
            t # s \/ c # b => InBucket(F[t], c) = InBucket(own[t], c)
  <2>1. /\ F[s] = own[s] \cup {r} /\ BucketOf(r.key) = b
        /\ \A t \in Source \ {s} : F[t] = own[t]
    BY <1>1 DEF Adds, r, b
  <2>2. r \notin own1
    BY <1>1 DEF InBucket
  <2>3. InBucket(F[s], b) = own1 \cup {r}
    BY <2>1 DEF InBucket
  <2>4. \A c \in Bucket : c # b => InBucket(F[s], c) = InBucket(own[s], c)
    BY <2>1 DEF InBucket
  <2>. QED BY <2>1, <2>2, <2>3, <2>4
<1>5. BucketInv(list, Share(F, b))
  <2>1. Owned(Share(own, b)) /\ BucketInv(table.buckets[b], Share(own, b))
    BY <1>1, ShareOwned DEF TableInv
  <2>2. Share(own, b)[s] = own1 /\ Share(F, b)[s] = own1 \cup {r}
    BY <1>4 DEF Share
  <2>3. Adds(Share(F, b), Share(own, b), s, r)
    <3>1. \A t \in Source \ {s} : Share(F, b)[t] = Share(own, b)[t]
      BY <1>1, <1>4 DEF Share
    <3>. QED BY <2>2, <3>1 DEF Adds
  <2>4. \A q \in own1 : q.key # k
    BY DEF InBucket
  <2>5. PICK E, G, old : E = Share(own, b) /\ G = Share(F, b) /\ old = table.buckets[b]
    OBVIOUS
  <2>6. BucketInv(InsertInto(old, s, Rank(E[s], k), k, v), G)
    <3>1. Owned(E) /\ BucketInv(old, E) /\ Adds(G, E, s, [key |-> k, value |-> v])
          /\ \A q \in E[s] : q.key # k
      BY <2>1, <2>2, <2>3, <2>4, <2>5 DEF r
    <3>. QED BY <3>1, InsertKeeps
  <2>. QED BY <2>2, <2>5, <2>6
<1>6. Cardinality(InBucket(F[s], b)) = table.sizes[s][b] + 1
  <2>. HIDE DEF own1
  <2>. QED BY <1>2, <1>4, FS_AddElement
<1>7. Updates(new, table, s, b, list, table.sizes[s][b] + 1, own, F)
  <2>1. /\ new.buckets = [table.buckets EXCEPT ![b] = list]
        /\ new.sizes = [table.sizes EXCEPT ![s][b] = table.sizes[s][b] + 1]
    BY DEF Insert, b
  <2>. HIDE DEF new, list
  <2>. QED BY <1>4, <1>5, <1>6, <2>1 DEF Updates
<1>8. TableInv(new, F)
  <2>. HIDE DEF new, list
  <2>. QED BY <1>1, <1>3, <1>7, UpdatesKeep
<1>9. ValidPosition(table, s, b, index, TRUE)
  BY <1>2 DEF ValidPosition
<1>. QED BY <1>3, <1>8, <1>9 DEF b

LEMMA ReplaceTable ==
    ASSUME NEW table, NEW own, Shares(own), TableInv(table, own),
           NEW s \in Source, NEW r \in own[s], NEW v \in Word,
           NEW F, Changes(F, own, s, r, v)
    PROVE  LET b == BucketOf(r.key)
               index == Rank(InBucket(own[s], b), r.key)
           IN  /\ Shares(F)
               /\ ValidPosition(table, s, b, index, FALSE)
               /\ TableInv(Replace(table, s, index, r.key, r.value, v), F)
<1>. DEFINE b == BucketOf(r.key)
            own1 == InBucket(own[s], b)
            index == Rank(own1, r.key)
            q == [key |-> r.key, value |-> v]
            new == Replace(table, s, index, r.key, r.value, v)
            c == NodeAt(table.buckets[b], s, index)
            list == Replaced(table.buckets[b], c, Xor(r.value, v))
<1>1. b \in Bucket /\ r \in Element /\ q \in Element /\ q.key = r.key /\ r \in own1
  <2>1. r \in Element
    BY DEF Shares, Keyed
  <2>2. b \in Bucket /\ q \in Element /\ q.key = r.key
    BY <2>1, BucketTyped DEF Element
  <2>. QED BY <2>1, <2>2 DEF InBucket
<1>2. /\ Keyed(own1) /\ IsFiniteSet(own1) /\ Cardinality(own1) \in Nat
      /\ table.sizes[s][b] = Cardinality(own1)
      /\ index \in Nat /\ index < Cardinality(own1)
  <2>1. Keyed(own1) /\ IsFiniteSet(own1) /\ Cardinality(own1) \in Nat
    BY ShareKeyed DEF Shares
  <2>2. index \in Nat /\ index <= Cardinality(own1)
    BY <2>1, RankTyped, KeyedOrdered
  <2>3. r \notin Below(own1, r.key)
    BY <1>1, WordIsNat DEF Below, Element
  <2>4. index # Cardinality(own1)
    BY <1>1, <2>1, <2>3, RankTyped, KeyedOrdered
  <2>5. table.sizes[s][b] = Cardinality(own1)
    BY <1>1 DEF TableInv
  <2>. HIDE DEF index, own1
  <2>. QED BY <2>1, <2>2, <2>4, <2>5
<1>. HIDE DEF b, q
<1>3. /\ F[s] = (own[s] \ {r}) \cup {q}
      /\ \A t \in Source \ {s} : F[t] = own[t]
      /\ Keyed(own[s])
  BY DEF Changes, q, Shares
<1>4. Shares(F)
  <2>1. SUFFICES ASSUME NEW t \in Source PROVE Keyed(F[t])
    BY DEF Shares
  <2>2. CASE t # s
    BY <1>3, <2>2 DEF Shares
  <2>3. CASE t = s
    <3>1. IsFiniteSet(F[s])
      <4>1. IsFiniteSet(own[s] \ {r})
        BY <1>3, FS_RemoveElement DEF Keyed
      <4>. QED BY <1>3, <4>1, FS_AddElement
    <3>2. \A p \in F[s] : p \in Element
      BY <1>1, <1>3 DEF Keyed
    <3>3. \A p, p1 \in F[s] : p.key = p1.key => p = p1
      BY <1>1, <1>3 DEF Keyed
    <3>. QED BY <2>3, <3>1, <3>2, <3>3 DEF Keyed
  <2>. QED BY <2>2, <2>3
<1>5. /\ InBucket(F[s], b) = (own1 \ {r}) \cup {q}
      /\ \A t \in Source, d \in Bucket :
            t # s \/ d # b => InBucket(F[t], d) = InBucket(own[t], d)
  <2>1. BucketOf(q.key) = b /\ BucketOf(r.key) = b
    BY <1>1 DEF b
  <2>2. InBucket(F[s], b) = (own1 \ {r}) \cup {q}
    BY <1>3, <2>1 DEF InBucket
  <2>3. \A d \in Bucket : d # b => InBucket(F[s], d) = InBucket(own[s], d)
    BY <1>3, <2>1 DEF InBucket
  <2>. QED BY <1>3, <2>2, <2>3
<1>6. BucketInv(list, Share(F, b))
  <2>1. Owned(Share(own, b)) /\ BucketInv(table.buckets[b], Share(own, b))
    BY <1>1, ShareOwned DEF TableInv
  <2>2. Share(own, b)[s] = own1 /\ Share(F, b)[s] = (own1 \ {r}) \cup {q}
    BY <1>5 DEF Share
  <2>3. Changes(Share(F, b), Share(own, b), s, r, v)
    <3>1. \A t \in Source \ {s} : Share(F, b)[t] = Share(own, b)[t]
      BY <1>1, <1>5 DEF Share
    <3>. QED BY <2>2, <3>1 DEF Changes, q
  <2>5. PICK E, G, old : E = Share(own, b) /\ G = Share(F, b) /\ old = table.buckets[b]
    OBVIOUS
  <2>6. BucketInv(Replaced(old, NodeAt(old, s, Rank(E[s], r.key)), Xor(r.value, v)), G)
    <3>1. Owned(E) /\ BucketInv(old, E) /\ Changes(G, E, s, r, v) /\ r \in E[s]
      BY <1>1, <2>1, <2>2, <2>3, <2>5
    <3>. QED BY <3>1, ReplaceKeeps
  <2>. QED BY <2>2, <2>5, <2>6
<1>7. Cardinality(InBucket(F[s], b)) = table.sizes[s][b]
  <2>1. q \notin own1 \ {r}
    BY <1>1, <1>2 DEF Keyed
  <2>2. /\ IsFiniteSet(own1 \ {r})
        /\ Cardinality(own1 \ {r}) = Cardinality(own1) - 1
    BY <1>1, <1>2, FS_RemoveElement
  <2>3. Cardinality((own1 \ {r}) \cup {q}) = Cardinality(own1 \ {r}) + 1
    BY <2>1, <2>2, FS_AddElement
  <2>. HIDE DEF own1
  <2>. QED BY <1>2, <1>5, <2>2, <2>3
<1>8. Updates(new, table, s, b, list, table.sizes[s][b], own, F)
  <2>1. new.buckets = [table.buckets EXCEPT ![b] = list]
    BY DEF Replace, Replaced, b
  <2>2. new.sizes = table.sizes
    BY DEF Replace
  <2>3. table.sizes = [table.sizes EXCEPT ![s][b] = table.sizes[s][b]]
    BY DEF TableInv
  <2>. HIDE DEF new, list
  <2>. QED BY <1>5, <1>6, <1>7, <2>1, <2>2, <2>3 DEF Updates
<1>9. TableInv(new, F)
  <2>. HIDE DEF new, list
  <2>. QED BY <1>1, <1>4, <1>8, UpdatesKeep
<1>10. ValidPosition(table, s, b, index, FALSE)
  <2>. HIDE DEF index, own1
  <2>. QED BY <1>2 DEF ValidPosition
<1>. QED BY <1>4, <1>9, <1>10 DEF b

LEMMA DeleteTable ==
    ASSUME NEW table, NEW own, Shares(own), TableInv(table, own),
           NEW s \in Source, NEW r \in own[s], NEW F, Drops(F, own, s, r)
    PROVE  LET b == BucketOf(r.key)
               index == Rank(InBucket(own[s], b), r.key)
           IN  /\ Shares(F)
               /\ ValidPosition(table, s, b, index, FALSE)
               /\ TableInv(Delete(table, s, index, r.key, r.value), F)
<1>. DEFINE b == BucketOf(r.key)
            own1 == InBucket(own[s], b)
            index == Rank(own1, r.key)
            new == Delete(table, s, index, r.key, r.value)
            list == DeleteFrom(table.buckets[b], s, index, r.key, r.value)
<1>1. b \in Bucket /\ r \in own1
  <2>1. r \in Element
    BY DEF Shares, Keyed
  <2>. QED BY <2>1, BucketTyped DEF Element, InBucket
<1>2. /\ Shares(F) /\ Keyed(own1)
      /\ ValidPosition(table, s, b, index, FALSE)
      /\ table.sizes[s][b] = Cardinality(own1)
  <2>1. Keyed(own1) /\ IsFiniteSet(own1) /\ Cardinality(own1) \in Nat
    BY ShareKeyed DEF Shares
  <2>2. index \in Nat /\ index <= Cardinality(own1)
    BY <2>1, RankTyped, KeyedOrdered
  <2>3. r \notin Below(own1, r.key)
    BY <1>1, <2>1, WordIsNat DEF Below, Keyed, Element
  <2>4. index # Cardinality(own1)
    BY <1>1, <2>1, <2>3, RankTyped, KeyedOrdered
  <2>5. table.sizes[s][b] = Cardinality(own1)
    BY <1>1 DEF TableInv
  <2>6. ASSUME NEW t \in Source PROVE Keyed(F[t])
    <3>1. F[t] \in SUBSET own[t] /\ Keyed(own[t])
      BY DEF Drops, Shares
    <3>2. IsFiniteSet(F[t])
      BY <3>1, FS_Subset DEF Keyed
    <3>. QED BY <3>1, <3>2 DEF Keyed
  <2>. HIDE DEF index, own1
  <2>. QED BY <2>1, <2>2, <2>4, <2>5, <2>6 DEF ValidPosition, Shares
<1>. HIDE DEF b
<1>3. /\ InBucket(F[s], b) = own1 \ {r}
      /\ \A t \in Source, d \in Bucket :
            t # s \/ d # b => InBucket(F[t], d) = InBucket(own[t], d)
  <2>1. BucketOf(r.key) = b /\ F[s] = own[s] \ {r} /\ \A t \in Source \ {s} : F[t] = own[t]
    BY DEF b, Drops
  <2>2. InBucket(F[s], b) = own1 \ {r}
    BY <2>1 DEF InBucket
  <2>3. \A d \in Bucket : d # b => InBucket(F[s], d) = InBucket(own[s], d)
    BY <2>1 DEF InBucket
  <2>. QED BY <2>1, <2>2, <2>3
<1>4. BucketInv(list, Share(F, b))
  <2>1. Owned(Share(own, b)) /\ BucketInv(table.buckets[b], Share(own, b)) /\ Owned(Share(F, b))
    BY <1>1, <1>2, ShareOwned DEF TableInv
  <2>2. Share(own, b)[s] = own1 /\ Share(F, b)[s] = own1 \ {r}
    BY <1>3 DEF Share
  <2>3. Drops(Share(F, b), Share(own, b), s, r)
    <3>1. \A t \in Source \ {s} : Share(F, b)[t] = Share(own, b)[t]
      BY <1>1, <1>3 DEF Share
    <3>. QED BY <2>2, <3>1 DEF Drops
  <2>5. PICK E, G, old : E = Share(own, b) /\ G = Share(F, b) /\ old = table.buckets[b]
    OBVIOUS
  <2>6. BucketInv(DeleteFrom(old, s, Rank(E[s], r.key), r.key, r.value), G)
    <3>1. Owned(E) /\ BucketInv(old, E) /\ Drops(G, E, s, r) /\ r \in E[s] /\ Owned(G)
      BY <1>1, <2>1, <2>2, <2>3, <2>5
    <3>. QED BY <3>1, DeleteKeeps
  <2>. QED BY <2>2, <2>5, <2>6
<1>5. Cardinality(InBucket(F[s], b)) = table.sizes[s][b] - 1
  <2>1. IsFiniteSet(own1)
    BY <1>2 DEF Keyed
  <2>. HIDE DEF own1
  <2>. QED BY <1>1, <1>2, <1>3, <2>1, FS_RemoveElement
<1>6. Updates(new, table, s, b, list, table.sizes[s][b] - 1, own, F)
  <2>1. /\ new.buckets = [table.buckets EXCEPT ![b] = list]
        /\ new.sizes = [table.sizes EXCEPT ![s][b] = table.sizes[s][b] - 1]
    BY DEF Delete, b
  <2>. HIDE DEF new, list
  <2>. QED BY <1>3, <1>4, <1>5, <2>1 DEF Updates
<1>7. TableInv(new, F)
  <2>. HIDE DEF new, list
  <2>. QED BY <1>1, <1>2, <1>6, UpdatesKeep
<1>. QED BY <1>2, <1>7 DEF b

\* A table without records.
LEMMA EmptyTableInv ==
    ASSUME NEW own, \A s \in Source : own[s] = {}
    PROVE  Shares(own) /\ TableInv(EmptyTable, own)
<1>1. Shares(own)
  BY FS_EmptySet DEF Shares, Keyed
<1>2. \A s \in Source, b \in Bucket : InBucket(own[s], b) = {}
  BY DEF InBucket
<1>3. ASSUME NEW b \in Bucket PROVE BucketInv(<<>>, Share(own, b))
  <2>1. <<>> \in Seq(Node) /\ Len(<<>>) = 0
    OBVIOUS
  <2>2. \A s \in Source : Share(own, b)[s] = {}
    BY <1>2 DEF Share
  <2>3. Placed(<<>>, <<>>, Share(own, b)) /\ Fusing(<<>>, <<>>)
    BY <2>1, <2>2 DEF Placed, Fusing
  <2>. QED BY <2>1, <2>3 DEF BucketInv, Carries
<1>4. Cardinality({}) = 0
  BY FS_EmptySet
<1>5. /\ EmptyTable.buckets = [b \in Bucket |-> <<>>]
      /\ EmptyTable.sizes = [s \in Source |-> [b \in Bucket |-> 0]]
  BY DEF EmptyTable
<1>6. EmptyTable.buckets \in [Bucket -> Seq(Node)] /\ EmptyTable.sizes \in [Source -> [Bucket -> Nat]]
  BY <1>5
<1>7. \A b \in Bucket : EmptyTable.buckets[b] = <<>>
  BY <1>5
<1>8. ASSUME NEW s \in Source, NEW b \in Bucket
      PROVE  EmptyTable.sizes[s][b] = Cardinality(InBucket(own[s], b))
  <2>1. EmptyTable.sizes[s][b] = 0
    BY <1>5
  <2>2. InBucket(own[s], b) = {}
    BY <1>2
  <2>. QED BY <1>4, <2>1, <2>2
<1>. QED BY <1>1, <1>3, <1>6, <1>7, <1>8 DEF TableInv

-----------------------------------------------------------------------------
(* Recover                                                                 *)

\* A node with what the survivors have fused into it XORed out.
LEMMA RecoverNodeIs ==
    ASSUME NEW table, NEW own, Shares(own), TableInv(table, own),
           NEW missing \in Source, NEW survivors,
           \A s \in Source \ {missing} : survivors[s] = own[s],
           NEW b \in Bucket, NEW el, Carries(table.buckets[b], el, Share(own, b)),
           NEW i \in Occupied(table.buckets[b], missing)
    PROVE  RecoverNode(table, b, i, missing, survivors) = el[i][missing]
<1>. DEFINE list == table.buckets[b]
            E == Share(own, b)
            healthy == list[i].bits \ {missing}
            element == [s \in healthy |-> Nth(InBucket(survivors[s], b), Before(list, s, i))]
<1>1. list \in Seq(Node) /\ Placed(list, el, E) /\ Fusing(list, el) /\ Owned(E)
      /\ \A s \in Source : E[s] = InBucket(own[s], b)
  BY ShareOwned DEF Carries
<1>2. i \in 1 .. Len(list) /\ list[i] \in Node /\ list[i].bits \in SUBSET Source
      /\ missing \in list[i].bits
  <2>1. i \in 1 .. Len(list) /\ missing \in list[i].bits
    BY <1>1 DEF Occupied
  <2>2. list[i] \in Node
    BY <1>1, <2>1
  <2>. QED BY <2>1, <2>2 DEF Node
<1>. HIDE DEF E
<1>3. ASSUME NEW s \in healthy PROVE element[s] = el[i][s]
  <2>1. s \in Source /\ i \in Occupied(list, s)
    BY <1>2 DEF Occupied
  <2>2. el[i][s] \in E[s] /\ Before(list, s, i) = Rank(E[s], el[i][s].key)
    <3>. HIDE DEF list
    <3>. QED BY <1>1, <2>1, NodeRank, OwnedOrders
  <2>3. InBucket(survivors[s], b) = E[s]
    BY <1>1, <2>1
  <2>4. Nth(E[s], Rank(E[s], el[i][s].key)) = el[i][s]
    BY <1>1, <2>1, <2>2, NthIs DEF Owned
  <2>. QED BY <2>2, <2>3, <2>4
<1>4. Cells(el[i], list[i].bits) /\ Holds(list[i], el[i])
  BY <1>1, <1>2 DEF Cells, Placed, Has, Owned, Keyed, Fusing
<1>5. /\ XorKeys(element, healthy) = XorKeys(el[i], healthy)
      /\ XorValues(element, healthy) = XorValues(el[i], healthy)
  <2>1. healthy \in SUBSET Source
    BY <1>2
  <2>. HIDE DEF healthy, element, list
  <2>. QED BY <1>3, <2>1, XorsSame
<1>6. /\ Xor(list[i].key, XorKeys(el[i], healthy)) = el[i][missing].key
      /\ Xor(list[i].value, XorValues(el[i], healthy)) = el[i][missing].value
  <2>1. PICK n \in Node, k \in Word, v \in Word :
           n = list[i] /\ k = el[i][missing].key /\ v = el[i][missing].value
    BY <1>2, <1>4 DEF Cells, Element
  <2>. DEFINE cell == el[i]
  <2>2. Cells(cell, n.bits) /\ Holds(n, cell) /\ missing \in n.bits
    BY <1>2, <1>4, <2>1
  <2>. HIDE DEF cell
  <2>3. /\ Xor(n.key, cell[missing].key) = XorKeys(cell, n.bits \ {missing})
        /\ Xor(n.value, cell[missing].value) = XorValues(cell, n.bits \ {missing})
    BY <2>2, VacateHolds
  <2>4. n.key \in Word /\ n.value \in Word
    BY DEF Node
  <2>5. /\ XorKeys(cell, n.bits \ {missing}) = Xor(n.key, k)
        /\ XorValues(cell, n.bits \ {missing}) = Xor(n.value, v)
    BY <2>1, <2>3 DEF cell
  <2>6. Xor(n.key, Xor(n.key, k)) = k /\ Xor(n.value, Xor(n.value, v)) = v
    BY <2>4, XorLaws
  <2>. QED BY <2>1, <2>5, <2>6 DEF cell
<1>7. RecoverNode(table, b, i, missing, survivors)
         = [key   |-> Xor(list[i].key, XorKeys(element, healthy)),
            value |-> Xor(list[i].value, XorValues(element, healthy))]
  BY DEF RecoverNode, XorKeys, XorValues
<1>8. el[i][missing] \in Element
  BY <1>2, <1>4 DEF Cells
<1>. HIDE DEF healthy, element
<1>. QED BY <1>5, <1>6, <1>7, <1>8 DEF Element

\* Recover accepts the survivors of any one loss and returns the records that
\* were lost.
LEMMA RecoverTable ==
    ASSUME NEW table, NEW own, Shares(own), TableInv(table, own),
           NEW missing \in Source, NEW survivors, DOMAIN survivors = Source \ {missing},
           \A s \in Source \ {missing} : survivors[s] = own[s]
    PROVE  /\ SurvivorsMatch(table, missing, survivors)
           /\ Recover(table, missing, survivors) = own[missing]
<1>1. SurvivorsMatch(table, missing, survivors)
  BY DEF SurvivorsMatch, TableInv
<1>. DEFINE R(b) == {RecoverNode(table, b, i, missing, survivors) :
                        i \in Occupied(table.buckets[b], missing)}
<1>2. ASSUME NEW b \in Bucket PROVE R(b) = InBucket(own[missing], b)
  <2>1. PICK el : Carries(table.buckets[b], el, Share(own, b))
    BY DEF TableInv, BucketInv
  <2>2. \A i \in Occupied(table.buckets[b], missing) :
           RecoverNode(table, b, i, missing, survivors) = el[i][missing]
    BY <2>1, RecoverNodeIs
  <2>3. Share(own, b)[missing] = InBucket(own[missing], b)
    BY DEF Share
  <2>4. \A i \in Occupied(table.buckets[b], missing) : el[i][missing] \in InBucket(own[missing], b)
    BY <2>1, <2>3 DEF Carries, Placed, Occupied, Has
  <2>5. \A r \in InBucket(own[missing], b) :
           \E i \in Occupied(table.buckets[b], missing) : el[i][missing] = r
    BY <2>1, <2>3 DEF Carries, Placed, Occupied, Has
  <2>6. \A x \in R(b) : x \in InBucket(own[missing], b)
    BY <2>2, <2>4
  <2>7. \A x \in InBucket(own[missing], b) : x \in R(b)
    BY <2>2, <2>5
  <2>. QED BY <2>6, <2>7
<1>3. Recover(table, missing, survivors) = UNION {R(b) : b \in Bucket}
  BY DEF Recover
<1>. HIDE DEF R
<1>4. \A r \in own[missing] : BucketOf(r.key) \in Bucket
  BY BucketTyped DEF Shares, Keyed, Element
<1>5. UNION {R(b) : b \in Bucket} = own[missing]
  BY <1>2, <1>4 DEF InBucket
<1>. QED BY <1>1, <1>3, <1>5

-----------------------------------------------------------------------------
(* Rebuild                                                                 *)

\* The record that Nth finds.
LEMMA NthRank ==
    ASSUME NEW R, Keyed(R), NEW n \in Nat, n < Cardinality(R)
    PROVE  Nth(R, n) \in R /\ Rank(R, Nth(R, n).key) = n
<1>1. PICK r \in R : Rank(R, r.key) = n
  BY RankReached, KeyedOrdered
<1>2. Nth(R, n) = r
  BY <1>1, NthIs
<1>. QED BY <1>1, <1>2

\* The larger of two ranks is that of the larger key.
LEMMA RankOrder ==
    ASSUME NEW R, Keyed(R), NEW q \in R, NEW r \in R, Rank(R, q.key) < Rank(R, r.key)
    PROVE  q.key < r.key
<1>1. q.key \in Nat /\ r.key \in Nat
  BY WordIsNat DEF Keyed, Element
<1>2. r.key <= q.key => Rank(R, r.key) <= Rank(R, q.key)
  BY <1>1, RankMonotone, KeyedOrdered
<1>3. Rank(R, q.key) \in Nat /\ Rank(R, r.key) \in Nat
  BY RankTyped, KeyedOrdered
<1>. QED BY <1>1, <1>2, <1>3

\* The aligned bucket carries the records it is made of.
LEMMA RebuildBucketInv ==
    ASSUME NEW E, Owned(E)
    PROVE  BucketInv(RebuildBucket(E), E)
<1>. DEFINE sizes == {Cardinality(E[s]) : s \in Source}
            N == Max(sizes)
            list == [n \in 1 .. N |-> RebuildNode(E, n)]
            el == [n \in 1 .. N |-> [s \in Source |-> Nth(E[s], n - 1)]]
<1>1. \A s \in Source : Keyed(E[s]) /\ Cardinality(E[s]) \in Nat
  BY RankTyped, KeyedOrdered DEF Owned
<1>2. N \in Nat /\ \A s \in Source : Cardinality(E[s]) <= N
  <2>. DEFINE card == [s \in Source |-> Cardinality(E[s])]
  <2>1. card \in Surjection(Source, sizes)
    BY DEF Surjection
  <2>2. IsFiniteSet(sizes)
    <3>. HIDE DEF card, sizes
    <3>. QED BY <2>1, SomeSources, FS_Surjection
  <2>3. 0 \in Source
    BY SourceAssumption DEF Source
  <2>4. sizes # {} /\ \A n \in sizes : n \in Nat
    BY <1>1, <2>3
  <2>5. \A s \in Source : Cardinality(E[s]) \in sizes
    OBVIOUS
  <2>. HIDE DEF sizes, card
  <2>6. N \in sizes /\ \A n \in sizes : n <= N
    BY <2>1, <2>2, <2>4, LargestNumber
  <2>. QED BY <2>4, <2>5, <2>6
<1>. HIDE DEF N
<1>3. ASSUME NEW n \in 1 .. N, NEW s \in Source, Cardinality(E[s]) >= n
      PROVE  /\ el[n][s] \in E[s] /\ el[n][s] \in Element
             /\ Rank(E[s], el[n][s].key) = n - 1
  <2>1. n - 1 \in Nat /\ n - 1 < Cardinality(E[s])
    BY <1>1, <1>2, <1>3
  <2>2. PICK m \in Nat : m = n - 1 /\ m < Cardinality(E[s])
    BY <2>1
  <2>3. Nth(E[s], m) \in E[s] /\ Rank(E[s], Nth(E[s], m).key) = m
    BY <1>1, <2>2, NthRank
  <2>4. el[n][s] = Nth(E[s], m)
    BY <2>2
  <2>. QED BY <1>1, <2>2, <2>3, <2>4 DEF Keyed
<1>4. ASSUME NEW n \in 1 .. N
      PROVE  /\ RebuildNode(E, n) \in Node
             /\ RebuildNode(E, n).bits = {s \in Source : Cardinality(E[s]) >= n}
             /\ Holds(RebuildNode(E, n), el[n])
  <2>. DEFINE here == {s \in Source : Cardinality(E[s]) >= n}
              node == RebuildNode(E, n)
  <2>1. here \in SUBSET Source /\ Cells(el[n], here)
    BY <1>3 DEF Cells
  <2>2. \A s \in here : el[n][s] = Nth(E[s], n - 1)
    OBVIOUS
  <2>3. /\ XorKeys(el[n], here) = XorOver([s \in here |-> Nth(E[s], n - 1).key], here)
        /\ XorValues(el[n], here) = XorOver([s \in here |-> Nth(E[s], n - 1).value], here)
    <3>1. /\ [s \in here |-> el[n][s].key] = [s \in here |-> Nth(E[s], n - 1).key]
          /\ [s \in here |-> el[n][s].value] = [s \in here |-> Nth(E[s], n - 1).value]
      <4>. HIDE DEF el, here
      <4>. QED BY <2>2
    <3>. HIDE DEF el, here
    <3>. QED BY <3>1 DEF XorKeys, XorValues
  <2>4. node = [key |-> XorOver([s \in here |-> Nth(E[s], n - 1).key], here),
                value |-> XorOver([s \in here |-> Nth(E[s], n - 1).value], here),
                bits |-> here]
    BY DEF RebuildNode
  <2>5. XorKeys(el[n], here) \in Word /\ XorValues(el[n], here) \in Word
    <3>. HIDE DEF el, here
    <3>. QED BY <2>1, XorsTyped
  <2>. HIDE DEF el, here, node
  <2>6. node = [key |-> XorKeys(el[n], here), value |-> XorValues(el[n], here), bits |-> here]
    BY <2>3, <2>4
  <2>7. node \in Node /\ node.bits = here /\ Holds(node, el[n])
    BY <2>1, <2>5, <2>6 DEF Node, Holds
  <2>. QED BY <2>7 DEF node, here
<1>5. list \in Seq(Node) /\ Len(list) = N /\ \A n \in 1 .. N : list[n] = RebuildNode(E, n)
  <2>1. list \in [1 .. N -> Node]
    BY <1>4
  <2>2. \A n \in 1 .. N : list[n] = RebuildNode(E, n)
    OBVIOUS
  <2>. HIDE DEF list
  <2>. QED BY <1>2, <2>1, <2>2
<1>. HIDE DEF list, el
<1>6. \A n \in 1 .. N, s \in Source : Has(list, n, s) <=> Cardinality(E[s]) >= n
  BY <1>4, <1>5 DEF Has
<1>7. Placed(list, el, E)
  <2>1. \A n \in 1 .. Len(list) : \A s \in Source : Has(list, n, s) => el[n][s] \in E[s]
    BY <1>3, <1>5, <1>6
  <2>2. ASSUME NEW s \in Source, NEW r \in E[s]
        PROVE  \E n \in 1 .. Len(list) : Has(list, n, s) /\ el[n][s] = r
    <3>1. Rank(E[s], r.key) \in Nat /\ Rank(E[s], r.key) <= Cardinality(E[s])
      BY <1>1, RankTyped, KeyedOrdered
    <3>2. r \notin Below(E[s], r.key)
      BY <1>1, WordIsNat DEF Below, Keyed, Element
    <3>3. Rank(E[s], r.key) # Cardinality(E[s])
      BY <1>1, <3>2, RankTyped, KeyedOrdered
    <3>4. PICK n \in 1 .. N : n = Rank(E[s], r.key) + 1 /\ Cardinality(E[s]) >= n
      BY <1>1, <1>2, <3>1, <3>3
    <3>5. el[n][s] \in E[s] /\ Rank(E[s], el[n][s].key) = Rank(E[s], r.key)
      BY <1>3, <3>1, <3>4
    <3>6. el[n][s] = r
      BY <1>1, <3>5, RankUnique, KeyedOrdered
    <3>. QED BY <1>5, <1>6, <3>4, <3>6
  <2>3. ASSUME NEW s \in Source, NEW i \in 1 .. Len(list), NEW j \in 1 .. Len(list),
               Has(list, i, s), Has(list, j, s), i < j
        PROVE  el[i][s].key < el[j][s].key
    <3>1. i \in 1 .. N /\ j \in 1 .. N /\ Cardinality(E[s]) >= i /\ Cardinality(E[s]) >= j
      BY <1>5, <1>6, <2>3
    <3>2. /\ el[i][s] \in E[s] /\ Rank(E[s], el[i][s].key) = i - 1
          /\ el[j][s] \in E[s] /\ Rank(E[s], el[j][s].key) = j - 1
      BY <1>3, <3>1
    <3>3. Rank(E[s], el[i][s].key) < Rank(E[s], el[j][s].key)
      BY <2>3, <3>1, <3>2
    <3>. QED BY <1>1, <3>2, <3>3, RankOrder
  <2>. QED BY <2>1, <2>2, <2>3 DEF Placed
<1>8. Fusing(list, el)
  BY <1>4, <1>5 DEF Fusing
<1>9. RebuildBucket(E) = list
  BY DEF RebuildBucket, list, N
<1>. QED BY <1>5, <1>7, <1>8, <1>9 DEF BucketInv, Carries

\* So does the table.
LEMMA RebuildTable ==
    ASSUME NEW own, Shares(own)
    PROVE  TableInv(Rebuild(own), own)
<1>. DEFINE new == Rebuild(own)
<1>1. /\ new.buckets = [b \in Bucket |-> RebuildBucket(Share(own, b))]
      /\ new.sizes = [s \in Source |-> [b \in Bucket |-> Cardinality(InBucket(own[s], b))]]
  BY DEF Rebuild, Share
<1>2. ASSUME NEW b \in Bucket
      PROVE  /\ BucketInv(RebuildBucket(Share(own, b)), Share(own, b))
             /\ RebuildBucket(Share(own, b)) \in Seq(Node)
  <2>1. BucketInv(RebuildBucket(Share(own, b)), Share(own, b))
    BY ShareOwned, RebuildBucketInv
  <2>. QED BY <2>1 DEF BucketInv, Carries
<1>3. \A s \in Source, b \in Bucket : Cardinality(InBucket(own[s], b)) \in Nat
  BY ShareKeyed DEF Shares
<1>. HIDE DEF new
<1>4. new.buckets \in [Bucket -> Seq(Node)] /\ new.sizes \in [Source -> [Bucket -> Nat]]
  BY <1>1, <1>2, <1>3
<1>5. /\ \A b \in Bucket : new.buckets[b] = RebuildBucket(Share(own, b))
      /\ \A s \in Source, b \in Bucket : new.sizes[s][b] = Cardinality(InBucket(own[s], b))
  BY <1>1
<1>6. TableInv(new, own)
  BY <1>2, <1>4, <1>5 DEF TableInv
<1>. QED BY <1>6 DEF new

-----------------------------------------------------------------------------
(* Insertions that keep a rebuilt table what it is                         *)

LEMMA OwnedCounts ==
    \A E : Owned(E) => \A s \in Source : Cardinality(E[s]) \in Nat
BY RankTyped, KeyedOrdered DEF Owned

\* The number of nodes of a rebuilt bucket, and each of them.
LEMMA RebuildShape ==
    ASSUME NEW E, Owned(E)
    PROVE  /\ RebuildBucket(E) \in Seq(Node) /\ Len(RebuildBucket(E)) \in Nat
           /\ \A n \in 1 .. Len(RebuildBucket(E)) : RebuildBucket(E)[n] = RebuildNode(E, n)
           /\ \A s \in Source : /\ Cardinality(E[s]) \in Nat
                                /\ Cardinality(E[s]) <= Len(RebuildBucket(E))
           /\ \E s \in Source : Cardinality(E[s]) = Len(RebuildBucket(E))
           /\ RebuildBucket(E)
                 = [n \in 1 .. Len(RebuildBucket(E)) |-> RebuildNode(E, n)]
<1>. DEFINE sizes == {Cardinality(E[s]) : s \in Source}
            card == [s \in Source |-> Cardinality(E[s])]
            N == Max(sizes)
            list == RebuildBucket(E)
<1>1. \A s \in Source : Cardinality(E[s]) \in Nat
  BY RankTyped, KeyedOrdered DEF Owned
<1>2. (\E t \in Source : N = Cardinality(E[t])) /\ \A s \in Source : Cardinality(E[s]) <= N
  <2>1. card \in Surjection(Source, sizes)
    BY DEF Surjection
  <2>2. IsFiniteSet(sizes)
    <3>. HIDE DEF card, sizes
    <3>. QED BY <2>1, SomeSources, FS_Surjection
  <2>3. /\ sizes # {} /\ \A n \in sizes : n \in Nat
        /\ \A s \in Source : Cardinality(E[s]) \in sizes
    BY <1>1, SourceAssumption DEF Source
  <2>4. N \in sizes /\ \A n \in sizes : n <= N
    <3>. HIDE DEF sizes
    <3>. QED BY <2>2, <2>3, LargestNumber
  <2>5. \A n \in sizes : \E t \in Source : n = Cardinality(E[t])
    OBVIOUS
  <2>. HIDE DEF N, sizes
  <2>. QED BY <2>3, <2>4, <2>5
<1>3. list = [n \in 1 .. N |-> RebuildNode(E, n)]
  BY DEF RebuildBucket
<1>4. list \in Seq(Node)
  BY RebuildBucketInv DEF BucketInv, Carries
<1>. HIDE DEF N, list
<1>5. N \in Nat
  BY <1>1, <1>2
<1>6. Len(list) = N /\ \A n \in 1 .. N : list[n] = RebuildNode(E, n)
  BY <1>3, <1>5
<1>. QED BY <1>1, <1>2, <1>3, <1>4, <1>5, <1>6 DEF list

\* The n-th node has the bits of the sources with that many records.
LEMMA RebuildBits ==
    \A E, n : RebuildNode(E, n).bits = {s \in Source : Cardinality(E[s]) >= n}
BY DEF RebuildNode

\* A source's records are in the first nodes, so one more goes into the next.
LEMMA RebuildCandidate ==
    ASSUME NEW E, Owned(E), NEW s \in Source
    PROVE  LET list == RebuildBucket(E)
               c == Cardinality(E[s])
           IN  /\ Candidate(list, s, c) = c + 1
               /\ NextSource(list, s, c) = Len(list) + 1
<1>. DEFINE list == RebuildBucket(E)
            c == Cardinality(E[s])
<1>1. /\ list \in Seq(Node) /\ Len(list) \in Nat /\ c \in Nat /\ c <= Len(list)
      /\ \A n \in 1 .. Len(list) : list[n].bits = {t \in Source : Cardinality(E[t]) >= n}
  BY RebuildShape, RebuildBits
<1>. HIDE DEF list, c
<1>2. Occupied(list, s) = 1 .. c
  <2>1. DOMAIN list = 1 .. Len(list)
    BY <1>1
  <2>2. \A n \in 1 .. Len(list) : s \in list[n].bits <=> c >= n
    BY <1>1 DEF c
  <2>. QED BY <1>1, <2>1, <2>2 DEF Occupied
<1>3. \A n \in Nat : IsFiniteSet(1 .. n) /\ Cardinality(1 .. n) = n
  BY CountTo
<1>4. ASSUME NEW i \in 1 .. c PROVE Before(list, s, i) = i - 1
  <2>1. {j \in Occupied(list, s) : j < i} = 1 .. (i - 1)
    BY <1>1, <1>2
  <2>2. i - 1 \in Nat
    BY <1>1
  <2>. QED BY <1>3, <2>1, <2>2 DEF Before
<1>5. c # 0 => NodeAt(list, s, c - 1) = c
  <2>. SUFFICES ASSUME c # 0 PROVE NodeAt(list, s, c - 1) = c
    OBVIOUS
  <2>1. c \in Occupied(list, s) /\ Before(list, s, c) = c - 1
    BY <1>1, <1>2, <1>4
  <2>2. \A i \in Occupied(list, s) : Before(list, s, i) = c - 1 => i = c
    BY <1>1, <1>2, <1>4
  <2>. QED BY <2>1, <2>2 DEF NodeAt
<1>6. Candidate(list, s, c) = c + 1
  BY <1>1, <1>5 DEF Candidate
<1>7. NextSource(list, s, c) = Len(list) + 1
  BY <1>1, <1>2, <1>3 DEF NextSource
<1>. QED BY <1>6, <1>7 DEF list, c

\* A source's new record has a larger key than all of them.
Follows(G, E, s, k, v) ==
    /\ Adds(G, E, s, [key |-> k, value |-> v])
    /\ \A q \in E[s] : q.key < k

\* Then it is the last one, and the others keep their ranks.
LEMMA FollowsLast ==
    ASSUME NEW E, NEW G, Owned(E), Owned(G), NEW s \in Source, NEW k \in Word, NEW v \in Word,
           Follows(G, E, s, k, v)
    PROVE  /\ Cardinality(G[s]) = Cardinality(E[s]) + 1
           /\ Nth(G[s], Cardinality(E[s])) = [key |-> k, value |-> v]
<1>. DEFINE r == [key |-> k, value |-> v]
            c == Cardinality(E[s])
<1>1. /\ G[s] = E[s] \cup {r} /\ Keyed(E[s]) /\ Keyed(G[s]) /\ k \in Nat
      /\ \A q \in E[s] : q.key < k /\ q.key \in Nat
  BY WordIsNat DEF Follows, Adds, Owned, Keyed, Element
<1>2. r.key = k /\ r \notin E[s]
  BY <1>1
<1>. HIDE DEF r
<1>3. Cardinality(G[s]) = c + 1
  BY <1>1, <1>2, FS_AddElement DEF Keyed
<1>5. Rank(G[s], r.key) = c
  <2>1. Below(G[s], r.key) = E[s]
    BY <1>1, <1>2 DEF Below
  <2>. QED BY <2>1 DEF Rank
<1>6. Nth(G[s], c) = r
  <2>1. r \in G[s]
    BY <1>1
  <2>2. Nth(G[s], Rank(G[s], r.key)) = r
    BY <1>1, <2>1, NthIs
  <2>. QED BY <1>5, <2>2
<1>. QED BY <1>3, <1>6 DEF r

LEMMA FollowsEarlier ==
    ASSUME NEW E, NEW G, Owned(E), Owned(G), NEW s \in Source, NEW k \in Word, NEW v \in Word,
           Follows(G, E, s, k, v), NEW n \in Nat, n < Cardinality(E[s])
    PROVE  Nth(G[s], n) = Nth(E[s], n)
<1>. DEFINE r == [key |-> k, value |-> v]
<1>1. /\ G[s] = E[s] \cup {r} /\ Keyed(E[s]) /\ Keyed(G[s]) /\ k \in Nat
      /\ \A q \in E[s] : q.key < k /\ q.key \in Nat
  BY WordIsNat DEF Follows, Adds, Owned, Keyed, Element
<1>2. r.key = k
  OBVIOUS
<1>. HIDE DEF r
<1>3. PICK q : q = Nth(E[s], n)
  OBVIOUS
<1>4. q \in E[s] /\ Rank(E[s], q.key) = n
  BY <1>1, <1>3, NthRank
<1>5. Below(G[s], q.key) = Below(E[s], q.key)
  BY <1>1, <1>2, <1>4 DEF Below
<1>6. q \in G[s] /\ Rank(G[s], q.key) = n
  BY <1>1, <1>4, <1>5 DEF Rank
<1>7. Nth(G[s], Rank(G[s], q.key)) = q
  BY <1>1, <1>6, NthIs
<1>. QED BY <1>3, <1>6, <1>7

\* The other nodes stay as they are.
LEMMA RebuildNodeSame ==
    ASSUME NEW E, NEW G, Owned(E), Owned(G), NEW s \in Source, NEW k \in Word, NEW v \in Word,
           Follows(G, E, s, k, v), NEW n \in Nat, n >= 1, n # Cardinality(E[s]) + 1
    PROVE  RebuildNode(G, n) = RebuildNode(E, n)
<1>. DEFINE here == {t \in Source : Cardinality(E[t]) >= n}
            there == {t \in Source : Cardinality(G[t]) >= n}
            c == Cardinality(E[s])
<1>1. /\ c \in Nat /\ Cardinality(G[s]) = c + 1
      /\ \A m \in Nat : m < c => Nth(G[s], m) = Nth(E[s], m)
      /\ \A t \in Source \ {s} : G[t] = E[t]
  <2>1. c \in Nat
    BY OwnedCounts
  <2>2. \A t \in Source \ {s} : G[t] = E[t]
    BY DEF Follows, Adds
  <2>3. Cardinality(G[s]) = Cardinality(E[s]) + 1
    BY FollowsLast
  <2>4. ASSUME NEW m \in Nat, m < Cardinality(E[s]) PROVE Nth(G[s], m) = Nth(E[s], m)
    BY <2>4, FollowsEarlier
  <2>. QED BY <2>1, <2>2, <2>3, <2>4
<1>. HIDE DEF c
<1>2. there = here
  <2>1. Cardinality(G[s]) >= n <=> c >= n
    BY <1>1 DEF c
  <2>. QED BY <1>1, <2>1 DEF c
<1>3. ASSUME NEW t \in here PROVE Nth(G[t], n - 1) = Nth(E[t], n - 1)
  <2>1. CASE t = s
    <3>1. n - 1 \in Nat /\ n - 1 < c
      BY <1>1, <2>1 DEF c
    <3>. QED BY <1>1, <2>1, <3>1
  <2>2. CASE t # s
    BY <1>1, <2>2
  <2>. QED BY <2>1, <2>2
<1>. HIDE DEF here, there
<1>4. /\ [t \in here |-> Nth(G[t], n - 1).key] = [t \in here |-> Nth(E[t], n - 1).key]
      /\ [t \in here |-> Nth(G[t], n - 1).value] = [t \in here |-> Nth(E[t], n - 1).value]
  BY <1>3
<1>5. /\ RebuildNode(E, n) = [key |-> XorOver([t \in here |-> Nth(E[t], n - 1).key], here),
                              value |-> XorOver([t \in here |-> Nth(E[t], n - 1).value], here),
                              bits |-> here]
      /\ RebuildNode(G, n) = [key |-> XorOver([t \in there |-> Nth(G[t], n - 1).key], there),
                              value |-> XorOver([t \in there |-> Nth(G[t], n - 1).value], there),
                              bits |-> there]
  BY DEF RebuildNode, here, there
<1>. QED BY <1>2, <1>4, <1>5

\* The next node takes the record.
LEMMA RebuildNodeTakes ==
    ASSUME NEW E, NEW G, Owned(E), Owned(G), NEW s \in Source, NEW k \in Word, NEW v \in Word,
           Follows(G, E, s, k, v), NEW n \in Nat, n = Cardinality(E[s]) + 1
    PROVE  /\ RebuildNode(E, n) \in Node
           /\ RebuildNode(G, n) = Occupy(RebuildNode(E, n), s, k, v)
<1>. DEFINE here == {t \in Source : Cardinality(E[t]) >= n}
            there == {t \in Source : Cardinality(G[t]) >= n}
            cell == [t \in Source |-> Nth(G[t], n - 1)]
            r == [key |-> k, value |-> v]
<1>1. /\ Cardinality(E[s]) \in Nat /\ Cardinality(G[s]) = n /\ Nth(G[s], n - 1) = r
      /\ n - 1 \in Nat /\ n - 1 = Cardinality(E[s])
      /\ \A t \in Source \ {s} : G[t] = E[t]
      /\ \A t \in Source : Cardinality(G[t]) \in Nat
  <2>1. \A t \in Source : Cardinality(E[t]) \in Nat /\ Cardinality(G[t]) \in Nat
    BY OwnedCounts
  <2>2. \A t \in Source \ {s} : G[t] = E[t]
    BY DEF Follows, Adds
  <2>3. Cardinality(E[s]) = n - 1
    BY <2>1
  <2>4. Cardinality(G[s]) = Cardinality(E[s]) + 1 /\ Nth(G[s], Cardinality(E[s])) = r
    BY FollowsLast
  <2>. HIDE DEF r
  <2>. QED BY <2>1, <2>2, <2>3, <2>4
<1>2. there = here \cup {s} /\ s \notin here
  BY <1>1
<1>3. ASSUME NEW t \in there PROVE cell[t] \in Element
  <2>1. n - 1 < Cardinality(G[t]) /\ Keyed(G[t])
    BY <1>1 DEF Owned
  <2>2. Nth(G[t], n - 1) \in G[t]
    BY <1>1, <2>1, NthRank
  <2>. QED BY <2>1, <2>2 DEF Keyed
<1>4. /\ \A t \in here : Nth(E[t], n - 1) = cell[t]
      /\ \A t \in there : Nth(G[t], n - 1) = cell[t]
      /\ cell[s] = r
  BY <1>1, <1>2
<1>5. here \in SUBSET Source /\ there \in SUBSET Source
  OBVIOUS
<1>6. /\ RebuildNode(E, n) = [key |-> XorOver([t \in here |-> Nth(E[t], n - 1).key], here),
                              value |-> XorOver([t \in here |-> Nth(E[t], n - 1).value], here),
                              bits |-> here]
      /\ RebuildNode(G, n) = [key |-> XorOver([t \in there |-> Nth(G[t], n - 1).key], there),
                              value |-> XorOver([t \in there |-> Nth(G[t], n - 1).value], there),
                              bits |-> there]
  BY DEF RebuildNode
<1>. HIDE DEF here, there, cell
<1>7. /\ [t \in here |-> Nth(E[t], n - 1).key] = [t \in here |-> cell[t].key]
      /\ [t \in here |-> Nth(E[t], n - 1).value] = [t \in here |-> cell[t].value]
      /\ [t \in there |-> Nth(G[t], n - 1).key] = [t \in there |-> cell[t].key]
      /\ [t \in there |-> Nth(G[t], n - 1).value] = [t \in there |-> cell[t].value]
  BY <1>4
<1>8. /\ RebuildNode(E, n) = [key |-> XorKeys(cell, here), value |-> XorValues(cell, here),
                              bits |-> here]
      /\ RebuildNode(G, n) = [key |-> XorKeys(cell, there), value |-> XorValues(cell, there),
                              bits |-> there]
  BY <1>6, <1>7 DEF XorKeys, XorValues
<1>9. Cells(cell, here \cup {s}) /\ Cells(cell, here)
  BY <1>2, <1>3 DEF Cells
<1>10. /\ XorKeys(cell, there) = Xor(XorKeys(cell, here), k)
       /\ XorValues(cell, there) = Xor(XorValues(cell, here), v)
  <2>1. cell[s].key = k /\ cell[s].value = v
    BY <1>4
  <2>. QED BY <1>2, <1>5, <1>9, <2>1, XorsAdd
<1>11. RebuildNode(E, n) \in Node
  BY <1>5, <1>8, <1>9, XorsTyped DEF Node
<1>12. PICK node : node = RebuildNode(E, n)
  OBVIOUS
<1>13. Occupy(node, s, k, v)
          = [key |-> Xor(node.key, k), value |-> Xor(node.value, v), bits |-> node.bits \cup {s}]
  <2>1. Fused(node, k, v).bits = node.bits
    BY <1>11, <1>12 DEF Fused, Node
  <2>2. [Fused(node, k, v) EXCEPT !.bits = node.bits \cup {s}]
           = [key |-> Xor(node.key, k), value |-> Xor(node.value, v), bits |-> node.bits \cup {s}]
    <3>1. node \in Node
      BY <1>11, <1>12
    <3>. QED BY <3>1, FusedIs
  <2>. QED BY <2>1, <2>2, Zenon DEF Occupy
<1>14. /\ node.key = XorKeys(cell, here) /\ node.value = XorValues(cell, here)
       /\ node.bits = here
  BY <1>8, <1>12
<1>15. Occupy(node, s, k, v) = RebuildNode(G, n)
  BY <1>2, <1>8, <1>10, <1>13, <1>14
<1>. QED BY <1>11, <1>12, <1>15

\* So the insertion yields the bucket rebuilt of one record more.
LEMMA InsertAligned ==
    ASSUME NEW E, NEW G, Owned(E), Owned(G), NEW s \in Source, NEW k \in Word, NEW v \in Word,
           Follows(G, E, s, k, v)
    PROVE  InsertInto(RebuildBucket(E), s, Cardinality(E[s]), k, v) = RebuildBucket(G)
<1>. DEFINE list == RebuildBucket(E)
            new == RebuildBucket(G)
            c == Cardinality(E[s])
            room == WithRoom(list, s, c, NewNode)
<1>1. /\ list \in Seq(Node) /\ Len(list) \in Nat /\ c \in Nat /\ c <= Len(list)
      /\ \A n \in 1 .. Len(list) : list[n] = RebuildNode(E, n)
      /\ \A t \in Source : Cardinality(E[t]) \in Nat /\ Cardinality(E[t]) <= Len(list)
      /\ \E t \in Source : Cardinality(E[t]) = Len(list)
  BY RebuildShape
<1>2. /\ new \in Seq(Node) /\ Len(new) \in Nat
      /\ \A n \in 1 .. Len(new) : new[n] = RebuildNode(G, n)
      /\ \A t \in Source : Cardinality(G[t]) <= Len(new)
      /\ \E t \in Source : Cardinality(G[t]) = Len(new)
  BY RebuildShape
<1>3. Candidate(list, s, c) = c + 1 /\ NextSource(list, s, c) = Len(list) + 1
  BY RebuildCandidate
<1>4. Cardinality(G[s]) = c + 1 /\ \A t \in Source \ {s} : G[t] = E[t]
  BY FollowsLast DEF Follows, Adds
<1>5. InsertInto(list, s, c, k, v) = [room EXCEPT ![c + 1] = Occupy(@, s, k, v)]
  BY <1>3 DEF InsertInto
<1>. HIDE DEF list, new, c
<1>6. /\ room \in Seq(Node) /\ Len(room) = Len(new) /\ c + 1 \in 1 .. Len(new)
      /\ \A n \in 1 .. Len(room) : room[n] = RebuildNode(E, n)
  <2>1. CASE c + 1 = Len(list) + 1
    <3>1. room = InsertAt(list, c + 1, NewNode)
      BY <1>3, <2>1 DEF WithRoom
    <3>2. NewNode \in Node /\ c + 1 \in 1 .. Len(list) + 1
      BY <1>1, <2>1, XorsNone
    <3>3. /\ room \in Seq(Node) /\ Len(room) = Len(list) + 1
          /\ \A j \in 1 .. Len(list) + 1 :
                room[j] = IF j < c + 1 THEN list[j] ELSE IF j = c + 1 THEN NewNode ELSE list[j - 1]
      <4>1. PICK i : i = c + 1
        OBVIOUS
      <4>2. room = InsertAt(list, i, NewNode) /\ i \in 1 .. Len(list) + 1
        BY <3>1, <3>2, <4>1
      <4>. HIDE DEF room
      <4>3. /\ room \in Seq(Node) /\ Len(room) = Len(list) + 1
            /\ \A j \in 1 .. Len(list) + 1 :
                  room[j] = IF j < i THEN list[j] ELSE IF j = i THEN NewNode ELSE list[j - 1]
        <5>1. IsInserted(room, list, i, NewNode) /\ room \in Seq(Node)
          BY <1>1, <3>2, <4>2, Inserts
        <5>. QED BY <5>1 DEF IsInserted
      <4>. QED BY <4>1, <4>3
    <3>4. Len(new) = Len(list) + 1
      BY <1>1, <1>2, <1>4, <2>1
    <3>5. RebuildNode(E, c + 1) = NewNode
      <4>1. {t \in Source : Cardinality(E[t]) >= c + 1} = {}
        BY <1>1, <2>1
      <4>2. \A f : XorOver(f, {}) = 0
        BY XorOverEmpty
      <4>. QED BY <4>1, <4>2 DEF RebuildNode, NewNode
    <3>. HIDE DEF room
    <3>6. ASSUME NEW n \in 1 .. Len(room) PROVE room[n] = RebuildNode(E, n)
      BY <1>1, <2>1, <3>3, <3>5
    <3>. QED BY <1>1, <2>1, <3>3, <3>4, <3>6
  <2>2. CASE c + 1 # Len(list) + 1
    <3>1. room = list
      BY <1>3, <2>2 DEF WithRoom
    <3>2. Len(new) = Len(list)
      <4>1. c + 1 <= Len(list) /\ c < Len(list)
        BY <1>1, <2>2
      <4>2. Len(new) <= Len(list)
        BY <1>1, <1>2, <1>4, <4>1
      <4>3. Len(list) <= Len(new)
        BY <1>1, <1>2, <1>4, <4>1 DEF c
      <4>. QED BY <1>1, <1>2, <4>2, <4>3
    <3>. QED BY <1>1, <2>2, <3>1, <3>2
  <2>. QED BY <2>1, <2>2
<1>. HIDE DEF room
<1>7. PICK node : node = Occupy(room[c + 1], s, k, v)
  OBVIOUS
<1>8. PICK made : made = [room EXCEPT ![c + 1] = node]
  OBVIOUS
<1>9. InsertInto(list, s, c, k, v) = made
  BY <1>5, <1>7, <1>8, Zenon
<1>10. node = RebuildNode(G, c + 1)
  <2>1. c + 1 \in Nat /\ c + 1 = Cardinality(E[s]) + 1
    BY <1>1 DEF c
  <2>2. room[c + 1] = RebuildNode(E, c + 1)
    BY <1>6
  <2>. QED BY <1>7, <2>1, <2>2, RebuildNodeTakes
<1>11. \A n \in 1 .. Len(new) : n # c + 1 => RebuildNode(E, n) = RebuildNode(G, n)
  BY RebuildNodeSame DEF c
<1>12. DOMAIN made = 1 .. Len(new) /\ \A n \in 1 .. Len(new) : made[n] = new[n]
  BY <1>2, <1>6, <1>8, <1>10, <1>11
<1>13. made \in Seq(Node)
  <2>1. node \in Node
    BY <1>2, <1>6, <1>10
  <2>. QED BY <1>6, <1>8, <2>1
<1>14. Len(made) = Len(new)
  BY <1>2, <1>12, <1>13
<1>15. made = new
  BY <1>2, <1>12, <1>13, <1>14
<1>. QED BY <1>9, <1>15 DEF list, new, c

\* F has one record more than own, of source s with the largest key in its bucket.
LEMMA InsertRebuilds ==
    ASSUME NEW own, Shares(own), NEW F, Shares(F), NEW s \in Source,
           NEW k \in Word, NEW v \in Word, Adds(F, own, s, [key |-> k, value |-> v]),
           \A q \in own[s] : BucketOf(q.key) = BucketOf(k) => q.key < k
    PROVE  Insert(Rebuild(own), s, Rebuild(own).sizes[s][BucketOf(k)], k, v) = Rebuild(F)
<1>. DEFINE b == BucketOf(k)
            r == [key |-> k, value |-> v]
            old == Rebuild(own)
            new == Rebuild(F)
            n == Cardinality(InBucket(own[s], b))
            list == InsertInto(RebuildBucket(Share(own, b)), s, n, k, v)
<1>1. b \in Bucket /\ r.key = k
  BY BucketTyped
<1>2. /\ old.buckets = [c \in Bucket |-> RebuildBucket(Share(own, c))]
      /\ old.sizes = [t \in Source |-> [c \in Bucket |-> Cardinality(InBucket(own[t], c))]]
      /\ new = [buckets |-> [c \in Bucket |-> RebuildBucket(Share(F, c))],
                sizes |-> [t \in Source |-> [c \in Bucket |-> Cardinality(InBucket(F[t], c))]]]
  BY DEF Rebuild, Share
<1>3. Insert(old, s, old.sizes[s][b], k, v)
        = [buckets |-> [old.buckets EXCEPT ![b] = InsertInto(@, s, old.sizes[s][b], k, v)],
           sizes |-> [old.sizes EXCEPT ![s][b] = @ + 1]]
  BY Zenon DEF Insert
<1>4. /\ F[s] = own[s] \cup {r} /\ \A t \in Source \ {s} : F[t] = own[t]
      /\ \A q \in own[s] : BucketOf(q.key) = b => q.key < k
  BY DEF Adds
<1>. HIDE DEF b, r, old, new
<1>5. InBucket(F[s], b) = InBucket(own[s], b) \cup {r}
  BY <1>1, <1>4 DEF InBucket, b
<1>6. \A t \in Source, c \in Bucket : t # s \/ c # b => InBucket(F[t], c) = InBucket(own[t], c)
  <2>1. \A c \in Bucket : c # b => InBucket(F[s], c) = InBucket(own[s], c)
    BY <1>1, <1>4 DEF InBucket, b
  <2>. QED BY <1>4, <2>1
<1>7. PICK E, G : E = Share(own, b) /\ G = Share(F, b)
  OBVIOUS
<1>8. /\ Owned(E) /\ Owned(G) /\ E[s] = InBucket(own[s], b) /\ G[s] = InBucket(F[s], b)
      /\ \A t \in Source : E[t] = InBucket(own[t], b) /\ G[t] = InBucket(F[t], b)
  BY <1>7, ShareOwned
<1>9. Follows(G, E, s, k, v)
  <2>1. Adds(G, E, s, r)
    BY <1>1, <1>5, <1>6, <1>8 DEF Adds
  <2>2. \A q \in E[s] : q.key < k
    BY <1>4, <1>8 DEF InBucket
  <2>. QED BY <2>1, <2>2 DEF Follows, r
<1>10. /\ list = RebuildBucket(G) /\ n \in Nat /\ Cardinality(InBucket(F[s], b)) = n + 1
  <2>1. Cardinality(E[s]) = n
    BY <1>8
  <2>2. Cardinality(G[s]) = Cardinality(E[s]) + 1 /\ Cardinality(E[s]) \in Nat
    BY <1>8, <1>9, FollowsLast, OwnedCounts
  <2>3. InsertInto(RebuildBucket(E), s, Cardinality(E[s]), k, v) = RebuildBucket(G)
    BY <1>8, <1>9, InsertAligned
  <2>. QED BY <1>7, <1>8, <2>1, <2>2, <2>3
<1>11. old.sizes[s][b] = n /\ old.buckets[b] = RebuildBucket(E)
  BY <1>1, <1>2, <1>7
<1>. HIDE DEF n, list
<1>12. [old.buckets EXCEPT ![b] = InsertInto(@, s, old.sizes[s][b], k, v)]
          = [c \in Bucket |-> RebuildBucket(Share(F, c))]
  <2>1. InsertInto(old.buckets[b], s, old.sizes[s][b], k, v) = list
    BY <1>7, <1>11 DEF list
  <2>2. PICK x, made : /\ x = InsertInto(old.buckets[b], s, old.sizes[s][b], k, v)
                       /\ made = [old.buckets EXCEPT ![b] = x]
    OBVIOUS
  <2>3. [old.buckets EXCEPT ![b] = InsertInto(@, s, old.sizes[s][b], k, v)] = made
    BY <2>2, Zenon
  <2>4. ASSUME NEW c \in Bucket, c # b PROVE Share(F, c) = Share(own, c)
    BY <1>6, <2>4 DEF Share
  <2>5. x = RebuildBucket(Share(F, b))
    BY <1>7, <1>10, <2>1, <2>2
  <2>6. made = [c \in Bucket |-> IF c = b THEN x ELSE RebuildBucket(Share(own, c))]
    BY <1>1, <1>2, <2>2
  <2>7. \A c \in Bucket : (IF c = b THEN x ELSE RebuildBucket(Share(own, c))) = RebuildBucket(Share(F, c))
    BY <2>4, <2>5
  <2>. QED BY <2>3, <2>6, <2>7
<1>13. [old.sizes EXCEPT ![s][b] = @ + 1]
          = [t \in Source |-> [c \in Bucket |-> Cardinality(InBucket(F[t], c))]]
  <2>. DEFINE size(t, c) == Cardinality(InBucket(F[t], c))
              was(t, c) == Cardinality(InBucket(own[t], c))
  <2>1. \A t \in Source, c \in Bucket : t # s \/ c # b => size(t, c) = was(t, c)
    BY <1>6
  <2>2. size(s, b) = n + 1 /\ was(s, b) = n
    BY <1>10 DEF n
  <2>3. old.sizes = [t \in Source |-> [c \in Bucket |-> was(t, c)]]
    BY <1>2
  <2>. HIDE DEF size, was
  <2>4. PICK row : row = [old.sizes[s] EXCEPT ![b] = n + 1]
    OBVIOUS
  <2>5. row = [c \in Bucket |-> size(s, c)]
    BY <2>1, <2>2, <2>3, <2>4
  <2>6. [old.sizes EXCEPT ![s][b] = @ + 1] = [old.sizes EXCEPT ![s] = row]
    BY <1>11, <2>4
  <2>7. [old.sizes EXCEPT ![s] = row] = [t \in Source |-> [c \in Bucket |-> size(t, c)]]
    <3>1. ASSUME NEW t \in Source, t # s
          PROVE  old.sizes[t] = [c \in Bucket |-> size(t, c)]
      BY <2>1, <2>3, <3>1
    <3>2. DOMAIN old.sizes = Source
      BY <2>3
    <3>3. old.sizes = [t \in Source |-> old.sizes[t]]
      BY <2>3
    <3>4. [old.sizes EXCEPT ![s] = row] = [t \in Source |-> IF t = s THEN row ELSE old.sizes[t]]
      BY <3>2, <3>3
    <3>. QED BY <2>5, <3>1, <3>4
  <2>8. [old.sizes EXCEPT ![s][b] = @ + 1] = [t \in Source |-> [c \in Bucket |-> size(t, c)]]
    BY <2>6, <2>7
  <2>. QED BY <2>8 DEF size
<1>14. Insert(old, s, old.sizes[s][b], k, v) = new
  <2>. HIDE DEF new, old, b
  <2>. QED BY <1>2, <1>3, <1>12, <1>13, Zenon
<1>. QED BY <1>14 DEF old, new, b

\* Without records there is nothing to insert.
LEMMA RebuildNothing ==
    ASSUME NEW own, \A s \in Source : own[s] = {}
    PROVE  Rebuild(own) = EmptyTable
<1>1. Shares(own) /\ \A s \in Source, b \in Bucket : InBucket(own[s], b) = {}
  BY EmptyTableInv DEF InBucket
<1>2. Cardinality({}) = 0
  BY FS_EmptySet
<1>3. ASSUME NEW b \in Bucket PROVE RebuildBucket(Share(own, b)) = <<>>
  <2>1. PICK list : list = RebuildBucket(Share(own, b))
    OBVIOUS
  <2>2. Owned(Share(own, b)) /\ \A s \in Source : Share(own, b)[s] = {}
    BY <1>1, ShareOwned
  <2>3. list \in Seq(Node) /\ \E s \in Source : Cardinality(Share(own, b)[s]) = Len(list)
    BY <2>1, <2>2, RebuildShape
  <2>4. Len(list) = 0
    BY <1>2, <2>2, <2>3
  <2>. QED BY <2>1, <2>3, <2>4
<1>4. Rebuild(own) = [buckets |-> [b \in Bucket |-> RebuildBucket(Share(own, b))],
                      sizes |-> [s \in Source |-> [b \in Bucket |-> Cardinality(InBucket(own[s], b))]]]
  BY DEF Rebuild, Share
<1>5. [b \in Bucket |-> RebuildBucket(Share(own, b))] = [b \in Bucket |-> <<>>]
  BY <1>3
<1>6. [s \in Source |-> [b \in Bucket |-> Cardinality(InBucket(own[s], b))]]
         = [s \in Source |-> [b \in Bucket |-> 0]]
  BY <1>1, <1>2
<1>. QED BY <1>4, <1>5, <1>6, Zenon DEF EmptyTable

-----------------------------------------------------------------------------
(* Merging as far as possible                                              *)

\* The bits of a node that an element has been fused into, or out of.
LEMMA OccupyBits ==
    ASSUME NEW node \in Node, NEW s, NEW k \in Word, NEW v \in Word
    PROVE  Occupy(node, s, k, v).bits = node.bits \cup {s}
<1>1. Fused(node, k, v).bits = node.bits
  BY DEF Fused, Node
<1>2. \A S : [Fused(node, k, v) EXCEPT !.bits = S].bits = S
  BY FusedIs
<1>3. Occupy(node, s, k, v) = [Fused(node, k, v) EXCEPT !.bits = node.bits \cup {s}]
  BY <1>1, Zenon DEF Occupy
<1>. QED BY <1>2, <1>3

LEMMA VacateBits ==
    ASSUME NEW node \in Node, NEW s, NEW k \in Word, NEW v \in Word
    PROVE  Vacate(node, s, k, v).bits = node.bits \ {s}
<1>1. Fused(node, k, v).bits = node.bits
  BY DEF Fused, Node
<1>2. \A S : [Fused(node, k, v) EXCEPT !.bits = S].bits = S
  BY FusedIs
<1>3. Vacate(node, s, k, v) = [Fused(node, k, v) EXCEPT !.bits = node.bits \ {s}]
  BY <1>1, Zenon DEF Vacate
<1>. QED BY <1>2, <1>3

LEMMA TakenBits ==
    ASSUME NEW list \in Seq(Node), NEW c \in 1 .. Len(list), NEW s, NEW k \in Word, NEW v \in Word
    PROVE  Rebit(list, Taken(list, c, s, k, v), c, list[c].bits \cup {s})
<1>1. list[c] \in Node
  OBVIOUS
<1>2. PICK node : node = Occupy(list[c], s, k, v)
  OBVIOUS
<1>3. node.bits = list[c].bits \cup {s}
  BY <1>1, <1>2, OccupyBits
<1>4. Taken(list, c, s, k, v) = [list EXCEPT ![c] = node]
  BY <1>2, Zenon DEF Taken
<1>5. Rebit(list, [list EXCEPT ![c] = node], c, node.bits)
  BY RebitIs
<1>. QED BY <1>3, <1>4, <1>5, Zenon

LEMMA VacatedBits ==
    ASSUME NEW list \in Seq(Node), NEW c \in 1 .. Len(list), NEW s, NEW k \in Word, NEW v \in Word
    PROVE  Rebit(list, Vacated(list, c, s, k, v), c, list[c].bits \ {s})
<1>1. list[c] \in Node
  OBVIOUS
<1>2. PICK node : node = Vacate(list[c], s, k, v)
  OBVIOUS
<1>3. node.bits = list[c].bits \ {s}
  BY <1>1, <1>2, VacateBits
<1>4. Vacated(list, c, s, k, v) = [list EXCEPT ![c] = node]
  BY <1>2, Zenon DEF Vacated
<1>5. Rebit(list, [list EXCEPT ![c] = node], c, node.bits)
  BY RebitIs
<1>. QED BY <1>3, <1>4, <1>5, Zenon

LEMMA FreshDense ==
    ASSUME NEW list \in Seq(Node), Dense(list), NEW c \in 1 .. Len(list) + 1,
           NEW s, NEW k \in Word, NEW v \in Word,
           c > 1 => Has(list, c - 1, s), c <= Len(list) => Has(list, c, s)
    PROVE  Dense(Taken(InsertAt(list, c, NewNode), c, s, k, v))
<1>. DEFINE room == InsertAt(list, c, NewNode)
            new == Taken(room, c, s, k, v)
<1>1. NewNode \in Node /\ NewNode.bits = {} /\ Len(list) \in Nat
  BY XorsNone DEF NewNode
<1>2. /\ room \in Seq(Node) /\ Len(room) = Len(list) + 1
      /\ \A j \in 1 .. Len(list) + 1 :
            room[j] = IF j < c THEN list[j] ELSE IF j = c THEN NewNode ELSE list[j - 1]
  BY <1>1, InsertAtIs
<1>. HIDE DEF room
<1>3. c \in 1 .. Len(room)
  BY <1>2
<1>4. Rebit(room, new, c, room[c].bits \cup {s})
  BY <1>2, <1>3, TakenBits
<1>. HIDE DEF new
<1>5. Gap(list, new, c, s)
  <2>1. room[c] = NewNode
    BY <1>2
  <2>2. new[c].bits = {s}
    BY <1>1, <1>3, <1>4, <2>1 DEF Rebit
  <2>3. \A i \in 1 .. Len(list) + 1 : i # c => new[i].bits = room[i].bits
    BY <1>2, <1>4 DEF Rebit
  <2>4. \A i \in 1 .. Len(list) + 1 : i < c => room[i].bits = list[i].bits
    BY <1>2
  <2>5. \A i \in 1 .. Len(list) + 1 : i > c => room[i].bits = list[i - 1].bits
    BY <1>2
  <2>6. Len(new) = Len(list) + 1
    BY <1>2, <1>4 DEF Rebit
  <2>7. ASSUME NEW i \in 1 .. Len(list) + 1
        PROVE  new[i].bits =
                  IF i < c THEN list[i].bits ELSE IF i = c THEN {s} ELSE list[i - 1].bits
    <3>1. i < c => new[i].bits = list[i].bits
      BY <2>3, <2>4
    <3>2. i > c => new[i].bits = list[i - 1].bits
      BY <2>3, <2>5
    <3>3. i \in Int /\ c \in Int
      <4>1. Len(list) + 1 \in Int
        BY <1>1
      <4>. QED BY <4>1
    <3>4. CASE i < c
      BY <3>1, <3>4
    <3>5. CASE i = c
      <4>1. new[i].bits = {s} /\ ~(i < c)
        BY <2>2, <3>3, <3>5
      <4>. QED BY <3>5, <4>1
    <3>6. CASE i > c
      BY <3>2, <3>3, <3>6
    <3>. QED BY <3>3, <3>4, <3>5, <3>6
  <2>. QED BY <2>6, <2>7 DEF Gap
<1>6. Dense(new)
  BY <1>1, <1>5, GapDense
<1>. QED BY <1>6 DEF new, room

\* An element that shares a node.
LEMMA SharedDense ==
    ASSUME NEW list \in Seq(Node), Dense(list), NEW c \in 1 .. Len(list),
           NEW s, NEW k \in Word, NEW v \in Word
    PROVE  Dense(Taken(list, c, s, k, v))
<1>. DEFINE new == Taken(list, c, s, k, v)
<1>1. Rebit(list, new, c, list[c].bits \cup {s})
  BY TakenBits
<1>. HIDE DEF new
<1>2. Len(new) = Len(list) /\ \A i \in 1 .. Len(list) : list[i].bits \subseteq new[i].bits
  BY <1>1 DEF Rebit
<1>3. Dense(new)
  BY <1>2, MoreDense
<1>. QED BY <1>3 DEF new

\* Insert keeps a bucket dense, although it never merges.
LEMMA InsertDense ==
    ASSUME NEW list, NEW E, Owned(E), BucketInv(list, E), Dense(list),
           NEW s \in Source, NEW k \in Word, NEW v \in Word, \A q \in E[s] : q.key # k
    PROVE  Dense(InsertInto(list, s, Rank(E[s], k), k, v))
<1>. DEFINE index == Rank(E[s], k)
            c == Candidate(list, s, index)
            room == WithRoom(list, s, index, NewNode)
<1>1. PICK el : Carries(list, el, E)
  BY DEF BucketInv
<1>2. list \in Seq(Node) /\ Placed(list, el, E) /\ k \in Nat
  BY <1>1, WordIsNat DEF Carries
<1>3. c \in 1 .. Len(list) + 1
  BY <1>2, CandidateDivides, OwnedOrders
<1>4. c # NextSource(list, s, index) => c \in 1 .. Len(list)
  BY <1>2, RoomIs, OwnedOrders
<1>5. c = NextSource(list, s, index) =>
        (c > 1 => Has(list, c - 1, s)) /\ (c <= Len(list) => Has(list, c, s))
  BY <1>2, FreshBetween, OwnedOrders
<1>6. InsertInto(list, s, index, k, v) = Taken(room, c, s, k, v)
  BY DEF InsertInto, Taken
<1>7. room = IF c = NextSource(list, s, index) THEN InsertAt(list, c, NewNode) ELSE list
  BY DEF WithRoom
<1>. HIDE DEF c, index, room
<1>8. CASE c = NextSource(list, s, index)
  BY <1>2, <1>3, <1>5, <1>6, <1>7, <1>8, FreshDense DEF index
<1>9. CASE c # NextSource(list, s, index)
  BY <1>2, <1>4, <1>6, <1>7, <1>9, SharedDense DEF index
<1>. QED BY <1>8, <1>9

\* Replace changes no bits.
LEMMA ReplaceDense ==
    ASSUME NEW list \in Seq(Node), Dense(list), NEW c \in 1 .. Len(list), NEW x
    PROVE  Dense(Replaced(list, c, x))
<1>. DEFINE new == Replaced(list, c, x)
<1>1. PICK node : node = [list[c] EXCEPT !.value = Xor(@, x)]
  OBVIOUS
<1>2. node.bits = list[c].bits
  BY <1>1 DEF Node
<1>3. new = [list EXCEPT ![c] = node]
  BY <1>1 DEF Replaced
<1>4. Rebit(list, [list EXCEPT ![c] = node], c, node.bits)
  BY RebitIs
<1>. HIDE DEF new
<1>5. Len(new) = Len(list) /\ \A i \in 1 .. Len(list) : list[i].bits \subseteq new[i].bits
  BY <1>2, <1>3, <1>4 DEF Rebit
<1>. QED BY <1>5, MoreDense DEF new

LEMMA CombinedNode ==
    ASSUME NEW list \in Seq(Node), NEW l \in Nat, NEW r \in Nat, l >= 1, r <= Len(list)
    PROVE  Combined(list, l .. r) \in Node /\ Unites(list, l, r, Combined(list, l .. r))
<1>. DEFINE R == l .. r
            S == UNION {list[i].bits : i \in R}
            keys == [i \in R |-> list[i].key]
            values == [i \in R |-> list[i].value]
<1>1. IsFiniteSet(R)
  <2>1. l \in Int /\ r \in Int
    OBVIOUS
  <2>. QED BY <2>1, FS_Interval
<1>2. \A i \in R : list[i] \in Node
  OBVIOUS
<1>3. \A i \in R : list[i].bits \in SUBSET Source /\ list[i].key \in Word /\ list[i].value \in Word
  BY <1>2 DEF Node
<1>4. S \in SUBSET Source
  BY <1>3
<1>5. WordsOn(keys, R) /\ WordsOn(values, R)
  BY <1>3 DEF WordsOn
<1>6. Combined(list, R) = [key |-> XorOver(keys, R), value |-> XorOver(values, R), bits |-> S]
  BY DEF Combined
<1>7. Combined(list, R).bits = S
  BY <1>6
<1>8. Unites(list, l, r, Combined(list, R))
  BY <1>7 DEF Unites
<1>. HIDE DEF S, keys, values, R
<1>9. XorOver(keys, R) \in Word /\ XorOver(values, R) \in Word
  BY <1>1, <1>5, XorOverTyped
<1>10. Combined(list, R) \in Node
  BY <1>4, <1>6, <1>9 DEF Node
<1>. QED BY <1>8, <1>10 DEF R

\* Delete keeps a bucket dense: mergeNodes looks far enough on both sides.
LEMMA DeleteDense ==
    ASSUME NEW list, NEW E, Owned(E), BucketInv(list, E), Dense(list),
           NEW s \in Source, NEW r \in E[s],
           NEW F, Owned(F), Drops(F, E, s, r)
    PROVE  Dense(DeleteFrom(list, s, Rank(E[s], r.key), r.key, r.value))
<1>. DEFINE c == NodeAt(list, s, Rank(E[s], r.key))
            left == Vacated(list, c, s, r.key, r.value)
            linked == Unlink(left, c)
            range == Swallowed(left, c)
            node == Combined(linked, range)
            n == IF left[c].bits = {} /\ c > 1 THEN c - 1 ELSE c
<1>1. PICK el : Carries(list, el, E)
  BY DEF BucketInv
<1>2. list \in Seq(Node) /\ Placed(list, el, E) /\ Len(list) \in Nat
  BY <1>1 DEF Carries
<1>3. c \in 1 .. Len(list) /\ Has(list, c, s) /\ el[c][s] = r
  BY <1>2, NodeAtRank, OwnedOrders
<1>4. DeleteFrom(list, s, Rank(E[s], r.key), r.key, r.value) = MergeNodes(left, c, node)
  BY DEF DeleteFrom, Vacated
<1>5. MergeNodes(left, c, node)
         = IF linked = <<>> THEN <<>>
           ELSE SubSeq(linked, 1, Min(range) - 1) \o <<node>>
                    \o SubSeq(linked, Max(range) + 1, Len(linked))
  BY DEF MergeNodes
<1>6. BucketInv(left, F)
  <2>. HIDE DEF c
  <2>. QED BY <1>1, <1>3, VacateKeeps
<1>7. left \in Seq(Node) /\ c \in 1 .. Len(left) /\ Rebit(list, left, c, list[c].bits \ {s})
  <2>1. PICK cells : Carries(left, cells, F)
    BY <1>6 DEF BucketInv
  <2>2. Len(left) = Len(list)
    BY <1>2 DEF Vacated
  <2>3. r.key \in Word /\ r.value \in Word
    BY DEF Owned, Keyed, Element
  <2>. HIDE DEF c
  <2>4. Rebit(list, left, c, list[c].bits \ {s})
    BY <1>2, <1>3, <2>3, VacatedBits
  <2>. QED BY <1>3, <2>1, <2>2, <2>4 DEF Carries
<1>. HIDE DEF c, left, node, range
<1>8. /\ linked \in Seq(Node)
      /\ Len(linked) = Len(left) - (IF left[c].bits = {} THEN 1 ELSE 0)
      /\ DenseBut(linked, n)
  BY <1>2, <1>3, <1>7, UnlinkDense
<1>9. CASE linked = <<>>
  <2>1. Dense(<<>>)
    BY DEF Dense
  <2>. QED BY <1>4, <1>5, <1>9, <2>1
<1>10. CASE linked # <<>>
  <2>1. PICK l, r1 \in Nat : Merges(left, c, l, r1)
    BY <1>7, <1>8, <1>10, SwallowedIs, OwnedOrders
  <2>2. /\ l >= 1 /\ l <= r1 /\ r1 <= Len(linked) /\ Widest(linked, n, l, r1)
        /\ range = l .. r1 /\ Min(l .. r1) = l /\ Max(l .. r1) = r1
    BY <2>1 DEF Merges, range
  <2>. HIDE DEF linked, n
  <2>3. n \in 1 .. Len(linked)
    <3>1. l \in 1 .. n /\ r1 \in n .. Len(linked)
      BY <2>2 DEF Widest
    <3>2. n \in Nat
      BY <1>3 DEF n
    <3>. QED BY <2>2, <3>1, <3>2
  <2>4. node \in Node /\ Unites(linked, l, r1, node)
    BY <1>8, <2>2, CombinedNode DEF node
  <2>5. Dense(Splice(linked, l, node, r1))
    BY <1>8, <2>2, <2>3, <2>4, MergeDense
  <2>6. MergeNodes(left, c, node) = Splice(linked, l, node, r1)
    BY <1>5, <1>10, <2>2 DEF Splice
  <2>. QED BY <1>4, <2>5, <2>6
<1>. QED BY <1>9, <1>10

TableDense(table) == \A b \in Bucket : Dense(table.buckets[b])

\* One bucket of a table is another list now.
LEMMA BucketDense ==
    ASSUME NEW table, table.buckets \in [Bucket -> Seq(Node)], TableDense(table),
           NEW b \in Bucket, NEW list, Dense(list),
           NEW new, new.buckets = [table.buckets EXCEPT ![b] = list]
    PROVE  TableDense(new)
<1>1. \A c \in Bucket : new.buckets[c] = IF c = b THEN list ELSE table.buckets[c]
  OBVIOUS
<1>. QED BY <1>1 DEF TableDense

\* So do the operations on the table.
LEMMA InsertTableDense ==
    ASSUME NEW table, NEW own, Shares(own), TableInv(table, own), TableDense(table),
           NEW s \in Source, NEW k \in Word, NEW v \in Word, \A q \in own[s] : q.key # k
    PROVE  TableDense(Insert(table, s, Rank(InBucket(own[s], BucketOf(k)), k), k, v))
<1>1. PICK b : b = BucketOf(k) /\ b \in Bucket
  BY BucketTyped
<1>2. PICK E, old : E = Share(own, b) /\ old = table.buckets[b]
  OBVIOUS
<1>3. E[s] = InBucket(own[s], b) /\ \A q \in E[s] : q.key # k
  BY <1>2 DEF Share, InBucket
<1>4. Owned(E) /\ BucketInv(old, E) /\ Dense(old)
  BY <1>1, <1>2, ShareOwned DEF TableInv, TableDense
<1>5. PICK list : list = InsertInto(old, s, Rank(E[s], k), k, v)
  OBVIOUS
<1>6. Dense(list)
  BY <1>3, <1>4, <1>5, InsertDense
<1>7. Insert(table, s, Rank(E[s], k), k, v).buckets = [table.buckets EXCEPT ![b] = list]
  BY <1>1, <1>2, <1>5 DEF Insert
<1>8. table.buckets \in [Bucket -> Seq(Node)]
  BY DEF TableInv
<1>9. TableDense(Insert(table, s, Rank(E[s], k), k, v))
  BY <1>1, <1>6, <1>7, <1>8, BucketDense
<1>. QED BY <1>1, <1>3, <1>9

LEMMA ReplaceTableDense ==
    ASSUME NEW table, NEW own, Shares(own), TableInv(table, own), TableDense(table),
           NEW s \in Source, NEW r \in own[s], NEW v \in Word
    PROVE  TableDense(Replace(table, s, Rank(InBucket(own[s], BucketOf(r.key)), r.key),
                              r.key, r.value, v))
<1>1. PICK b : b = BucketOf(r.key) /\ b \in Bucket
  BY BucketTyped DEF Shares, Keyed, Element
<1>2. PICK E, old : E = Share(own, b) /\ old = table.buckets[b]
  OBVIOUS
<1>3. E[s] = InBucket(own[s], b) /\ r \in E[s]
  BY <1>1, <1>2 DEF Share, InBucket
<1>4. Owned(E) /\ BucketInv(old, E) /\ Dense(old)
  BY <1>1, <1>2, ShareOwned DEF TableInv, TableDense
<1>5. PICK c, x : c = NodeAt(old, s, Rank(E[s], r.key)) /\ x = Xor(r.value, v)
  OBVIOUS
<1>6. old \in Seq(Node) /\ c \in 1 .. Len(old)
  <2>1. PICK el : Carries(old, el, E)
    BY <1>4 DEF BucketInv
  <2>2. old \in Seq(Node) /\ Placed(old, el, E)
    BY <2>1 DEF Carries
  <2>. QED BY <1>3, <1>4, <1>5, <2>2, NodeAtRank, OwnedOrders
<1>7. PICK list : list = Replaced(old, c, x)
  OBVIOUS
<1>8. Dense(list)
  BY <1>4, <1>6, <1>7, ReplaceDense
<1>9. Replace(table, s, Rank(E[s], r.key), r.key, r.value, v).buckets
         = [table.buckets EXCEPT ![b] = list]
  <2>1. Replace(table, s, Rank(E[s], r.key), r.key, r.value, v).buckets
           = [table.buckets EXCEPT ![b] = Replaced(table.buckets[b], c, x)]
    BY <1>1, <1>2, <1>5 DEF Replace, Replaced
  <2>. QED BY <1>2, <1>7, <2>1
<1>10. table.buckets \in [Bucket -> Seq(Node)]
  BY DEF TableInv
<1>11. TableDense(Replace(table, s, Rank(E[s], r.key), r.key, r.value, v))
  BY <1>1, <1>8, <1>9, <1>10, BucketDense
<1>. QED BY <1>1, <1>3, <1>11

LEMMA DeleteTableDense ==
    ASSUME NEW table, NEW own, Shares(own), TableInv(table, own), TableDense(table),
           NEW s \in Source, NEW r \in own[s]
    PROVE  TableDense(Delete(table, s, Rank(InBucket(own[s], BucketOf(r.key)), r.key),
                             r.key, r.value))
<1>1. PICK b : b = BucketOf(r.key) /\ b \in Bucket
  BY BucketTyped DEF Shares, Keyed, Element
<1>2. PICK E, old : E = Share(own, b) /\ old = table.buckets[b]
  OBVIOUS
<1>3. E[s] = InBucket(own[s], b) /\ r \in E[s]
  BY <1>1, <1>2 DEF Share, InBucket
<1>4. Owned(E) /\ BucketInv(old, E) /\ Dense(old)
  BY <1>1, <1>2, ShareOwned DEF TableInv, TableDense
<1>5. PICK F : F = [t \in Source |-> IF t = s THEN E[s] \ {r} ELSE E[t]]
  OBVIOUS
<1>6. F[s] = E[s] \ {r} /\ \A t \in Source \ {s} : F[t] = E[t]
  BY <1>5
<1>7. Drops(F, E, s, r)
  BY <1>6 DEF Drops
<1>8. Owned(F)
  <2>1. Keyed(F[s])
    <3>1. F[s] \in SUBSET E[s] /\ Keyed(E[s])
      BY <1>4, <1>6 DEF Owned
    <3>2. IsFiniteSet(F[s])
      BY <3>1, FS_Subset DEF Keyed
    <3>. QED BY <3>1, <3>2 DEF Keyed
  <2>2. \A t \in Source \ {s} : Keyed(F[t])
    BY <1>4, <1>6 DEF Owned
  <2>. QED BY <2>1, <2>2 DEF Owned
<1>9. PICK list : list = DeleteFrom(old, s, Rank(E[s], r.key), r.key, r.value)
  OBVIOUS
<1>10. Dense(list)
  BY <1>3, <1>4, <1>7, <1>8, <1>9, DeleteDense
<1>11. Delete(table, s, Rank(E[s], r.key), r.key, r.value).buckets
          = [table.buckets EXCEPT ![b] = list]
  BY <1>1, <1>2, <1>9 DEF Delete
<1>12. table.buckets \in [Bucket -> Seq(Node)]
  BY DEF TableInv
<1>13. TableDense(Delete(table, s, Rank(E[s], r.key), r.key, r.value))
  BY <1>1, <1>10, <1>11, <1>12, BucketDense
<1>. QED BY <1>1, <1>3, <1>13

LEMMA EmptyTableDense == TableDense(EmptyTable)
<1>1. \A b \in Bucket : EmptyTable.buckets[b] = <<>>
  BY DEF EmptyTable
<1>2. Dense(<<>>)
  BY DEF Dense
<1>. QED BY <1>1, <1>2 DEF TableDense

\* A rebuilt bucket has one node for every record of the source with the most.
LEMMA RebuildDense ==
    ASSUME NEW E, Owned(E)
    PROVE  Dense(RebuildBucket(E))
<1>1. PICK list : list = RebuildBucket(E)
  OBVIOUS
<1>2. PICK t \in Source : Cardinality(E[t]) = Len(list)
  BY <1>1, RebuildShape
<1>3. Len(list) \in Nat /\ \A n \in 1 .. Len(list) : list[n] = RebuildNode(E, n)
  BY <1>1, RebuildShape
<1>4. \A n \in 1 .. Len(list) : t \in list[n].bits
  BY <1>2, <1>3, RebuildBits
<1>. QED BY <1>1, <1>4 DEF Dense, Meet

LEMMA RebuildTableDense ==
    ASSUME NEW own, Shares(own)
    PROVE  TableDense(Rebuild(own))
<1>1. \A b \in Bucket : Rebuild(own).buckets[b] = RebuildBucket(Share(own, b))
  BY DEF Rebuild, Share
<1>. QED BY <1>1, ShareOwned, RebuildDense DEF TableDense

-----------------------------------------------------------------------------
(* The records and the nodes a table counts                                *)

\* No two sources have the same record.
Apart(own) == \A s, t \in Source : s # t => own[s] \cap own[t] = {}

Everything(own) == Members(own, Source)

\* SourceRecordCount is the number of records of all the sources.
LEMMA CountsRecords ==
    ASSUME NEW own, Shares(own), Apart(own), NEW table, TableInv(table, own)
    PROVE  /\ IsFiniteSet(Everything(own))
           /\ SourceRecordCount(table) = Cardinality(Everything(own))
<1>. DEFINE R == Source \X Bucket
            d == [p \in R |-> InBucket(own[p[1]], p[2])]
            h == [p \in R |-> table.sizes[p[1]][p[2]]]
<1>1. IsFiniteSet(R)
  <2>1. IsFiniteSet(Source) /\ IsFiniteSet(Bucket)
    BY FS_Interval, SourceAssumption, TableAssumption DEF Source, Bucket
  <2>. QED BY <2>1, FS_Product
<1>2. ASSUME NEW p \in R PROVE IsFiniteSet(d[p]) /\ h[p] = Cardinality(d[p])
  <2>1. p[1] \in Source /\ p[2] \in Bucket /\ IsFiniteSet(own[p[1]])
    BY DEF Shares, Keyed
  <2>2. InBucket(own[p[1]], p[2]) \in SUBSET own[p[1]]
    BY DEF InBucket
  <2>3. IsFiniteSet(InBucket(own[p[1]], p[2]))
    BY <2>1, <2>2, FS_Subset
  <2>. QED BY <2>1, <2>3 DEF TableInv
<1>3. ASSUME NEW p \in R, NEW q \in R, p # q PROVE d[p] \cap d[q] = {}
  <2>1. p[1] # q[1] \/ p[2] # q[2]
    BY <1>3
  <2>2. CASE p[1] # q[1]
    <3>1. own[p[1]] \cap own[q[1]] = {}
      BY <2>2 DEF Apart
    <3>. QED BY <3>1 DEF InBucket
  <2>3. CASE p[2] # q[2]
    BY <2>3 DEF InBucket
  <2>. QED BY <2>1, <2>2, <2>3
<1>4. Parts(R, d, h)
  <2>. HIDE DEF R, d, h
  <2>. QED BY <1>2, <1>3 DEF Parts
<1>5. Members(d, R) = Everything(own)
  <2>1. ASSUME NEW r, NEW s \in Source, r \in own[s]
        PROVE  BucketOf(r.key) \in Bucket /\ r \in d[<<s, BucketOf(r.key)>>]
    BY <2>1, BucketTyped DEF Shares, Keyed, Element, InBucket
  <2>2. ASSUME NEW r, r \in Members(d, R) PROVE r \in Everything(own)
    BY <2>2 DEF Members, Everything, InBucket
  <2>3. ASSUME NEW r, r \in Everything(own) PROVE r \in Members(d, R)
    <3>1. PICK s \in Source : r \in own[s]
      BY <2>3 DEF Everything, Members
    <3>2. <<s, BucketOf(r.key)>> \in R /\ r \in d[<<s, BucketOf(r.key)>>]
      BY <2>1, <3>1
    <3>. HIDE DEF R, d
    <3>. QED BY <3>2 DEF Members
  <2>. QED BY <2>2, <2>3
<1>6. SourceRecordCount(table) = SumFunctionOnSet(h, R)
  BY DEF SourceRecordCount
<1>. HIDE DEF R, d, h
<1>. QED BY <1>1, <1>4, <1>5, <1>6, SumIsCount

\* The places of the nodes.
Slots(table) == UNION {{b} \X (1 .. Len(table.buckets[b])) : b \in Bucket}

LEMMA CountsNodes ==
    ASSUME NEW table, table.buckets \in [Bucket -> Seq(Node)]
    PROVE  IsFiniteSet(Slots(table)) /\ NodeCount(table) = Cardinality(Slots(table))
<1>. DEFINE d == [b \in Bucket |-> {b} \X (1 .. Len(table.buckets[b]))]
            h == [b \in Bucket |-> Len(table.buckets[b])]
<1>1. IsFiniteSet(Bucket)
  BY FS_Interval, TableAssumption DEF Bucket
<1>2. ASSUME NEW b \in Bucket PROVE IsFiniteSet(d[b]) /\ h[b] = Cardinality(d[b])
  <2>. PICK n : n = Len(table.buckets[b])
    OBVIOUS
  <2>1. n \in Nat
    OBVIOUS
  <2>2. IsFiniteSet(1 .. n) /\ Cardinality(1 .. n) = n
    BY <2>1, CountTo
  <2>3. IsFiniteSet({b}) /\ Cardinality({b}) = 1
    BY FS_Singleton
  <2>4. IsFiniteSet({b} \X (1 .. n)) /\ Cardinality({b} \X (1 .. n)) = 1 * n
    BY ZenonT(60), <2>2, <2>3, FS_Product
  <2>. QED BY <2>1, <2>4
<1>3. ASSUME NEW b \in Bucket, NEW c \in Bucket, b # c PROVE d[b] \cap d[c] = {}
  BY <1>3
<1>4. Members(d, Bucket) = Slots(table)
  BY DEF Members, Slots
<1>5. NodeCount(table) = SumFunctionOnSet(h, Bucket)
  BY DEF NodeCount
<1>. HIDE DEF d, h
<1>6. Parts(Bucket, d, h)
  BY <1>2, <1>3 DEF Parts
<1>. QED BY <1>1, <1>4, <1>5, <1>6, SumIsCount

\* Record r of source s is in the node at slot p.
LiesAt(table, els, p, s, r) ==
    /\ s \in Source
    /\ Has(table.buckets[p[1]], p[2], s)
    /\ els[p[1]][p[2]][s] = r

\* Every record of a source lies in one slot, and a slot has one of its records
\* at most.
Located(table, els, own) ==
    /\ \A s \in Source : \A r \in own[s] : \E p \in Slots(table) : LiesAt(table, els, p, s, r)
    /\ \A p \in Slots(table) : \A s, r : LiesAt(table, els, p, s, r) => r \in own[s]
    /\ \A p, q \in Slots(table) : \A s, r :
          LiesAt(table, els, p, s, r) /\ LiesAt(table, els, q, s, r) => p = q

LEMMA RecordsLocated ==
    ASSUME NEW own, Shares(own), NEW table, TableInv(table, own)
    PROVE  \E els : Located(table, els, own)
<1>. DEFINE els == [b \in Bucket |-> CHOOSE el : Carries(table.buckets[b], el, Share(own, b))]
<1>1. ASSUME NEW b \in Bucket
      PROVE  Placed(table.buckets[b], els[b], Share(own, b)) /\ table.buckets[b] \in Seq(Node)
  <2>1. \E el : Carries(table.buckets[b], el, Share(own, b))
    BY DEF TableInv, BucketInv
  <2>2. Carries(table.buckets[b], els[b], Share(own, b))
    BY <2>1
  <2>. QED BY <2>2 DEF Carries
<1>2. ASSUME NEW b \in Bucket, NEW s \in Source PROVE Share(own, b)[s] = InBucket(own[s], b)
  BY DEF Share
<1>. HIDE DEF els
<1>3. ASSUME NEW p, p \in Slots(table)
      PROVE  /\ p[1] \in Bucket /\ p[2] \in 1 .. Len(table.buckets[p[1]])
             /\ p = <<p[1], p[2]>>
  BY <1>3 DEF Slots
<1>4. ASSUME NEW s \in Source, NEW r \in own[s]
      PROVE  \E p \in Slots(table) : LiesAt(table, els, p, s, r)
  <2>1. PICK b : b = BucketOf(r.key) /\ b \in Bucket
    BY BucketTyped DEF Shares, Keyed, Element
  <2>2. r \in Share(own, b)[s]
    BY <1>2, <2>1 DEF InBucket
  <2>3. PICK i \in 1 .. Len(table.buckets[b]) : Has(table.buckets[b], i, s) /\ els[b][i][s] = r
    BY <1>1, <2>1, <2>2 DEF Placed
  <2>4. <<b, i>> \in Slots(table)
    BY <2>1 DEF Slots
  <2>5. LiesAt(table, els, <<b, i>>, s, r)
    BY <2>3 DEF LiesAt
  <2>. QED BY <2>4, <2>5
<1>5. ASSUME NEW p \in Slots(table), NEW s, NEW r, LiesAt(table, els, p, s, r)
      PROVE  s \in Source /\ r \in own[s] /\ BucketOf(r.key) = p[1]
  <2>1. r \in Share(own, p[1])[s]
    BY <1>1, <1>3, <1>5 DEF LiesAt, Placed
  <2>. QED BY <1>2, <1>3, <1>5, <2>1 DEF InBucket, LiesAt
<1>6. ASSUME NEW p \in Slots(table), NEW q \in Slots(table), NEW s, NEW r,
             LiesAt(table, els, p, s, r), LiesAt(table, els, q, s, r)
      PROVE  p = q
  <2>1. PICK b, i, j : b = p[1] /\ i = p[2] /\ j = q[2]
    OBVIOUS
  <2>2. q[1] = b /\ r.key \in Word
    BY <1>5, <1>6, <2>1 DEF Shares, Keyed, Element
  <2>3. b \in Bucket /\ i \in 1 .. Len(table.buckets[b]) /\ j \in 1 .. Len(table.buckets[b])
    BY <1>3, <2>1, <2>2
  <2>4. /\ Has(table.buckets[b], i, s) /\ els[b][i][s] = r
        /\ Has(table.buckets[b], j, s) /\ els[b][j][s] = r /\ s \in Source
    BY <1>6, <2>1, <2>2 DEF LiesAt
  <2>5. Placed(table.buckets[b], els[b], Share(own, b)) /\ Len(table.buckets[b]) \in Nat
    BY <1>1, <2>3
  <2>6. i < j => r.key < r.key
    BY <2>3, <2>4, <2>5 DEF Placed
  <2>7. j < i => r.key < r.key
    BY <2>3, <2>4, <2>5 DEF Placed
  <2>8. r.key \in Nat
    BY <2>2, XorAssumption
  <2>9. i \in Nat /\ j \in Nat
    BY <2>3, <2>5
  <2>10. i = j
    BY <2>6, <2>7, <2>8, <2>9
  <2>11. p = <<b, i>> /\ q = <<b, j>>
    BY <1>3, <2>1, <2>2
  <2>. QED BY <2>10, <2>11
<1>. QED BY <1>4, <1>5, <1>6 DEF Located

\* No table has fewer nodes than a source has records.
LEMMA NodesHoldSource ==
    ASSUME NEW own, Shares(own), NEW table, TableInv(table, own), NEW s \in Source
    PROVE  Cardinality(own[s]) <= NodeCount(table)
<1>1. PICK els : Located(table, els, own)
  BY RecordsLocated
<1>. DEFINE f == [r \in own[s] |-> CHOOSE p \in Slots(table) : LiesAt(table, els, p, s, r)]
<1>2. ASSUME NEW r \in own[s] PROVE f[r] \in Slots(table) /\ LiesAt(table, els, f[r], s, r)
  <2>1. \E p \in Slots(table) : LiesAt(table, els, p, s, r)
    BY <1>1 DEF Located
  <2>. QED BY <2>1
<1>3. DOMAIN f = own[s] /\ f = [r \in own[s] |-> f[r]]
  OBVIOUS
<1>. HIDE DEF f
<1>4. \A q, r \in own[s] : f[q] = f[r] => q = r
  BY <1>2 DEF LiesAt
<1>5. f \in Injection(own[s], Slots(table))
  BY <1>2, <1>3, <1>4 DEF Injection, IsInjective
<1>6. IsFiniteSet(Slots(table)) /\ NodeCount(table) = Cardinality(Slots(table))
  BY CountsNodes DEF TableInv
<1>. QED BY <1>5, <1>6, FS_Injection

\* No dense table has more nodes than there are records.
LEMMA NodesHaveRecords ==
    ASSUME NEW own, Shares(own), Apart(own), NEW table, TableInv(table, own), TableDense(table)
    PROVE  NodeCount(table) <= Cardinality(Everything(own))
<1>1. PICK els : Located(table, els, own)
  BY RecordsLocated
<1>. DEFINE Lies(p, r) == \E s \in Source : LiesAt(table, els, p, s, r)
            f == [p \in Slots(table) |-> CHOOSE r : Lies(p, r)]
<1>2. ASSUME NEW p \in Slots(table) PROVE \E r : Lies(p, r)
  <2>1. PICK b \in Bucket : p \in {b} \X (1 .. Len(table.buckets[b]))
    BY DEF Slots
  <2>2. p[1] = b /\ p[2] \in 1 .. Len(table.buckets[b])
    BY <2>1
  <2>3. table.buckets[b] \in Seq(Node) /\ Dense(table.buckets[b])
    BY DEF TableInv, TableDense
  <2>4. table.buckets[b][p[2]].bits # {} /\ table.buckets[b][p[2]] \in Node
    BY <2>2, <2>3 DEF Dense
  <2>5. PICK s \in Source : s \in table.buckets[b][p[2]].bits
    BY <2>4 DEF Node
  <2>6. PICK r : r = els[p[1]][p[2]][s]
    OBVIOUS
  <2>7. LiesAt(table, els, p, s, r)
    BY <2>2, <2>5, <2>6 DEF LiesAt, Has
  <2>. HIDE DEF f
  <2>. QED BY <2>7
<1>3. DOMAIN f = Slots(table) /\ f = [p \in Slots(table) |-> f[p]]
  <2>. HIDE DEF Lies
  <2>. QED OBVIOUS
<1>4. ASSUME NEW p \in Slots(table) PROVE Lies(p, f[p])
  BY <1>2
<1>. HIDE DEF f
<1>5. ASSUME NEW p \in Slots(table) PROVE f[p] \in Everything(own)
  BY <1>1, <1>4 DEF Located, Everything, Members
<1>6. ASSUME NEW p \in Slots(table), NEW q \in Slots(table), f[p] = f[q] PROVE p = q
  <2>1. PICK s \in Source : LiesAt(table, els, p, s, f[p])
    BY <1>4
  <2>2. PICK t \in Source : LiesAt(table, els, q, t, f[p])
    BY <1>4, <1>6
  <2>3. f[p] \in own[s] /\ f[p] \in own[t]
    BY <1>1, <2>1, <2>2 DEF Located
  <2>4. s = t
    BY <2>3 DEF Apart
  <2>. QED BY <1>1, <2>1, <2>2, <2>4 DEF Located
<1>7. f \in Injection(Slots(table), Everything(own))
  BY <1>3, <1>5, <1>6 DEF Injection, IsInjective
<1>8. IsFiniteSet(Slots(table)) /\ NodeCount(table) = Cardinality(Slots(table))
  BY CountsNodes DEF TableInv
<1>9. IsFiniteSet(Everything(own))
  BY CountsRecords
<1>. QED BY <1>7, <1>8, <1>9, FS_Injection
=============================================================================
