---------------------------- MODULE FusedListProofs ----------------------------
(***************************************************************************)
(* What is proved of fused lists, for any number of sources and all words, *)
(* and before it what all proofs about fused structures need: what XOR     *)
(* over a finite set of sources or nodes computes, whatever words they     *)
(* hold and in whatever order they are chosen, and what parts of sequences *)
(* are.                                                                    *)
(*                                                                         *)
(* The provers cannot use an induction rule that takes a predicate.  The   *)
(* inductions below are stated with sets instead: a set of natural numbers *)
(* has a smallest member, and a set of finite sets one that contains no    *)
(* other, both instances of WFMin.                                         *)
(*                                                                         *)
(* A layout says which element of which source is in which node: the nodes *)
(* whose bit is set for a source hold its elements, one each and in order. *)
(* The layout lemmas are about the bits only, so that the linked list and  *)
(* the buckets of the key/value table share them.  The elements of the     *)
(* linked list are told by their position in the source: that is their key *)
(* here.                                                                   *)
(*                                                                         *)
(* The list under queue and deque has counts in its nodes instead of bits, *)
(* and comes last.                                                         *)
(***************************************************************************)
EXTENDS FusedListOps, FusedPathOps, FiniteSetTheorems, SequenceTheorems, TLAPS

-----------------------------------------------------------------------------
(* Induction, sums and XOR over sets of sources or nodes                   *)

\* Among finite sets there is one that properly contains no other.
LEMMA SmallestSet ==
    ASSUME NEW S, IsFiniteSet(S), NEW B, B \subseteq SUBSET S, B # {}
    PROVE  \E T \in B : \A U \in B : U \subseteq T => U = T
<1>1. B \subseteq FiniteSubsetsOf(S)
  BY FS_FiniteSubsetsOfFinite
<1>2. \E T \in B : \A U \in B : ~ (<<U, T>> \in StrictSubsetOrdering(S))
  BY <1>1, FS_StrictSubsetOrderingWellFounded, WFMin
<1>. QED BY <1>2 DEF StrictSubsetOrdering

\* A set of natural numbers that is not empty has a smallest member.
LEMMA SmallestNumber ==
    ASSUME NEW N \in SUBSET Nat, N # {}
    PROVE  \E n \in N : \A m \in N : n <= m
<1>1. PICK n \in N : TRUE
  OBVIOUS
<1>. DEFINE I == 0 .. n
            B == {0 .. m : m \in {i \in N : i <= n}}
<1>2. PICK T \in B : \A U \in B : U \subseteq T => U = T
  <2>1. IsFiniteSet(I)
    BY FS_Interval
  <2>2. B \subseteq SUBSET I
    OBVIOUS
  <2>3. I \in B
    OBVIOUS
  <2>. HIDE DEF B, I
  <2>. QED BY <2>1, <2>2, <2>3, SmallestSet
<1>3. PICK m \in N : m <= n /\ T = 0 .. m
  BY <1>2
<1>4. ASSUME NEW i \in N, i < m PROVE FALSE
  <2>1. 0 .. i \in B
    BY <1>3, <1>4
  <2>2. 0 .. i \subseteq T
    BY <1>3, <1>4
  <2>3. 0 .. i = 0 .. m
    <3>. HIDE DEF B
    <3>. QED BY <1>2, <1>3, <2>1, <2>2
  <2>4. m \in 0 .. m
    OBVIOUS
  <2>. QED BY <1>4, <2>3, <2>4
<1>. QED BY <1>4

\* A set that holds 0 and with a number the next one holds all of them.
LEMMA SetInduction ==
    ASSUME NEW N, 0 \in N, \A n \in Nat : n \in N => n + 1 \in N
    PROVE  Nat \subseteq N
<1>. SUFFICES ASSUME Nat \ N # {} PROVE FALSE
  OBVIOUS
<1>1. PICK n \in Nat \ N : \A m \in Nat \ N : n <= m
  BY SmallestNumber
<1>. QED BY <1>1

-----------------------------------------------------------------------------
(* The fold exists                                                         *)

First(T) == CHOOSE x \in T : TRUE

\* g is the recursive function inside XorOver(f, S), on the sets D or on all.
FoldOn(f, D, g) ==
    g = [T \in D |-> IF T = {} THEN 0 ELSE Xor(f[First(T)], g[T \ {First(T)}])]

IsFold(f, S, g) == FoldOn(f, SUBSET S, g)

LEMMA FirstIsMember == \A T : T # {} => First(T) \in T
BY DEF First

LEMMA FoldExists ==
    ASSUME NEW f, NEW S, IsFiniteSet(S)
    PROVE  \E g : IsFold(f, S, g)
<1>. DEFINE D(n) == {T \in SUBSET S : Cardinality(T) <= n}
            N == {n \in Nat : \E g : FoldOn(f, D(n), g)}
<1>1. \A T \in SUBSET S : IsFiniteSet(T) /\ Cardinality(T) \in Nat /\ Cardinality(T) <= Cardinality(S)
  BY FS_Subset, FS_CardinalityType
<1>2. 0 \in N
  <2>. DEFINE g == [T \in D(0) |-> IF T = {} THEN 0 ELSE 0]
  <2>1. \A T \in D(0) : T = {}
    BY <1>1, FS_EmptySet
  <2>2. g = [T \in D(0) |-> IF T = {} THEN 0 ELSE Xor(f[First(T)], g[T \ {First(T)}])]
    BY <2>1
  <2>. QED BY <2>2 DEF FoldOn
<1>3. ASSUME NEW n \in Nat, n \in N PROVE n + 1 \in N
  <2>1. PICK g : FoldOn(f, D(n), g)
    BY <1>3
  <2>. DEFINE h == [T \in D(n + 1) |-> IF T = {} THEN 0 ELSE Xor(f[First(T)], g[T \ {First(T)}])]
  <2>2. \A T \in D(n + 1) : T # {} => T \ {First(T)} \in D(n)
    BY <1>1, FS_RemoveElement, FirstIsMember
  <2>3. \A T \in D(n) : T \in D(n + 1) /\ h[T] = g[T]
    <3>1. \A T \in D(n) : T \in D(n + 1)
      BY <1>1
    <3>2. \A T \in D(n) : g[T] = IF T = {} THEN 0 ELSE Xor(f[First(T)], g[T \ {First(T)}])
      BY <2>1 DEF FoldOn
    <3>. QED BY <3>1, <3>2
  <2>4. h = [T \in D(n + 1) |-> IF T = {} THEN 0 ELSE Xor(f[First(T)], h[T \ {First(T)}])]
    <3>. HIDE DEF h, D
    <3>1. \A T \in D(n + 1) : T # {} => h[T \ {First(T)}] = g[T \ {First(T)}]
      BY <2>2, <2>3
    <3>2. h = [T \in D(n + 1) |-> IF T = {} THEN 0 ELSE Xor(f[First(T)], g[T \ {First(T)}])]
      BY DEF h
    <3>. QED BY <3>1, <3>2
  <2>5. FoldOn(f, D(n + 1), h)
    BY <2>4 DEF FoldOn
  <2>. HIDE DEF h, D
  <2>. QED BY <2>5 DEF N
<1>4. Cardinality(S) \in N
  <2>. HIDE DEF N
  <2>. QED BY <1>1, <1>2, <1>3, SetInduction
<1>5. D(Cardinality(S)) = SUBSET S
  BY <1>1
<1>. QED BY <1>4, <1>5 DEF IsFold

\* Two folds agree where both are defined.
LEMMA FoldsAgree ==
    ASSUME NEW f, NEW S, IsFiniteSet(S), NEW R \in SUBSET S,
           NEW g, IsFold(f, S, g), NEW h, IsFold(f, R, h)
    PROVE  g[R] = h[R]
<1>. DEFINE B == {T \in SUBSET R : g[T] # h[T]}
<1>1. SUFFICES ASSUME B # {} PROVE FALSE
  OBVIOUS
<1>2. IsFiniteSet(R)
  BY FS_Subset
<1>3. PICK T \in B : \A U \in B : U \subseteq T => U = T
  <2>1. B \subseteq SUBSET R
    OBVIOUS
  <2>. HIDE DEF B
  <2>. QED BY <1>1, <1>2, <2>1, SmallestSet
<1>4. /\ g[T] = IF T = {} THEN 0 ELSE Xor(f[First(T)], g[T \ {First(T)}])
      /\ h[T] = IF T = {} THEN 0 ELSE Xor(f[First(T)], h[T \ {First(T)}])
  BY DEF IsFold, FoldOn
<1>5. T # {} => T \ {First(T)} \notin B
  BY <1>3, FirstIsMember
<1>. QED BY <1>4, <1>5

\* The value of XorOver, with the set's first element taken out.
LEMMA XorOverFirst ==
    ASSUME NEW f, NEW S, IsFiniteSet(S)
    PROVE  XorOver(f, S) = IF S = {} THEN 0
                           ELSE Xor(f[First(S)], XorOver(f, S \ {First(S)}))
<1>1. ASSUME NEW R \in SUBSET S
      PROVE  \E g : IsFold(f, R, g) /\ XorOver(f, R) = g[R]
  <2>. DEFINE G == CHOOSE h : h = [T \in SUBSET R |->
                        IF T = {} THEN 0
                        ELSE Xor(f[CHOOSE x \in T : TRUE], h[T \ {CHOOSE x \in T : TRUE}])]
  <2>1. \E h : IsFold(f, R, h)
    BY FoldExists, FS_Subset
  <2>2. IsFold(f, R, G)
    BY <2>1 DEF IsFold, FoldOn, First
  <2>3. XorOver(f, R) = G[R]
    BY DEF XorOver, FoldFunctionOnSet, MapThenFoldSet
  <2>. QED BY <2>2, <2>3
<1>. DEFINE R == S \ {First(S)}
<1>2. PICK g : IsFold(f, S, g) /\ XorOver(f, S) = g[S]
  BY <1>1
<1>3. PICK h : IsFold(f, R, h) /\ XorOver(f, R) = h[R]
  BY <1>1
<1>4. g[R] = h[R]
  <2>1. R \in SUBSET S
    OBVIOUS
  <2>. HIDE DEF R
  <2>. QED BY <1>2, <1>3, <2>1, FoldsAgree
<1>5. g[S] = IF S = {} THEN 0 ELSE Xor(f[First(S)], g[R])
  BY <1>2 DEF IsFold, FoldOn
<1>6. XorOver(f, S) = IF S = {} THEN 0 ELSE Xor(f[First(S)], XorOver(f, R))
  <2>. HIDE DEF R
  <2>. QED BY <1>2, <1>3, <1>4, <1>5
<1>. QED BY <1>6

-----------------------------------------------------------------------------
(* What XorOver computes                                                   *)

\* f gives a word to every member of S.
WordsOn(f, S) == \A x \in S : f[x] \in Word

\* A word XORed in twice is gone, and words may be XORed in any order.
LEMMA XorLaws ==
    /\ 0 \in Word
    /\ \A a, b \in Word : /\ Xor(a, b) \in Word
                          /\ Xor(a, b) = Xor(b, a)
                          /\ Xor(Xor(a, b), b) = a
                          /\ Xor(Xor(b, a), b) = a
                          /\ Xor(b, Xor(a, b)) = a
    /\ \A a, b, c \in Word : /\ Xor(Xor(a, b), c) = Xor(a, Xor(b, c))
                             /\ Xor(a, Xor(b, c)) = Xor(b, Xor(a, c))
                             /\ Xor(Xor(a, b), c) = Xor(Xor(a, c), b)
    /\ \A a \in Word : Xor(a, 0) = a /\ Xor(0, a) = a /\ Xor(a, a) = 0
<1>. USE XorAssumption
<1>1. \A a \in Word : Xor(0, a) = a
  OBVIOUS
<1>2. \A a, b \in Word : Xor(Xor(a, b), b) = a
  OBVIOUS
<1>3. \A a, b, c \in Word : Xor(a, Xor(b, c)) = Xor(b, Xor(a, c))
  <2>1. \A a, b, c \in Word : /\ Xor(a, Xor(b, c)) = Xor(Xor(a, b), c)
                              /\ Xor(Xor(b, a), c) = Xor(b, Xor(a, c))
    OBVIOUS
  <2>. QED BY <2>1
<1>4. \A a, b, c \in Word : Xor(Xor(a, b), c) = Xor(Xor(a, c), b)
  <2>1. \A a, b, c \in Word : /\ Xor(Xor(a, b), c) = Xor(a, Xor(b, c))
                              /\ Xor(a, Xor(c, b)) = Xor(Xor(a, c), b)
    OBVIOUS
  <2>. QED BY <2>1
<1>. QED BY <1>1, <1>2, <1>3, <1>4

LEMMA XorOverEmpty == \A f : XorOver(f, {}) = 0
BY XorOverFirst, FS_EmptySet

LEMMA XorOverTyped ==
    ASSUME NEW f, NEW S, IsFiniteSet(S), WordsOn(f, S)
    PROVE  XorOver(f, S) \in Word
<1>. DEFINE B == {T \in SUBSET S : XorOver(f, T) \notin Word}
<1>1. SUFFICES ASSUME B # {} PROVE FALSE
  OBVIOUS
<1>2. PICK T \in B : \A U \in B : U \subseteq T => U = T
  <2>1. B \subseteq SUBSET S
    OBVIOUS
  <2>. HIDE DEF B
  <2>. QED BY <1>1, <2>1, SmallestSet
<1>3. IsFiniteSet(T) /\ XorOver(f, T) \notin Word /\ T \subseteq S
  BY FS_Subset
<1>4. T # {}
  BY <1>3, XorOverEmpty, XorLaws
<1>5. T \ {First(T)} \notin B /\ First(T) \in T
  BY <1>2, <1>4, FirstIsMember
<1>6. XorOver(f, T \ {First(T)}) \in Word
  BY <1>5
<1>7. XorOver(f, T) = Xor(f[First(T)], XorOver(f, T \ {First(T)}))
  BY <1>3, <1>4, XorOverFirst
<1>. QED BY <1>3, <1>5, <1>6, <1>7, XorLaws DEF WordsOn

\* Any member may be taken out first.
LEMMA XorOverRemove ==
    ASSUME NEW f, NEW S, IsFiniteSet(S), WordsOn(f, S), NEW e \in S
    PROVE  XorOver(f, S) = Xor(f[e], XorOver(f, S \ {e}))
<1>. DEFINE B == {T \in SUBSET S : \E x \in T : XorOver(f, T) # Xor(f[x], XorOver(f, T \ {x}))}
<1>1. SUFFICES ASSUME B # {} PROVE FALSE
  OBVIOUS
<1>2. PICK T \in B : \A U \in B : U \subseteq T => U = T
  <2>1. B \subseteq SUBSET S
    OBVIOUS
  <2>. HIDE DEF B
  <2>. QED BY <1>1, <2>1, SmallestSet
<1>3. PICK x \in T : XorOver(f, T) # Xor(f[x], XorOver(f, T \ {x}))
  OBVIOUS
<1>. DEFINE c == First(T)
            P == T \ {c}
            Q == T \ {x}
            R == P \ {x}
<1>4. c \in T /\ T \subseteq S
  BY FirstIsMember
<1>5. /\ IsFiniteSet(T) /\ IsFiniteSet(P) /\ IsFiniteSet(Q) /\ IsFiniteSet(R)
      /\ R = Q \ {c}
      /\ f[c] \in Word /\ f[x] \in Word /\ XorOver(f, R) \in Word
  <2>1. T \in SUBSET S /\ P \in SUBSET S /\ Q \in SUBSET S /\ R \in SUBSET S
    BY <1>4
  <2>2. IsFiniteSet(T) /\ IsFiniteSet(P) /\ IsFiniteSet(Q) /\ IsFiniteSet(R)
    <3>. HIDE DEF P, Q, R
    <3>. QED BY <2>1, FS_Subset
  <2>3. WordsOn(f, R)
    BY <2>1 DEF WordsOn
  <2>4. XorOver(f, R) \in Word
    <3>. HIDE DEF R
    <3>. QED BY <2>2, <2>3, XorOverTyped
  <2>. QED BY <1>4, <2>2, <2>4 DEF WordsOn
<1>6. XorOver(f, T) = Xor(f[c], XorOver(f, P))
  BY <1>3, <1>5, XorOverFirst
<1>7. x # c
  BY <1>3, <1>6
<1>8. XorOver(f, P) = Xor(f[x], XorOver(f, R))
  <2>1. P \notin B /\ x \in P /\ P \subseteq S
    BY <1>2, <1>4, <1>7
  <2>2. XorOver(f, P) = Xor(f[x], XorOver(f, P \ {x}))
    <3>. HIDE DEF P, Q, R, c
    <3>. QED BY <2>1
  <2>. QED BY <2>2
<1>9. XorOver(f, Q) = Xor(f[c], XorOver(f, R))
  <2>1. Q \notin B /\ c \in Q /\ Q \ {c} = R /\ Q \subseteq S
    BY <1>2, <1>4, <1>7
  <2>2. XorOver(f, Q) = Xor(f[c], XorOver(f, Q \ {c}))
    <3>. HIDE DEF Q, R, P, c
    <3>. QED BY <2>1
  <2>. QED BY <2>1, <2>2
<1>. HIDE DEF P, Q, R, c, B
<1>10. XorOver(f, T) = Xor(f[x], XorOver(f, Q))
  BY <1>5, <1>6, <1>8, <1>9, XorLaws
<1>. QED BY <1>3, <1>10 DEF Q

\* Only the words of the set's members matter.
LEMMA XorOverSame ==
    ASSUME NEW f, NEW g, NEW S, IsFiniteSet(S), \A x \in S : f[x] = g[x]
    PROVE  XorOver(f, S) = XorOver(g, S)
<1>. DEFINE B == {T \in SUBSET S : XorOver(f, T) # XorOver(g, T)}
<1>1. SUFFICES ASSUME B # {} PROVE FALSE
  OBVIOUS
<1>2. PICK T \in B : \A U \in B : U \subseteq T => U = T
  <2>1. B \subseteq SUBSET S
    OBVIOUS
  <2>. HIDE DEF B
  <2>. QED BY <1>1, <2>1, SmallestSet
<1>3. IsFiniteSet(T) /\ XorOver(f, T) # XorOver(g, T) /\ T \subseteq S
  BY FS_Subset
<1>4. T # {}
  BY <1>3, XorOverEmpty
<1>5. T \ {First(T)} \notin B /\ First(T) \in T
  BY <1>2, <1>4, FirstIsMember
<1>6. XorOver(f, T \ {First(T)}) = XorOver(g, T \ {First(T)})
  BY <1>5
<1>7. /\ XorOver(f, T) = Xor(f[First(T)], XorOver(f, T \ {First(T)}))
      /\ XorOver(g, T) = Xor(g[First(T)], XorOver(g, T \ {First(T)}))
  BY <1>3, <1>4, XorOverFirst
<1>8. f[First(T)] = g[First(T)]
  BY <1>3, <1>5
<1>. QED BY <1>3, <1>6, <1>7, <1>8

\* A new member's word is XORed in.
LEMMA XorOverAdd ==
    ASSUME NEW f, NEW S, IsFiniteSet(S), WordsOn(f, S),
           NEW e, e \notin S, f[e] \in Word
    PROVE  XorOver(f, S \cup {e}) = Xor(XorOver(f, S), f[e])
<1>. DEFINE T == S \cup {e}
<1>1. IsFiniteSet(T) /\ WordsOn(f, T) /\ e \in T /\ T \ {e} = S
  BY FS_AddElement DEF WordsOn
<1>2. XorOver(f, T) = Xor(f[e], XorOver(f, S))
  <2>1. XorOver(f, T) = Xor(f[e], XorOver(f, T \ {e}))
    <3>. HIDE DEF T
    <3>. QED BY <1>1, XorOverRemove
  <2>. QED BY <1>1, <2>1
<1>. QED BY <1>2, XorOverTyped, XorLaws

\* One word may be XORed out and another one in.
LEMMA XorOverChange ==
    ASSUME NEW f, NEW g, NEW S, IsFiniteSet(S), WordsOn(f, S), WordsOn(g, S),
           NEW e \in S, \A x \in S : x # e => f[x] = g[x]
    PROVE  XorOver(g, S) = Xor(Xor(XorOver(f, S), f[e]), g[e])
<1>. DEFINE R == S \ {e}
<1>1. IsFiniteSet(R) /\ WordsOn(f, R) /\ WordsOn(g, R)
  BY FS_Subset DEF WordsOn
<1>2. XorOver(f, R) = XorOver(g, R) /\ XorOver(f, R) \in Word
  <2>1. \A x \in R : f[x] = g[x]
    OBVIOUS
  <2>. HIDE DEF R
  <2>. QED BY <1>1, <2>1, XorOverSame, XorOverTyped
<1>3. XorOver(f, S) = Xor(f[e], XorOver(f, R)) /\ XorOver(g, S) = Xor(g[e], XorOver(g, R))
  BY XorOverRemove
<1>. HIDE DEF R
<1>. QED BY <1>2, <1>3, XorLaws DEF WordsOn

\* The XOR over two disjoint sets.
LEMMA XorOverUnion ==
    ASSUME NEW f, NEW S, IsFiniteSet(S), WordsOn(f, S),
           NEW T, IsFiniteSet(T), WordsOn(f, T), S \cap T = {}
    PROVE  XorOver(f, S \cup T) = Xor(XorOver(f, S), XorOver(f, T))
<1>. DEFINE B == {U \in SUBSET T : XorOver(f, S \cup U) # Xor(XorOver(f, S), XorOver(f, U))}
<1>1. SUFFICES ASSUME B # {} PROVE FALSE
  OBVIOUS
<1>2. PICK U \in B : \A V \in B : V \subseteq U => V = U
  <2>1. B \subseteq SUBSET T
    OBVIOUS
  <2>. HIDE DEF B
  <2>. QED BY <1>1, <2>1, SmallestSet
<1>3. /\ U \subseteq T /\ IsFiniteSet(U)
      /\ XorOver(f, S \cup U) # Xor(XorOver(f, S), XorOver(f, U))
      /\ XorOver(f, S) \in Word
  BY FS_Subset, XorOverTyped
<1>4. U # {}
  <2>1. XorOver(f, S \cup {}) = Xor(XorOver(f, S), XorOver(f, {}))
    <3>1. S \cup {} = S
      OBVIOUS
    <3>. QED BY <1>3, <3>1, XorOverEmpty, XorLaws
  <2>. QED BY <1>3, <2>1
<1>. DEFINE e == First(U)
            V == U \ {e}
            W == S \cup V
<1>5. /\ e \in U /\ f[e] \in Word /\ e \notin V /\ e \notin W
      /\ IsFiniteSet(V) /\ WordsOn(f, V)
      /\ IsFiniteSet(W) /\ WordsOn(f, W)
      /\ S \cup U = W \cup {e} /\ U = V \cup {e}
  <2>1. e \in U
    BY <1>4, FirstIsMember
  <2>2. IsFiniteSet(V)
    BY <1>3, FS_Subset
  <2>3. IsFiniteSet(W)
    BY <2>2, FS_Union
  <2>. QED BY <1>3, <2>1, <2>2, <2>3 DEF WordsOn
<1>6. XorOver(f, W) = Xor(XorOver(f, S), XorOver(f, V))
  <2>1. V \notin B /\ V \in SUBSET T
    BY <1>2, <1>3, <1>5
  <2>. QED BY <2>1
<1>7. /\ XorOver(f, S \cup U) = Xor(XorOver(f, W), f[e])
      /\ XorOver(f, U) = Xor(XorOver(f, V), f[e])
      /\ XorOver(f, V) \in Word
  <2>. HIDE DEF e, V, W
  <2>. QED BY <1>5, XorOverAdd, XorOverTyped
<1>. HIDE DEF e, V, W, B
<1>. QED BY <1>3, <1>5, <1>6, <1>7, XorLaws

\* Members whose word is zero may be left out.
LEMMA XorOverZeros ==
    ASSUME NEW f, NEW S, IsFiniteSet(S), WordsOn(f, S),
           NEW T \in SUBSET S, \A x \in S \ T : f[x] = 0
    PROVE  XorOver(f, S) = XorOver(f, T)
<1>. DEFINE B == {U \in SUBSET (S \ T) : XorOver(f, U) # 0}
            R == S \ T
<1>1. IsFiniteSet(R) /\ IsFiniteSet(T)
  BY FS_Subset
<1>2. XorOver(f, R) = 0
  <2>1. SUFFICES ASSUME B # {} PROVE FALSE
    OBVIOUS
  <2>2. PICK U \in B : \A V \in B : V \subseteq U => V = U
    <3>1. B \subseteq SUBSET R
      OBVIOUS
    <3>. HIDE DEF B, R
    <3>. QED BY <1>1, <2>1, <3>1, SmallestSet
  <2>3. IsFiniteSet(U) /\ XorOver(f, U) # 0 /\ U \subseteq S \ T
    BY FS_Subset
  <2>4. U # {} /\ First(U) \in U
    BY <2>3, XorOverEmpty, FirstIsMember
  <2>5. XorOver(f, U \ {First(U)}) = 0
    BY <2>2, <2>4
  <2>6. XorOver(f, U) = Xor(f[First(U)], XorOver(f, U \ {First(U)}))
    BY <2>3, <2>4, XorOverFirst
  <2>. QED BY <2>3, <2>4, <2>5, <2>6, XorLaws
<1>3. WordsOn(f, R) /\ WordsOn(f, T) /\ R \cap T = {} /\ T \cup R = S
  BY DEF WordsOn
<1>4. XorOver(f, T \cup R) = Xor(XorOver(f, T), XorOver(f, R))
  <2>. HIDE DEF R
  <2>. QED BY <1>1, <1>3, XorOverUnion
<1>. QED BY <1>1, <1>2, <1>3, <1>4, XorOverTyped, XorLaws

\* The members may be renamed.
LEMMA XorOverRenamed ==
    ASSUME NEW f, NEW S, IsFiniteSet(S), NEW g, NEW T, IsFiniteSet(T), WordsOn(g, T),
           NEW b,
           \A x \in S : b[x] \in T /\ f[x] = g[b[x]],
           \A x, y \in S : b[x] = b[y] => x = y,
           \A z \in T : \E x \in S : b[x] = z
    PROVE  XorOver(f, S) = XorOver(g, T)
<1>. DEFINE Image(U) == {b[x] : x \in U}
            B == {U \in SUBSET S : XorOver(f, U) # XorOver(g, Image(U))}
<1>1. Image(S) = T
  OBVIOUS
<1>2. SUFFICES ASSUME B # {} PROVE FALSE
  BY <1>1
<1>3. PICK U \in B : \A V \in B : V \subseteq U => V = U
  <2>1. B \subseteq SUBSET S
    OBVIOUS
  <2>. HIDE DEF B
  <2>. QED BY <1>2, <2>1, SmallestSet
<1>4. IsFiniteSet(U) /\ U \subseteq S /\ XorOver(f, U) # XorOver(g, Image(U))
  BY FS_Subset
<1>5. U # {}
  <2>1. Image({}) = {}
    OBVIOUS
  <2>. QED BY <1>4, <2>1, XorOverEmpty
<1>. DEFINE e == First(U)
            V == U \ {e}
<1>6. e \in U
  BY <1>5, FirstIsMember
<1>7. XorOver(f, V) = XorOver(g, Image(V))
  <2>1. V \notin B /\ V \in SUBSET S
    BY <1>3, <1>4, <1>6
  <2>. QED BY <2>1
<1>8. /\ Image(V) = Image(U) \ {b[e]}
      /\ b[e] \in Image(U)
      /\ Image(U) \in SUBSET T
  BY <1>1, <1>4, <1>6
<1>9. XorOver(g, Image(U)) = Xor(g[b[e]], XorOver(g, Image(V)))
  <2>1. IsFiniteSet(Image(U))
    <3>. HIDE DEF Image
    <3>. QED BY <1>8, FS_Subset
  <2>2. WordsOn(g, Image(U))
    BY <1>8 DEF WordsOn
  <2>. HIDE DEF Image, e, V
  <2>. QED BY <1>8, <2>1, <2>2, XorOverRemove
<1>10. XorOver(f, U) = Xor(f[e], XorOver(f, V))
  BY <1>4, <1>5, XorOverFirst
<1>. QED BY <1>4, <1>6, <1>7, <1>9, <1>10

-----------------------------------------------------------------------------
(* Slices                                                                  *)

\* A finite set of natural numbers that is not empty has a largest member.
LEMMA LargestNumber ==
    ASSUME NEW N, IsFiniteSet(N), N # {}, \A n \in N : n \in Nat
    PROVE  Max(N) \in N /\ \A n \in N : n <= Max(N)
<1>. DEFINE B == {T \in SUBSET N : T # {} /\ ~ \E m \in T : \A n \in T : n <= m}
<1>1. \E m \in N : \A n \in N : n <= m
  <2>1. SUFFICES ASSUME B # {} PROVE FALSE
    OBVIOUS
  <2>2. PICK T \in B : \A U \in B : U \subseteq T => U = T
    <3>1. B \subseteq SUBSET N
      OBVIOUS
    <3>. HIDE DEF B
    <3>. QED BY <2>1, <3>1, SmallestSet
  <2>3. PICK x \in T : TRUE
    OBVIOUS
  <2>4. T \ {x} \notin B
    BY <2>2, <2>3
  <2>5. CASE T \ {x} = {}
    <3>1. \A n \in T : n <= x
      BY <2>3, <2>5
    <3>. QED BY <2>3, <3>1
  <2>6. CASE T \ {x} # {}
    <3>1. PICK m \in T \ {x} : \A n \in T \ {x} : n <= m
      BY <2>4, <2>6
    <3>2. x <= m => \A n \in T : n <= m
      BY <3>1
    <3>3. ~ (x <= m) => \A n \in T : n <= x
      BY <3>1
    <3>. QED BY <2>3, <3>1, <3>2, <3>3
  <2>. QED BY <2>5, <2>6
<1>2. \E m \in N : \A n \in N : m >= n
  BY <1>1
<1>3. Max(N) \in N /\ \A n \in N : Max(N) >= n
  BY <1>2, Zenon DEF Max
<1>. QED BY <1>3

\* Slices of words, one for each member of a finite set that is not empty.
AreSlices(slices, S) == IsFiniteSet(S) /\ S # {} /\ slices \in [S -> Seq(Word)]

WordAt(q, i) == IF i <= Len(q) THEN q[i] ELSE 0

\* The XOR of the i-th words of all slices.
Column(slices, i) ==
    XorOver([s \in DOMAIN slices |-> WordAt(slices[s], i)], DOMAIN slices)

LEMMA WordAtTyped ==
    ASSUME NEW q \in Seq(Word), NEW i \in Nat, i >= 1
    PROVE  WordAt(q, i) \in Word
BY XorLaws DEF WordAt

LEMMA LongestIsLength ==
    ASSUME NEW S, NEW slices, AreSlices(slices, S)
    PROVE  /\ Longest(slices) \in Nat
           /\ \A s \in S : Len(slices[s]) <= Longest(slices)
           /\ \E s \in S : Len(slices[s]) = Longest(slices)
<1>. DEFINE N == {Len(slices[s]) : s \in DOMAIN slices}
            f == [s \in S |-> Len(slices[s])]
<1>1. DOMAIN slices = S /\ \A s \in S : Len(slices[s]) \in Nat
  BY DEF AreSlices
<1>2. f \in Surjection(S, N)
  BY <1>1 DEF Surjection
<1>3. IsFiniteSet(N)
  <2>. HIDE DEF f, N
  <2>. QED BY <1>2, FS_Surjection DEF AreSlices
<1>4. N # {} /\ \A n \in N : n \in Nat
  BY <1>1 DEF AreSlices
<1>5. Max(N) \in N /\ \A n \in N : n <= Max(N)
  <2>. HIDE DEF N
  <2>. QED BY <1>3, <1>4, LargestNumber
<1>6. Longest(slices) = Max(N)
  BY DEF Longest
<1>7. Longest(slices) \in N /\ \A n \in N : n <= Longest(slices)
  BY <1>5, <1>6
<1>. HIDE DEF f
<1>. QED BY <1>1, <1>7

\* How long the slices are is told by any bound that one of them reaches.
LEMMA LongestReached ==
    ASSUME NEW S, NEW slices, AreSlices(slices, S), NEW n \in Nat,
           \A s \in S : Len(slices[s]) <= n, \E s \in S : Len(slices[s]) = n
    PROVE  Longest(slices) = n
<1>1. \A s \in S : Len(slices[s]) \in Nat
  BY DEF AreSlices
<1>. QED BY <1>1, LongestIsLength

LEMMA ColumnTyped ==
    ASSUME NEW S, NEW slices, AreSlices(slices, S), NEW i \in Nat, i >= 1
    PROVE  /\ WordsOn([s \in S |-> WordAt(slices[s], i)], S)
           /\ Column(slices, i) = XorOver([s \in S |-> WordAt(slices[s], i)], S)
           /\ Column(slices, i) \in Word
<1>. DEFINE f == [s \in S |-> WordAt(slices[s], i)]
<1>1. DOMAIN slices = S /\ IsFiniteSet(S) /\ WordsOn(f, S)
  BY WordAtTyped DEF AreSlices, WordsOn
<1>2. XorOver(f, S) \in Word
  <2>. HIDE DEF f
  <2>. QED BY <1>1, XorOverTyped
<1>. QED BY <1>1, <1>2 DEF Column

\* The words of the slices that reach to i, XORed, are the i-th words of all.
LEMMA HereIsColumn ==
    ASSUME NEW S, NEW slices, AreSlices(slices, S), NEW i \in Nat, i >= 1,
           NEW here, here = {s \in DOMAIN slices : i <= Len(slices[s])}
    PROVE  XorOver([s \in here |-> slices[s][i]], here) = Column(slices, i)
<1>. DEFINE f == [s \in S |-> WordAt(slices[s], i)]
            g == [s \in here |-> slices[s][i]]
<1>1. IsFiniteSet(S) /\ WordsOn(f, S) /\ here \in SUBSET S
  BY ColumnTyped DEF AreSlices
<1>2. \A s \in S \ here : f[s] = 0
  BY DEF WordAt, AreSlices
<1>3. \A s \in here : g[s] = f[s]
  BY <1>1 DEF WordAt
<1>4. XorOver(f, S) = XorOver(f, here)
  <2>. HIDE DEF f
  <2>. QED BY <1>1, <1>2, XorOverZeros
<1>5. XorOver(g, here) = XorOver(f, here)
  <2>. HIDE DEF f, g
  <2>. QED BY <1>1, <1>3, XorOverSame, FS_Subset
<1>. QED BY <1>4, <1>5, ColumnTyped

\* XORSlices computes the columns, as far as any slice goes.
LEMMA XORSlicesColumns ==
    ASSUME NEW S, NEW slices, AreSlices(slices, S)
    PROVE  /\ XORSlices(slices) = [i \in 1 .. Longest(slices) |-> Column(slices, i)]
           /\ XORSlices(slices) \in Seq(Word)
           /\ Len(XORSlices(slices)) = Longest(slices)
<1>. DEFINE Here(i) == {s \in DOMAIN slices : i <= Len(slices[s])}
<1>1. Longest(slices) \in Nat
  BY LongestIsLength
<1>2. ASSUME NEW i \in 1 .. Longest(slices)
      PROVE  /\ XorOver([s \in Here(i) |-> slices[s][i]], Here(i)) = Column(slices, i)
             /\ Column(slices, i) \in Word
  <2>1. i \in Nat /\ i >= 1
    BY <1>1
  <2>. QED BY <2>1, HereIsColumn, ColumnTyped
<1>3. XORSlices(slices) = [i \in 1 .. Longest(slices) |-> XorOver([s \in Here(i) |-> slices[s][i]], Here(i))]
  BY DEF XORSlices
<1>4. XORSlices(slices) = [i \in 1 .. Longest(slices) |-> Column(slices, i)]
  <2>. HIDE DEF Here
  <2>. QED BY <1>2, <1>3
<1>5. /\ XORSlices(slices) \in Seq(Word)
      /\ Len(XORSlices(slices)) = Longest(slices)
  <2>1. \A i \in 1 .. Longest(slices) : Column(slices, i) \in Word
    BY <1>2
  <2>. HIDE DEF Here
  <2>. QED BY <1>1, <1>4, <2>1
<1>. QED BY <1>4, <1>5

\* An array is the XOR of the slices when it is as long as the longest one and
\* has the right columns.
LEMMA IsXORSlices ==
    ASSUME NEW S, NEW slices, AreSlices(slices, S), NEW array \in Seq(Word)
    PROVE  array = XORSlices(slices) <=>
              /\ Len(array) = Longest(slices)
              /\ \A i \in 1 .. Len(array) : array[i] = Column(slices, i)
<1>1. /\ XORSlices(slices) = [i \in 1 .. Longest(slices) |-> Column(slices, i)]
      /\ Len(XORSlices(slices)) = Longest(slices)
  BY XORSlicesColumns
<1>2. array = [i \in 1 .. Len(array) |-> array[i]]
  OBVIOUS
<1>3. ASSUME array = XORSlices(slices)
      PROVE  /\ Len(array) = Longest(slices)
             /\ \A i \in 1 .. Len(array) : array[i] = Column(slices, i)
  BY <1>1, <1>3
<1>4. ASSUME Len(array) = Longest(slices), \A i \in 1 .. Len(array) : array[i] = Column(slices, i)
      PROVE  array = XORSlices(slices)
  BY <1>1, <1>2, <1>4
<1>. QED BY <1>3, <1>4

\* When one slice changes, its old word leaves the column and its new one enters.
LEMMA ColumnChange ==
    ASSUME NEW S, NEW slices, AreSlices(slices, S), NEW changed, AreSlices(changed, S),
           NEW e \in S, \A s \in S : s # e => changed[s] = slices[s],
           NEW i \in Nat, i >= 1
    PROVE  Column(changed, i) =
              Xor(Xor(Column(slices, i), WordAt(slices[e], i)), WordAt(changed[e], i))
<1>. DEFINE f == [s \in S |-> WordAt(slices[s], i)]
            g == [s \in S |-> WordAt(changed[s], i)]
<1>1. /\ WordsOn(f, S) /\ WordsOn(g, S) /\ IsFiniteSet(S)
      /\ Column(slices, i) = XorOver(f, S)
      /\ Column(changed, i) = XorOver(g, S)
  <2>1. WordsOn(f, S) /\ Column(slices, i) = XorOver(f, S)
    BY ColumnTyped
  <2>2. WordsOn(g, S) /\ Column(changed, i) = XorOver(g, S)
    BY ColumnTyped
  <2>. QED BY <2>1, <2>2 DEF AreSlices
<1>2. /\ \A s \in S : s # e => f[s] = g[s]
      /\ f[e] = WordAt(slices[e], i)
      /\ g[e] = WordAt(changed[e], i)
  OBVIOUS
<1>3. XorOver(g, S) = Xor(Xor(XorOver(f, S), f[e]), g[e])
  <2>. HIDE DEF f, g
  <2>. QED BY <1>1, <1>2, XorOverChange
<1>. QED BY <1>1, <1>2, <1>3

\* The columns of all slices, as long as the missing one, and the other slices.
IsOut(out, slices, missing) ==
    /\ out \in Seq(Word) /\ Len(out) = Len(slices[missing])
    /\ \A i \in 1 .. Len(out) : out[i] = Column(slices, i)

AreSurvivors(survivors, slices, missing) ==
    survivors = [s \in DOMAIN slices \ {missing} |-> slices[s]]

\* Recovery: the columns of all slices, as long as the lost one, with the other
\* slices XORed out of them are the lost slice.
LEMMA XOROutRecovers ==
    ASSUME NEW S, NEW slices, AreSlices(slices, S), NEW missing \in S, S # {missing},
           NEW out, IsOut(out, slices, missing),
           NEW survivors, AreSurvivors(survivors, slices, missing)
    PROVE  XOROut(out, survivors) = slices[missing]
<1>. DEFINE R == S \ {missing}
            others == [s \in R |-> slices[s]]
            lost == slices[missing]
            Here(i) == {s \in DOMAIN others : i <= Len(others[s])}
<1>1. AreSlices(others, R) /\ lost \in Seq(Word) /\ Len(lost) \in Nat
  BY FS_Subset DEF AreSlices
<1>2. ASSUME NEW i \in 1 .. Len(lost)
      PROVE  Xor(out[i], XorOver([s \in Here(i) |-> others[s][i]], Here(i))) = lost[i]
  <2>1. i \in Nat /\ i >= 1 /\ lost[i] \in Word
    BY <1>1
  <2>2. XorOver([s \in Here(i) |-> others[s][i]], Here(i)) = Column(others, i)
    <3>. DEFINE here == Here(i)
    <3>1. here = {s \in DOMAIN others : i <= Len(others[s])}
      OBVIOUS
    <3>2. XorOver([s \in here |-> others[s][i]], here) = Column(others, i)
      <4>. HIDE DEF here, others, R
      <4>. QED BY <1>1, <2>1, <3>1, HereIsColumn
    <3>. QED BY <3>2
  <2>. DEFINE f == [s \in S |-> WordAt(slices[s], i)]
              g == [s \in R |-> WordAt(others[s], i)]
  <2>3. /\ WordsOn(f, S) /\ IsFiniteSet(S) /\ IsFiniteSet(R)
        /\ Column(slices, i) = XorOver(f, S)
        /\ Column(others, i) = XorOver(g, R)
        /\ Column(others, i) \in Word
    <3>1. /\ Column(others, i) = XorOver(g, R)
          /\ Column(others, i) \in Word
      <4>. HIDE DEF others, R
      <4>. QED BY <1>1, <2>1, ColumnTyped
    <3>2. WordsOn(f, S) /\ Column(slices, i) = XorOver(f, S)
      BY <2>1, ColumnTyped
    <3>3. IsFiniteSet(S) /\ IsFiniteSet(R)
      BY <1>1 DEF AreSlices
    <3>. HIDE DEF others, R, f, g
    <3>. QED BY <3>1, <3>2, <3>3
  <2>4. XorOver(f, S) = Xor(lost[i], XorOver(f, R))
    <3>1. f[missing] = lost[i]
      BY <1>1 DEF WordAt
    <3>2. XorOver(f, S) = Xor(f[missing], XorOver(f, R))
      <4>. HIDE DEF f, g, others, lost
      <4>. QED BY <2>3, XorOverRemove
    <3>. QED BY <3>1, <3>2
  <2>5. XorOver(f, R) = XorOver(g, R)
    <3>1. \A s \in R : f[s] = g[s]
      OBVIOUS
    <3>. HIDE DEF f, g, R
    <3>. QED BY <2>3, <3>1, XorOverSame
  <2>6. out[i] = Xor(lost[i], Column(others, i))
    BY <2>3, <2>4, <2>5 DEF IsOut
  <2>. HIDE DEF lost, others, Here
  <2>. QED BY <2>1, <2>2, <2>3, <2>6, XorLaws
<1>0. survivors = others
  BY DEF AreSurvivors, AreSlices
<1>3. XOROut(out, others) = [i \in 1 .. Len(lost) |-> Xor(out[i], XorOver([s \in Here(i) |-> others[s][i]], Here(i)))]
  BY <1>1 DEF XOROut, IsOut
<1>4. XOROut(out, others) = [i \in 1 .. Len(lost) |-> lost[i]]
  <2>. HIDE DEF Here, lost, others
  <2>. QED BY <1>2, <1>3
<1>5. lost = [i \in 1 .. Len(lost) |-> lost[i]]
  <2>. HIDE DEF lost, others
  <2>. QED BY <1>1
<1>. QED BY <1>0, <1>4, <1>5

-----------------------------------------------------------------------------
(* Slices that grow and shrink by one word                                 *)

\* No slice reaches above the longest.
LEMMA ColumnAbove ==
    ASSUME NEW S, NEW slices, AreSlices(slices, S), NEW i \in Nat, i > Longest(slices)
    PROVE  Column(slices, i) = 0
<1>. DEFINE f == [s \in S |-> WordAt(slices[s], i)]
<1>1. i >= 1 /\ Longest(slices) \in Nat
  BY LongestIsLength
<1>2. WordsOn(f, S) /\ Column(slices, i) = XorOver(f, S) /\ IsFiniteSet(S)
  BY <1>1, ColumnTyped DEF AreSlices
<1>3. \A s \in S \ {} : f[s] = 0
  <2>1. \A s \in S : Len(slices[s]) \in Nat /\ Len(slices[s]) <= Longest(slices)
    BY LongestIsLength DEF AreSlices
  <2>. QED BY <1>1, <2>1 DEF WordAt
<1>4. {} \in SUBSET S
  OBVIOUS
<1>. HIDE DEF f
<1>5. XorOver(f, S) = XorOver(f, {})
  BY <1>2, <1>3, <1>4, XorOverZeros
<1>. QED BY <1>2, <1>5, XorOverEmpty

\* The array of the slices, word by word.
LEMMA ArrayOfSlices ==
    ASSUME NEW S, NEW slices, AreSlices(slices, S)
    PROVE  /\ XORSlices(slices) \in Seq(Word)
           /\ Len(XORSlices(slices)) = Longest(slices) /\ Longest(slices) \in Nat
           /\ \A i \in 1 .. Longest(slices) : XORSlices(slices)[i] = Column(slices, i)
           /\ \A s \in S : /\ slices[s] \in Seq(Word)
                           /\ Len(slices[s]) \in Nat /\ Len(slices[s]) <= Longest(slices)
           /\ \E s \in S : Len(slices[s]) = Longest(slices)
<1>1. /\ XORSlices(slices) = [i \in 1 .. Longest(slices) |-> Column(slices, i)]
      /\ XORSlices(slices) \in Seq(Word) /\ Len(XORSlices(slices)) = Longest(slices)
  BY XORSlicesColumns
<1>2. /\ Longest(slices) \in Nat
      /\ \A s \in S : Len(slices[s]) <= Longest(slices)
      /\ \E s \in S : Len(slices[s]) = Longest(slices)
  BY LongestIsLength
<1>3. \A s \in S : slices[s] \in Seq(Word) /\ Len(slices[s]) \in Nat
  BY DEF AreSlices
<1>4. \A i \in 1 .. Longest(slices) : XORSlices(slices)[i] = Column(slices, i)
  BY <1>1
<1>. QED BY <1>1, <1>2, <1>3, <1>4

\* A word appended to one slice: an array with a place for it, zero if it is new,
\* becomes the array of the slices.
LEMMA SliceGrows ==
    ASSUME NEW S, NEW slices, AreSlices(slices, S), NEW e \in S, NEW word \in Word,
           NEW grown \in Seq(Word),
           Len(grown) = IF Len(slices[e]) + 1 > Longest(slices)
                        THEN Longest(slices) + 1 ELSE Longest(slices),
           \A i \in 1 .. Len(grown) : grown[i] = Column(slices, i)
    PROVE  /\ [grown EXCEPT ![Len(slices[e]) + 1] = Xor(@, word)]
                = XORSlices([slices EXCEPT ![e] = Append(@, word)])
           /\ AreSlices([slices EXCEPT ![e] = Append(@, word)], S)
<1>1. PICK d \in Nat : d = Len(slices[e]) + 1
  BY ArrayOfSlices
<1>2. PICK changed : changed = [slices EXCEPT ![e] = Append(@, word)]
  OBVIOUS
<1>3. PICK after : after = [grown EXCEPT ![d] = Xor(@, word)]
  OBVIOUS
<1>4. PICK L \in Nat : L = Longest(slices)
  BY ArrayOfSlices
<1>5. /\ \A s \in S : slices[s] \in Seq(Word) /\ Len(slices[s]) \in Nat /\ Len(slices[s]) <= L
      /\ \E s \in S : Len(slices[s]) = L
  BY <1>4, ArrayOfSlices
<1>6. d >= 1 /\ d - 1 = Len(slices[e]) /\ d <= L + 1
  BY <1>1, <1>5
<1>7. Len(grown) = (IF d > L THEN L + 1 ELSE L) /\ Len(grown) \in Nat /\ d \in 1 .. Len(grown)
  BY <1>1, <1>4, <1>6
<1>8. /\ AreSlices(changed, S)
      /\ changed[e] \in Seq(Word) /\ Len(changed[e]) = d
      /\ changed[e][d] = word
      /\ \A i \in 1 .. d - 1 : changed[e][i] = slices[e][i]
      /\ \A s \in S : s # e => changed[s] = slices[s]
  <2>1. changed[e] = Append(slices[e], word)
    BY <1>2 DEF AreSlices
  <2>2. Append(slices[e], word) \in Seq(Word) /\ Len(Append(slices[e], word)) = d
        /\ \A i \in 1 .. d - 1 : Append(slices[e], word)[i] = slices[e][i]
        /\ Append(slices[e], word)[d] = word
    BY <1>1, <1>5
  <2>3. changed \in [S -> Seq(Word)]
    BY <1>2, <2>2 DEF AreSlices
  <2>4. \A s \in S : s # e => changed[s] = slices[s]
    BY <1>2 DEF AreSlices
  <2>. QED BY <2>1, <2>2, <2>3, <2>4 DEF AreSlices
<1>9. Longest(changed) = Len(grown)
  <2>1. \A s \in S : Len(changed[s]) <= Len(grown)
    BY <1>5, <1>6, <1>7, <1>8
  <2>2. \E s \in S : Len(changed[s]) = Len(grown)
    <3>1. CASE d > L
      BY <1>6, <1>7, <1>8, <3>1
    <3>2. CASE ~(d > L)
      <4>1. PICK s \in S : Len(slices[s]) = L
        BY <1>5
      <4>2. s # e
        BY <1>6, <3>2, <4>1
      <4>. QED BY <1>7, <1>8, <3>2, <4>1, <4>2
    <3>. QED BY <3>1, <3>2
  <2>. QED BY <1>7, <1>8, <2>1, <2>2, LongestReached
<1>10. after \in Seq(Word) /\ Len(after) = Len(grown)
       /\ \A i \in 1 .. Len(grown) : after[i] = IF i = d THEN Xor(grown[i], word) ELSE grown[i]
  <2>1. Xor(grown[d], word) \in Word
    BY <1>7, XorLaws
  <2>. QED BY <1>3, <1>7, <2>1
<1>11. ASSUME NEW i \in 1 .. Len(grown) PROVE after[i] = Column(changed, i)
  <2>1. i \in Nat /\ i >= 1
    BY <1>7
  <2>2. Column(changed, i) = Xor(Xor(Column(slices, i), WordAt(slices[e], i)), WordAt(changed[e], i))
    BY <1>8, <2>1, ColumnChange
  <2>3. Column(slices, i) \in Word /\ WordAt(slices[e], i) \in Word /\ grown[i] = Column(slices, i)
    BY <1>5, <2>1, ColumnTyped, WordAtTyped
  <2>4. CASE i = d
    <3>1. WordAt(slices[e], i) = 0 /\ WordAt(changed[e], i) = word
      BY <1>6, <1>8, <2>1, <2>4 DEF WordAt
    <3>2. Column(changed, i) = Xor(grown[i], word)
      BY <2>2, <2>3, <3>1, XorLaws
    <3>. QED BY <1>10, <2>4, <3>2
  <2>5. CASE i # d
    <3>1. WordAt(changed[e], i) = WordAt(slices[e], i)
      BY <1>6, <1>8, <2>1, <2>5 DEF WordAt
    <3>2. Column(changed, i) = grown[i]
      BY <2>2, <2>3, <3>1, XorLaws
    <3>. QED BY <1>10, <2>5, <3>2
  <2>. QED BY <2>4, <2>5
<1>12. after = XORSlices(changed)
  <2>1. \A i \in 1 .. Len(after) : after[i] = Column(changed, i)
    BY <1>10, <1>11
  <2>. QED BY <1>8, <1>9, <1>10, <2>1, IsXORSlices
<1>. QED BY <1>1, <1>2, <1>3, <1>8, <1>12

\* What is left of a slice without its last word.
LEMMA FrontProperties ==
    ASSUME NEW S, NEW q \in Seq(S), q # <<>>
    PROVE  /\ Front(q) \in Seq(S)
           /\ Len(Front(q)) = Len(q) - 1
           /\ \A i \in 1 .. Len(q) - 1 : Front(q)[i] = q[i]
           /\ Last(q) \in S /\ Last(q) = q[Len(q)]
           /\ Len(q) \in Nat /\ Len(q) >= 1
<1>1. Len(q) \in Nat /\ Len(q) >= 1 /\ \A i \in 1 .. Len(q) : q[i] \in S
  OBVIOUS
<1>2. Front(q) = [i \in 1 .. Len(q) - 1 |-> q[i]]
  BY <1>1 DEF Front
<1>. QED
  BY <1>1, <1>2 DEF Last

\* The last word of one slice taken off it, and out of the array.
IsShrunk(shrunk, slices, e) == shrunk = [slices EXCEPT ![e] = Front(@)]

IsLeft(left, slices, e) ==
    /\ left \in Seq(Word) /\ Len(left) = Longest(slices)
    /\ \A i \in 1 .. Len(left) :
          left[i] = IF i = Len(slices[e]) THEN Xor(Column(slices, i), Last(slices[e]))
                                          ELSE Column(slices, i)

\* Then the array holds the XORs of what is left up to the longest slice, and
\* zeros above it.
LEMMA SliceShrinks ==
    ASSUME NEW S, NEW slices, AreSlices(slices, S), NEW e \in S, slices[e] # <<>>,
           NEW shrunk, IsShrunk(shrunk, slices, e), NEW left, IsLeft(left, slices, e)
    PROVE  /\ AreSlices(shrunk, S)
           /\ Longest(shrunk) \in 0 .. Len(left)
           /\ \A i \in 1 .. Len(left) : left[i] = Column(shrunk, i)
           /\ XORSlices(shrunk) = SubSeq(left, 1, Longest(shrunk))
<1>1. PICK d \in Nat : d = Len(slices[e])
  BY ArrayOfSlices
<1>3. PICK word : word = Last(slices[e])
  OBVIOUS
<1>6. PICK L \in Nat : L = Longest(slices)
  BY ArrayOfSlices
<1>7. \A s \in S : slices[s] \in Seq(Word) /\ Len(slices[s]) \in Nat /\ Len(slices[s]) <= L
  BY <1>6, ArrayOfSlices
<1>8. d \in 1 .. L /\ word \in Word /\ slices[e][d] = word
  <2>1. slices[e] \in Seq(Word) /\ slices[e] # <<>> /\ Len(slices[e]) <= L
    BY <1>7
  <2>2. Last(slices[e]) \in Word /\ Last(slices[e]) = slices[e][Len(slices[e])]
        /\ Len(slices[e]) >= 1
    BY <2>1, FrontProperties
  <2>. QED BY <1>1, <1>3, <2>1, <2>2
<1>9. /\ AreSlices(shrunk, S)
      /\ Len(shrunk[e]) = d - 1
      /\ \A i \in 1 .. d - 1 : shrunk[e][i] = slices[e][i]
      /\ \A s \in S : s # e => shrunk[s] = slices[s]
  <2>1. Front(slices[e]) \in Seq(Word) /\ Len(Front(slices[e])) = d - 1
        /\ \A i \in 1 .. d - 1 : Front(slices[e])[i] = slices[e][i]
    BY <1>1, <1>7, FrontProperties
  <2>2. AreSlices(shrunk, S)
    BY <2>1 DEF AreSlices, IsShrunk
  <2>3. shrunk[e] = Front(slices[e]) /\ \A s \in S : s # e => shrunk[s] = slices[s]
    BY DEF AreSlices, IsShrunk
  <2>. QED BY <2>1, <2>2, <2>3
<1>10. /\ left \in Seq(Word) /\ Len(left) = L
       /\ \A i \in 1 .. L : left[i] = IF i = d THEN Xor(Column(slices, i), word) ELSE Column(slices, i)
  BY <1>1, <1>3, <1>6 DEF IsLeft
<1>11. PICK n \in 0 .. L : n = Longest(shrunk)
  <2>1. Longest(shrunk) \in Nat
    BY <1>9, ArrayOfSlices
  <2>2. PICK s \in S : Len(shrunk[s]) = Longest(shrunk)
    BY <1>9, ArrayOfSlices
  <2>3. Len(shrunk[s]) <= L
    BY <1>1, <1>7, <1>8, <1>9
  <2>. QED BY <2>1, <2>2, <2>3
<1>12. ASSUME NEW i \in 1 .. L PROVE left[i] = Column(shrunk, i)
  <2>1. i \in Nat /\ i >= 1
    OBVIOUS
  <2>2. Column(shrunk, i) = Xor(Xor(Column(slices, i), WordAt(slices[e], i)), WordAt(shrunk[e], i))
    BY <1>9, <2>1, ColumnChange
  <2>3. Column(slices, i) \in Word /\ WordAt(slices[e], i) \in Word
    BY <1>7, <2>1, ColumnTyped, WordAtTyped
  <2>4. CASE i = d
    <3>1. WordAt(slices[e], i) = word /\ WordAt(shrunk[e], i) = 0
      BY <1>1, <1>8, <1>9, <2>1, <2>4 DEF WordAt
    <3>2. Column(shrunk, i) = Xor(Column(slices, i), word)
      BY <1>8, <2>2, <2>3, <3>1, XorLaws
    <3>. QED BY <1>10, <2>4, <3>2
  <2>5. CASE i # d
    <3>1. WordAt(shrunk[e], i) = WordAt(slices[e], i)
      BY <1>1, <1>8, <1>9, <2>1, <2>5 DEF WordAt
    <3>2. Column(shrunk, i) = Column(slices, i)
      BY <2>2, <2>3, <3>1, XorLaws
    <3>. QED BY <1>10, <2>5, <3>2
  <2>. QED BY <2>4, <2>5
<1>13. XORSlices(shrunk) = SubSeq(left, 1, n)
  <2>1. XORSlices(shrunk) = [i \in 1 .. n |-> Column(shrunk, i)]
    BY <1>9, <1>11, XORSlicesColumns
  <2>2. SubSeq(left, 1, n) = [i \in 1 .. n |-> left[i]]
    BY <1>10
  <2>3. \A i \in 1 .. n : left[i] = Column(shrunk, i)
    BY <1>12
  <2>. QED BY <2>1, <2>2, <2>3
<1>. QED BY <1>9, <1>10, <1>11, <1>12, <1>13

\* The indices of an array that hold no zero or that a slice reaches.
Reached(left, slices) ==
    {0} \cup {i \in DOMAIN left :
                 left[i] # 0 \/ \E s \in DOMAIN slices : Len(slices[s]) >= i}

\* Above the highest slice the zeros end where the slices do: dropping the zeros
\* that no slice reaches leaves an array as long as the longest.
LEMMA ZerosEndAtLongest ==
    ASSUME NEW S, NEW slices, AreSlices(slices, S), NEW left \in Seq(Word),
           Longest(slices) \in 0 .. Len(left),
           \A i \in 1 .. Len(left) : left[i] = Column(slices, i)
    PROVE  Max(Reached(left, slices)) = Longest(slices)
<1>0. PICK stays : stays = Reached(left, slices)
  OBVIOUS
<1>1. Longest(slices) \in Nat /\ Len(left) \in Nat /\ DOMAIN left = 1 .. Len(left)
      /\ \A s \in S : Len(slices[s]) \in Nat
  BY DEF AreSlices
<1>2. stays = {0} \cup {i \in 1 .. Len(left) : left[i] # 0 \/ \E s \in S : Len(slices[s]) >= i}
  BY <1>0, <1>1 DEF Reached, AreSlices
<1>3. IsFiniteSet(stays)
  <2>1. PICK n \in Nat : n = Len(left)
    BY <1>1
  <2>2. IsFiniteSet(0 .. n)
    BY FS_Interval
  <2>. QED BY <1>1, <1>2, <2>1, <2>2, FS_Subset
<1>4. Longest(slices) \in stays
  <2>1. CASE Longest(slices) = 0
    BY <1>2, <2>1
  <2>2. CASE Longest(slices) # 0
    <3>1. PICK s \in S : Len(slices[s]) = Longest(slices)
      BY LongestIsLength
    <3>. QED BY <1>1, <1>2, <2>2, <3>1
  <2>. QED BY <2>1, <2>2
<1>5. ASSUME NEW i \in stays PROVE i \in Nat /\ i <= Longest(slices)
  <2>1. CASE i = 0
    BY <1>1, <2>1
  <2>2. CASE i # 0
    <3>1. i \in 1 .. Len(left) /\ i \in Nat
      BY <1>1, <1>2, <2>2
    <3>2. CASE left[i] # 0
      BY <1>1, <3>1, <3>2, ColumnAbove
    <3>3. CASE \E s \in S : Len(slices[s]) >= i
      BY <1>1, <3>1, <3>3, LongestIsLength
    <3>. QED BY <1>1, <1>2, <2>2, <3>1, <3>2, <3>3
  <2>. QED BY <2>1, <2>2
<1>6. Max(stays) \in stays /\ \A n \in stays : n <= Max(stays)
  <2>1. stays # {} /\ \A n \in stays : n \in Nat
    BY <1>2, <1>5
  <2>. QED BY <1>3, <2>1, LargestNumber
<1>. QED BY <1>0, <1>1, <1>4, <1>5, <1>6

-----------------------------------------------------------------------------
(* Sequences put together and taken apart                                  *)

\* c is a followed by b.
IsJoined(T, a, b, c) ==
    /\ c \in Seq(T) /\ Len(c) = Len(a) + Len(b)
    /\ \A j \in 1 .. Len(a) : c[j] = a[j]
    /\ \A j \in 1 .. Len(b) : c[Len(a) + j] = b[j]
    /\ Len(a) \in Nat /\ Len(b) \in Nat

LEMMA Concatenated ==
    ASSUME NEW T, NEW a \in Seq(T), NEW b \in Seq(T)
    PROVE  IsJoined(T, a, b, a \o b)
BY DEF IsJoined

LEMMA PartOf ==
    ASSUME NEW T, NEW q \in Seq(T), NEW l \in Nat, l >= 1, NEW r \in Nat, r <= Len(q), l <= r + 1
    PROVE  /\ SubSeq(q, l, r) \in Seq(T) /\ Len(SubSeq(q, l, r)) = r - l + 1
           /\ \A j \in 1 .. r - l + 1 : SubSeq(q, l, r)[j] = q[l + j - 1]
OBVIOUS

\* A sequence without one of its elements.
LEMMA RemoveAtIs ==
    ASSUME NEW T, NEW q \in Seq(T), NEW c \in 1 .. Len(q)
    PROVE  /\ RemoveAt(q, c) \in Seq(T)
           /\ Len(RemoveAt(q, c)) = Len(q) - 1
           /\ \A j \in 1 .. Len(q) - 1 :
                 RemoveAt(q, c)[j] = IF j < c THEN q[j] ELSE q[j + 1]
<1>. DEFINE new == RemoveAt(q, c)
            a == SubSeq(q, 1, c - 1)
            b == SubSeq(q, c + 1, Len(q))
<1>1. /\ c - 1 \in Nat /\ 1 <= (c - 1) + 1 /\ c - 1 <= Len(q)
      /\ c + 1 \in Nat /\ c + 1 >= 1 /\ c + 1 <= Len(q) + 1
  OBVIOUS
<1>2. a \in Seq(T) /\ Len(a) = c - 1 /\ \A j \in 1 .. c - 1 : a[j] = q[j]
  <2>1. /\ a \in Seq(T) /\ Len(a) = (c - 1) - 1 + 1
        /\ \A j \in 1 .. (c - 1) - 1 + 1 : a[j] = q[1 + j - 1]
    BY <1>1, PartOf
  <2>. HIDE DEF a
  <2>. QED BY <1>1, <2>1
<1>3. b \in Seq(T) /\ Len(b) = Len(q) - c /\ \A j \in 1 .. Len(q) - c : b[j] = q[c + j]
  <2>1. /\ b \in Seq(T) /\ Len(b) = Len(q) - (c + 1) + 1
        /\ \A j \in 1 .. Len(q) - (c + 1) + 1 : b[j] = q[(c + 1) + j - 1]
    BY <1>1, PartOf
  <2>. HIDE DEF b
  <2>. QED BY <1>1, <2>1
<1>4. new = a \o b
  BY DEF RemoveAt
<1>. HIDE DEF a, b, new
<1>5. IsJoined(T, a, b, new)
  BY <1>2, <1>3, <1>4, Concatenated
<1>6. /\ new \in Seq(T) /\ Len(new) = Len(a) + Len(b)
      /\ \A j \in 1 .. Len(a) : new[j] = a[j]
      /\ \A j \in 1 .. Len(b) : new[Len(a) + j] = b[j]
  BY <1>5 DEF IsJoined
<1>7. ASSUME NEW j \in 1 .. Len(q) - 1 PROVE new[j] = IF j < c THEN q[j] ELSE q[j + 1]
  <2>1. CASE j < c
    <3>1. j \in 1 .. Len(a)
      BY <1>2, <2>1
    <3>. QED BY <1>2, <1>6, <2>1, <3>1
  <2>2. CASE ~(j < c)
    <3>1. j - (c - 1) \in 1 .. Len(b) /\ Len(a) + (j - (c - 1)) = j /\ c + (j - (c - 1)) = j + 1
      BY <1>2, <1>3, <2>2
    <3>2. new[Len(a) + (j - (c - 1))] = b[j - (c - 1)]
      BY <1>6, <3>1
    <3>3. b[j - (c - 1)] = q[c + (j - (c - 1))]
      BY <1>3, <3>1
    <3>. QED BY <2>2, <3>1, <3>2, <3>3
  <2>. QED BY <2>1, <2>2
<1>8. Len(new) = Len(q) - 1
  BY <1>2, <1>3, <1>6
<1>. QED BY <1>6, <1>7, <1>8 DEF new

-----------------------------------------------------------------------------
(* Ranks: the position of an element among those of one source             *)

\* Elements of which no two have the same key.
Ordered(R) ==
    /\ IsFiniteSet(R)
    /\ \A r \in R : r.key \in Nat
    /\ \A q, r \in R : q.key = r.key => q = r

Below(R, k) == {q \in R : q.key < k}
Rank(R, k) == Cardinality(Below(R, k))

\* A larger key has more elements below it.
LEMMA RankGrows ==
    ASSUME NEW R, Ordered(R), NEW k \in Nat, NEW m \in Nat,
           NEW q \in R, q.key < m, ~(q.key < k), k <= m
    PROVE  Rank(R, k) < Rank(R, m)
<1>1. \A r \in R : r.key \in Nat
  BY DEF Ordered
<1>2. Below(R, k) \in SUBSET Below(R, m)
  BY <1>1 DEF Below
<1>3. IsFiniteSet(Below(R, m)) /\ IsFiniteSet(Below(R, k))
  BY FS_Subset DEF Below, Ordered
<1>4. q \in Below(R, m) /\ q \notin Below(R, k)
  BY DEF Below
<1>5. Rank(R, k) <= Rank(R, m) /\ Rank(R, k) # Rank(R, m)
  BY <1>2, <1>3, <1>4, FS_Subset DEF Rank
<1>. QED BY <1>3, <1>5, FS_CardinalityType DEF Rank

LEMMA RankTyped ==
    ASSUME NEW R, Ordered(R), NEW k
    PROVE  /\ IsFiniteSet(Below(R, k)) /\ Rank(R, k) \in Nat
           /\ Rank(R, k) <= Cardinality(R) /\ Cardinality(R) \in Nat
           /\ Rank(R, k) = Cardinality(R) => Below(R, k) = R
           /\ Rank(R, k) = 0 <=> Below(R, k) = {}
<1>1. Below(R, k) \in SUBSET R /\ IsFiniteSet(R)
  BY DEF Below, Ordered
<1>. QED BY <1>1, FS_Subset, FS_CardinalityType, FS_EmptySet DEF Rank

\* The rank of a key tells the element.
LEMMA RankUnique ==
    ASSUME NEW R, Ordered(R), NEW q \in R, NEW r \in R, Rank(R, q.key) = Rank(R, r.key)
    PROVE  q = r
<1>1. q.key \in Nat /\ r.key \in Nat
  BY DEF Ordered
<1>2. ~(q.key < r.key)
  <2>. SUFFICES ASSUME q.key < r.key PROVE FALSE
    OBVIOUS
  <2>1. Rank(R, q.key) < Rank(R, r.key)
    BY <1>1, RankGrows
  <2>. QED BY <2>1, RankTyped
<1>3. ~(r.key < q.key)
  <2>. SUFFICES ASSUME r.key < q.key PROVE FALSE
    OBVIOUS
  <2>1. Rank(R, r.key) < Rank(R, q.key)
    BY <1>1, RankGrows
  <2>. QED BY <2>1, RankTyped
<1>4. q.key = r.key
  BY <1>1, <1>2, <1>3
<1>. QED BY <1>4 DEF Ordered

\* Every rank below the number of elements is that of one of them.
LEMMA RankReached ==
    ASSUME NEW R, Ordered(R), NEW n \in Nat, n < Cardinality(R)
    PROVE  \E r \in R : Rank(R, r.key) = n
<1>. DEFINE I == 0 .. Cardinality(R) - 1
            rank == [r \in R |-> Rank(R, r.key)]
<1>1. IsFiniteSet(R) /\ Cardinality(R) \in Nat
  BY FS_CardinalityType DEF Ordered
<1>2. IsFiniteSet(I) /\ Cardinality(I) = Cardinality(R)
  <2>1. 0 \in Int /\ Cardinality(R) - 1 \in Int
    BY <1>1
  <2>2. \A a, b \in Int : IsFiniteSet(a .. b) /\ Cardinality(a .. b) = IF a > b THEN 0 ELSE b - a + 1
    BY FS_Interval
  <2>3. Cardinality(I) = IF 0 > Cardinality(R) - 1 THEN 0 ELSE Cardinality(R) - 1 - 0 + 1
    BY <2>1, <2>2
  <2>. QED BY <1>1, <2>1, <2>2, <2>3
<1>3. ASSUME NEW r \in R PROVE Rank(R, r.key) \in I
  <2>1. r \notin Below(R, r.key)
    BY DEF Below, Ordered
  <2>. QED BY <1>1, <2>1, RankTyped
<1>4. rank \in Injection(R, I)
  <2>1. rank \in [R -> I]
    BY <1>3
  <2>2. \A q, r \in R : rank[q] = rank[r] => q = r
    BY RankUnique
  <2>. QED BY <2>1, <2>2 DEF Injection, IsInjective
<1>5. rank \in Surjection(R, I)
  <2>. HIDE DEF rank, I
  <2>. QED BY <1>2, <1>4, FS_Injection
<1>6. n \in I
  BY <1>1
<1>. QED BY <1>5, <1>6 DEF Surjection

\* A key that is not smaller has no fewer elements below it.
LEMMA RankMonotone ==
    ASSUME NEW R, Ordered(R), NEW k \in Nat, NEW m \in Nat, k <= m
    PROVE  Rank(R, k) <= Rank(R, m)
<1>1. \A r \in R : r.key \in Nat
  BY DEF Ordered
<1>2. Below(R, k) \in SUBSET Below(R, m)
  BY <1>1 DEF Below
<1>3. IsFiniteSet(Below(R, m))
  BY RankTyped
<1>. QED BY <1>2, <1>3, FS_Subset DEF Rank

-----------------------------------------------------------------------------
(* Layouts: el[i][s] is the element of source s that is in node i          *)

Has(list, i, s) == s \in list[i].bits

\* Every element in the nodes of its source, in the order of the keys, and
\* nothing else.
Placed(list, el, E) ==
    /\ \A i \in 1 .. Len(list) : \A s \in Source : Has(list, i, s) => el[i][s] \in E[s]
    /\ \A s \in Source : \A r \in E[s] : \E i \in 1 .. Len(list) : Has(list, i, s) /\ el[i][s] = r
    /\ \A s \in Source : \A i, j \in 1 .. Len(list) :
          Has(list, i, s) /\ Has(list, j, s) /\ i < j => el[i][s].key < el[j][s].key

\* The elements of every source.
Orders(E) == \A s \in Source : Ordered(E[s])

\* The nodes of some elements of a source are as many as the elements.
LEMMA NodesOfRecords ==
    ASSUME NEW N, NEW list \in Seq(N), NEW el, NEW E, Orders(E), Placed(list, el, E),
           NEW s \in Source, NEW J \in SUBSET Occupied(list, s), NEW B \in SUBSET E[s],
           \A j \in Occupied(list, s) : j \in J <=> el[j][s] \in B
    PROVE  Cardinality(J) = Cardinality(B)
<1>. DEFINE f == [j \in J |-> el[j][s]]
<1>1. \A j \in Occupied(list, s) : j \in 1 .. Len(list) /\ Has(list, j, s) /\ j \in Nat
  BY DEF Occupied, Has
<1>2. \A j, m \in J : f[j] = f[m] => j = m
  <2>. SUFFICES ASSUME NEW j \in J, NEW m \in J, el[j][s] = el[m][s] PROVE j = m
    OBVIOUS
  <2>1. el[j][s].key \in Nat /\ el[m][s].key \in Nat
    BY <1>1 DEF Placed, Orders, Ordered
  <2>2. ~(j < m) /\ ~(m < j)
    BY <1>1, <2>1 DEF Placed
  <2>. QED BY <1>1, <2>2
<1>3. \A r \in B : \E j \in J : f[j] = r
  <2>. SUFFICES ASSUME NEW r \in B PROVE \E j \in J : el[j][s] = r
    OBVIOUS
  <2>1. PICK j \in 1 .. Len(list) : Has(list, j, s) /\ el[j][s] = r
    BY DEF Placed
  <2>. QED BY <2>1 DEF Occupied, Has
<1>4. f \in [J -> B]
  OBVIOUS
<1>5. f \in Bijection(J, B)
  <2>. HIDE DEF f
  <2>1. f \in Injection(J, B) /\ f \in Surjection(J, B)
    BY <1>2, <1>3, <1>4 DEF Injection, IsInjective, Surjection
  <2>. QED BY <2>1 DEF Bijection
<1>6. IsFiniteSet(J)
  <2>1. IsFiniteSet(1 .. Len(list)) /\ J \in SUBSET (1 .. Len(list))
    BY <1>1, FS_Interval
  <2>. QED BY <2>1, FS_Subset
<1>. HIDE DEF f
<1>. QED BY <1>5, <1>6, FS_Bijection DEF ExistsBijection

\* Where a position divides the nodes of a source as a key does its elements,
\* the nodes before are as many as the elements below.
LEMMA BeforeIsRank ==
    ASSUME NEW N, NEW list \in Seq(N), NEW el, NEW E, Orders(E), Placed(list, el, E),
           NEW s \in Source, NEW i \in Nat, NEW k,
           \A j \in Occupied(list, s) : j < i <=> el[j][s].key < k
    PROVE  Before(list, s, i) = Rank(E[s], k)
<1>. DEFINE J == {j \in Occupied(list, s) : j < i}
            B == Below(E[s], k)
<1>1. \A j \in Occupied(list, s) : el[j][s] \in E[s]
  BY DEF Occupied, Placed, Has
<1>2. /\ J \in SUBSET Occupied(list, s) /\ B \in SUBSET E[s]
      /\ \A j \in Occupied(list, s) : j \in J <=> el[j][s] \in B
  BY <1>1 DEF Below
<1>3. Cardinality(J) = Cardinality(B)
  <2>. HIDE DEF J, B
  <2>. QED BY <1>2, NodesOfRecords
<1>. QED BY <1>3 DEF Before, Rank

\* A node of a source comes after as many of its nodes as its element is the
\* rank of.
LEMMA NodeRank ==
    ASSUME NEW N, NEW list \in Seq(N), NEW el, NEW E, Orders(E), Placed(list, el, E),
           NEW s \in Source, NEW i \in Occupied(list, s)
    PROVE  /\ i \in 1 .. Len(list) /\ el[i][s] \in E[s]
           /\ Before(list, s, i) = Rank(E[s], el[i][s].key)
<1>1. \A j \in Occupied(list, s) : /\ j \in 1 .. Len(list) /\ Has(list, j, s) /\ j \in Nat
                                   /\ el[j][s] \in E[s] /\ el[j][s].key \in Nat
  BY DEF Occupied, Has, Placed, Orders, Ordered
<1>2. ASSUME NEW j \in Occupied(list, s) PROVE j < i <=> el[j][s].key < el[i][s].key
  <2>1. j < i => el[j][s].key < el[i][s].key
    BY <1>1 DEF Placed
  <2>2. i < j => el[i][s].key < el[j][s].key
    BY <1>1 DEF Placed
  <2>. QED BY <1>1, <2>1, <2>2
<1>. PICK k : k = el[i][s].key
  OBVIOUS
<1>3. \A j \in Occupied(list, s) : j < i <=> el[j][s].key < k
  BY <1>2
<1>4. i \in Nat
  BY <1>1
<1>5. Before(list, s, i) = Rank(E[s], k)
  BY SMTT(30), <1>3, <1>4, BeforeIsRank
<1>. QED BY <1>1, <1>5

\* The node of the element with a given rank, which is the only one.
LEMMA NodeAtRank ==
    ASSUME NEW N, NEW list \in Seq(N), NEW el, NEW E, Orders(E), Placed(list, el, E),
           NEW s \in Source, NEW r \in E[s]
    PROVE  LET i == NodeAt(list, s, Rank(E[s], r.key))
           IN  i \in 1 .. Len(list) /\ Has(list, i, s) /\ el[i][s] = r
<1>1. PICK i \in Occupied(list, s) : el[i][s] = r
  BY DEF Placed, Occupied, Has
<1>2. Before(list, s, i) = Rank(E[s], r.key)
  BY <1>1, NodeRank
<1>3. ASSUME NEW j \in Occupied(list, s), Before(list, s, j) = Rank(E[s], r.key) PROVE j = i
  <2>1. /\ el[j][s] \in E[s] /\ Rank(E[s], el[j][s].key) = Rank(E[s], r.key)
        /\ j \in 1 .. Len(list) /\ i \in 1 .. Len(list)
    BY <1>3, NodeRank
  <2>2. el[j][s] = r
    BY <2>1, RankUnique DEF Orders
  <2>3. r.key \in Nat
    BY DEF Orders, Ordered
  <2>. QED BY SMTT(30), <1>1, <2>1, <2>2, <2>3 DEF Placed, Occupied, Has
<1>4. NodeAt(list, s, Rank(E[s], r.key)) = i
  BY <1>2, <1>3 DEF NodeAt
<1>. QED BY <1>1, <1>4, NodeRank DEF Occupied, Has

\* The nodes of a source are as many as its elements.
LEMMA OccupiedIsOwned ==
    ASSUME NEW N, NEW list \in Seq(N), NEW el, NEW E, Orders(E), Placed(list, el, E),
           NEW s \in Source
    PROVE  Cardinality(Occupied(list, s)) = Cardinality(E[s])
<1>1. \A j \in Occupied(list, s) : el[j][s] \in E[s]
  BY DEF Occupied, Placed, Has
<1>. QED BY <1>1, NodesOfRecords

-----------------------------------------------------------------------------
(* Sequences and sets of sources                                           *)

LEMMA SomeSources ==
    /\ IsFiniteSet(Source)
    /\ \A S \in SUBSET Source : IsFiniteSet(S)
<1>1. IsFiniteSet(Source)
  BY SourceAssumption, FS_Interval DEF Source
<1>. QED BY <1>1, FS_Subset

LEMMA OneElement ==
    ASSUME NEW T, NEW e \in T
    PROVE  <<e>> \in Seq(T) /\ Len(<<e>>) = 1 /\ <<e>>[1] = e
OBVIOUS

\* A part of a sequence with one element in its place.
Splice(q, l, e, r) == SubSeq(q, 1, l - 1) \o <<e>> \o SubSeq(q, r + 1, Len(q))

\* What InsertAt and a splice make of a sequence.
IsInserted(new, q, i, e) ==
    /\ Len(new) = Len(q) + 1
    /\ \A j \in 1 .. Len(q) + 1 :
          new[j] = IF j < i THEN q[j] ELSE IF j = i THEN e ELSE q[j - 1]
IsSpliced(new, q, l, e, r) ==
    /\ Len(new) = Len(q) - (r - l)
    /\ \A j \in 1 .. Len(q) - (r - l) :
          new[j] = IF j < l THEN q[j] ELSE IF j = l THEN e ELSE q[j + (r - l)]

LEMMA Splices ==
    ASSUME NEW T, NEW q \in Seq(T), NEW e \in T, NEW l \in Nat, l >= 1, NEW r \in Nat,
           l <= r + 1, r <= Len(q)
    PROVE  Splice(q, l, e, r) \in Seq(T) /\ IsSpliced(Splice(q, l, e, r), q, l, e, r)
<1>. DEFINE a == SubSeq(q, 1, l - 1)
            b == SubSeq(q, r + 1, Len(q))
            o == <<e>>
            c == a \o o
            d == c \o b
<1>1. Len(q) \in Nat /\ l - 1 \in Nat /\ l - 1 <= Len(q) /\ r + 1 \in Nat /\ 1 <= (l - 1) + 1
  OBVIOUS
<1>2. a \in Seq(T) /\ Len(a) = l - 1 /\ \A j \in 1 .. l - 1 : a[j] = q[j]
  <2>1. /\ a \in Seq(T) /\ Len(a) = (l - 1) - 1 + 1
        /\ \A j \in 1 .. (l - 1) - 1 + 1 : a[j] = q[1 + j - 1]
    BY <1>1, PartOf
  <2>. HIDE DEF a
  <2>. QED BY <1>1, <2>1
<1>3. b \in Seq(T) /\ Len(b) = Len(q) - r /\ \A j \in 1 .. Len(q) - r : b[j] = q[r + j]
  <2>1. /\ b \in Seq(T) /\ Len(b) = Len(q) - (r + 1) + 1
        /\ \A j \in 1 .. Len(q) - (r + 1) + 1 : b[j] = q[(r + 1) + j - 1]
    BY <1>1, PartOf
  <2>. HIDE DEF b
  <2>. QED BY <1>1, <2>1
<1>4. o \in Seq(T) /\ Len(o) = 1 /\ o[1] = e
  BY OneElement
<1>. HIDE DEF a, b, o
<1>5. /\ c \in Seq(T) /\ Len(c) = Len(a) + Len(o)
      /\ \A j \in 1 .. Len(a) : c[j] = a[j]
      /\ \A j \in 1 .. Len(o) : c[Len(a) + j] = o[j]
  <2>1. IsJoined(T, a, o, c)
    BY <1>2, <1>4, Concatenated
  <2>. HIDE DEF c
  <2>. QED BY <2>1 DEF IsJoined
<1>. HIDE DEF c
<1>6. /\ d \in Seq(T) /\ Len(d) = Len(c) + Len(b)
      /\ \A j \in 1 .. Len(c) : d[j] = c[j]
      /\ \A j \in 1 .. Len(b) : d[Len(c) + j] = b[j]
  <2>1. IsJoined(T, c, b, d)
    BY <1>3, <1>5, Concatenated
  <2>. HIDE DEF d
  <2>. QED BY <2>1 DEF IsJoined
<1>7. Splice(q, l, e, r) = d
  BY DEF Splice, a, b, o, c
<1>. HIDE DEF d
<1>8. Len(c) = l /\ Len(d) = Len(q) - (r - l)
  BY <1>1, <1>2, <1>3, <1>4, <1>5, <1>6
<1>9. ASSUME NEW j \in 1 .. Len(q) - (r - l)
      PROVE  d[j] = IF j < l THEN q[j] ELSE IF j = l THEN e ELSE q[j + (r - l)]
  <2>1. CASE j < l
    <3>1. j \in 1 .. l - 1 /\ j \in 1 .. Len(a) /\ j \in 1 .. Len(c)
      BY <1>1, <1>2, <1>8, <2>1
    <3>. QED BY <1>2, <1>5, <1>6, <2>1, <3>1
  <2>2. CASE j = l
    <3>1. d[l] = c[l] /\ 1 \in 1 .. Len(o) /\ Len(a) + 1 = l
      BY SMTT(30), <1>1, <1>2, <1>4, <1>6, <1>8
    <3>2. c[Len(a) + 1] = o[1]
      BY <1>5, <3>1
    <3>. QED BY <1>4, <2>2, <3>1, <3>2
  <2>3. CASE j > l
    <3>1. j - l \in 1 .. Len(b) /\ Len(c) + (j - l) = j /\ r + (j - l) = j + (r - l)
      BY <1>1, <1>3, <1>8, <2>3
    <3>2. d[Len(c) + (j - l)] = b[j - l]
      BY <1>6, <3>1
    <3>3. b[j - l] = q[r + (j - l)]
      BY <1>3, <3>1
    <3>. QED BY <2>3, <3>1, <3>2, <3>3
  <2>. QED BY <2>1, <2>2, <2>3
<1>10. IsSpliced(d, q, l, e, r)
  BY <1>8, <1>9 DEF IsSpliced
<1>. QED BY <1>6, <1>7, <1>10

LEMMA SpliceIs ==
    ASSUME NEW T, NEW q \in Seq(T), NEW e \in T, NEW l \in Nat, l >= 1, NEW r \in Nat,
           l <= r + 1, r <= Len(q)
    PROVE  /\ Splice(q, l, e, r) \in Seq(T)
           /\ Len(Splice(q, l, e, r)) = Len(q) - (r - l)
           /\ \A j \in 1 .. Len(q) - (r - l) :
                 Splice(q, l, e, r)[j] =
                    IF j < l THEN q[j] ELSE IF j = l THEN e ELSE q[j + (r - l)]
<1>1. PICK new : new = Splice(q, l, e, r)
  OBVIOUS
<1>2. new \in Seq(T) /\ IsSpliced(new, q, l, e, r)
  BY <1>1, Splices
<1>3. /\ Len(new) = Len(q) - (r - l)
      /\ \A j \in 1 .. Len(q) - (r - l) :
            new[j] = IF j < l THEN q[j] ELSE IF j = l THEN e ELSE q[j + (r - l)]
  BY <1>2 DEF IsSpliced
<1>. QED BY <1>1, <1>2, <1>3

LEMMA Inserts ==
    ASSUME NEW T, NEW q \in Seq(T), NEW i \in 1 .. Len(q) + 1, NEW e \in T
    PROVE  InsertAt(q, i, e) \in Seq(T) /\ IsInserted(InsertAt(q, i, e), q, i, e)
<1>1. PICK m \in Nat : m = i - 1
  OBVIOUS
<1>2. /\ i \in Nat /\ i >= 1 /\ i <= m + 1 /\ m <= Len(q) /\ m + 1 = i /\ m - i = 0 - 1
      /\ Len(q) \in Nat /\ Len(q) - (m - i) = Len(q) + 1
      /\ \A j \in Nat : j + (m - i) = j - 1
  BY <1>1
<1>3. PICK new : new = InsertAt(q, i, e)
  OBVIOUS
<1>4. new = Splice(q, i, e, m)
  BY <1>1, <1>2, <1>3 DEF InsertAt, Splice
<1>5. new \in Seq(T) /\ IsSpliced(new, q, i, e, m)
  BY <1>2, <1>4, Splices
<1>6. Len(new) = Len(q) + 1
  BY <1>2, <1>5 DEF IsSpliced
<1>7. ASSUME NEW j \in 1 .. Len(q) + 1
      PROVE  new[j] = IF j < i THEN q[j] ELSE IF j = i THEN e ELSE q[j - 1]
  <2>1. new[j] = IF j < i THEN q[j] ELSE IF j = i THEN e ELSE q[j + (m - i)]
    BY <1>2, <1>5 DEF IsSpliced
  <2>2. j + (m - i) = j - 1
    BY <1>2
  <2>. QED BY <2>1, <2>2
<1>8. IsInserted(new, q, i, e)
  BY <1>6, <1>7 DEF IsInserted
<1>. QED BY <1>3, <1>5, <1>8

LEMMA InsertAtIs ==
    ASSUME NEW T, NEW q \in Seq(T), NEW i \in 1 .. Len(q) + 1, NEW e \in T
    PROVE  /\ InsertAt(q, i, e) \in Seq(T)
           /\ Len(InsertAt(q, i, e)) = Len(q) + 1
           /\ \A j \in 1 .. Len(q) + 1 :
                 InsertAt(q, i, e)[j] = IF j < i THEN q[j] ELSE IF j = i THEN e ELSE q[j - 1]
<1>1. PICK new : new = InsertAt(q, i, e)
  OBVIOUS
<1>2. new \in Seq(T) /\ IsInserted(new, q, i, e)
  BY <1>1, Inserts
<1>3. /\ Len(new) = Len(q) + 1
      /\ \A j \in 1 .. Len(q) + 1 :
            new[j] = IF j < i THEN q[j] ELSE IF j = i THEN e ELSE q[j - 1]
  BY <1>2 DEF IsInserted
<1>. QED BY <1>1, <1>2, <1>3

\* new differs from list, as far as bits go, in node c, where they are B.
Rebit(list, new, c, B) ==
    /\ Len(new) = Len(list)
    /\ \A i \in 1 .. Len(list) : new[i].bits = IF i = c THEN B ELSE list[i].bits

LEMMA RebitIs ==
    ASSUME NEW N, NEW list \in Seq(N), NEW c \in 1 .. Len(list), NEW node
    PROVE  Rebit(list, [list EXCEPT ![c] = node], c, node.bits)
BY DEF Rebit

-----------------------------------------------------------------------------
(* Insertion                                                               *)

\* c is where the nodes of s with keys above k begin.
Divides(list, el, s, c, k) ==
    \A j \in 1 .. Len(list) : Has(list, j, s) => (j < c <=> el[j][s].key < k)

\* A new element comes after the nodes with smaller keys, and may share the
\* candidate unless that is the node of the next key.
LEMMA CandidateDivides ==
    ASSUME NEW N, NEW list \in Seq(N), NEW el, NEW E, Orders(E), Placed(list, el, E),
           NEW s \in Source, NEW k \in Nat, \A r \in E[s] : r.key # k
    PROVE  /\ Candidate(list, s, Rank(E[s], k)) \in 1 .. Len(list) + 1
           /\ Divides(list, el, s, Candidate(list, s, Rank(E[s], k)), k)
<1>. DEFINE index == Rank(E[s], k)
            c == Candidate(list, s, index)
<1>1. /\ Ordered(E[s]) /\ index \in Nat /\ Cardinality(E[s]) \in Nat
      /\ index <= Cardinality(E[s])
  BY RankTyped DEF Orders
<1>2. \A j \in 1 .. Len(list) : Has(list, j, s) => el[j][s] \in E[s] /\ el[j][s].key \in Nat
  BY <1>1 DEF Placed, Ordered
<1>3. CASE index = 0
  <2>1. c = 1 /\ Below(E[s], k) = {}
    BY <1>1, <1>3, RankTyped DEF Candidate
  <2>2. \A j \in 1 .. Len(list) : Has(list, j, s) => ~(el[j][s].key < k)
    BY <1>2, <2>1 DEF Below
  <2>. QED BY <2>1, <2>2 DEF Divides
<1>4. CASE index # 0
  <2>1. index - 1 \in Nat /\ index - 1 < Cardinality(E[s])
    BY <1>1, <1>4
  <2>2. PICK r \in E[s] : Rank(E[s], r.key) = index - 1
    <3>. HIDE DEF index
    <3>. QED BY <1>1, <2>1, RankReached
  <2>3. r.key \in Nat
    BY <1>1 DEF Ordered
  <2>4. r.key < k
    <3>1. ~(k <= r.key)
      <4>. SUFFICES ASSUME k <= r.key PROVE FALSE
        OBVIOUS
      <4>1. index <= Rank(E[s], r.key)
        BY <1>1, <2>3, RankMonotone
      <4>. QED BY <1>1, <2>2, <4>1
    <3>. QED BY <2>3, <3>1
  <2>. DEFINE i == NodeAt(list, s, index - 1)
  <2>5. i \in 1 .. Len(list) /\ Has(list, i, s) /\ el[i][s] = r /\ c = i + 1
    BY <1>4, <2>2, NodeAtRank DEF Candidate
  <2>. HIDE DEF i
  <2>6. ASSUME NEW j \in 1 .. Len(list), Has(list, j, s) PROVE j < i + 1 <=> el[j][s].key < k
    <3>1. j < i => el[j][s].key < r.key
      BY <2>5, <2>6 DEF Placed
    <3>2. i < j => ~(el[j][s].key < k)
      <4>. SUFFICES ASSUME i < j, el[j][s].key < k PROVE FALSE
        OBVIOUS
      <4>1. r.key < el[j][s].key
        BY <2>5, <2>6 DEF Placed
      <4>2. PICK q \in E[s] : q = el[j][s] /\ q.key \in Nat
        BY <1>2, <2>6
      <4>3. Rank(E[s], r.key) < Rank(E[s], q.key)
        BY <1>1, <2>3, <4>1, <4>2, RankGrows
      <4>4. Rank(E[s], q.key) < Rank(E[s], k)
        BY <1>1, <4>2, RankGrows
      <4>5. Rank(E[s], q.key) \in Nat
        BY <1>1, RankTyped
      <4>. QED BY <1>1, <2>2, <4>3, <4>4, <4>5
    <3>3. i = j => el[j][s].key < k
      BY <2>4, <2>5
    <3>. QED BY <1>2, <2>3, <2>4, <2>5, <2>6, <3>1, <3>2, <3>3
  <2>7. Divides(list, el, s, c, k)
    BY <2>5, <2>6 DEF Divides
  <2>. QED BY <2>5, <2>7
<1>. QED BY <1>3, <1>4

LEMMA RoomIs ==
    ASSUME NEW N, NEW list \in Seq(N), NEW el, NEW E, Orders(E), Placed(list, el, E),
           NEW s \in Source, NEW k \in Nat, \A r \in E[s] : r.key # k
    PROVE  LET c == Candidate(list, s, Rank(E[s], k))
           IN  c # NextSource(list, s, Rank(E[s], k)) => c \in 1 .. Len(list) /\ ~Has(list, c, s)
<1>. DEFINE index == Rank(E[s], k)
            c == Candidate(list, s, index)
            n == NextSource(list, s, index)
<1>1. /\ Ordered(E[s]) /\ index \in Nat /\ Cardinality(E[s]) \in Nat
      /\ index <= Cardinality(E[s])
  BY RankTyped DEF Orders
<1>2. \A j \in 1 .. Len(list) : Has(list, j, s) => el[j][s] \in E[s] /\ el[j][s].key \in Nat
  BY <1>1 DEF Placed, Ordered
<1>3. Cardinality(Occupied(list, s)) = Cardinality(E[s])
  BY OccupiedIsOwned
<1>4. c \in 1 .. Len(list) + 1 /\ Divides(list, el, s, c, k)
  BY CandidateDivides
<1>5. CASE index < Cardinality(E[s])
  <2>1. PICK r \in E[s] : Rank(E[s], r.key) = index
    <3>. HIDE DEF index
    <3>. QED BY <1>1, <1>5, RankReached
  <2>2. r.key \in Nat
    BY <1>1 DEF Ordered
  <2>3. k < r.key
    <3>1. ~(r.key < k)
      <4>. SUFFICES ASSUME r.key < k PROVE FALSE
        OBVIOUS
      <4>1. Rank(E[s], r.key) < index
        BY <1>1, <2>2, RankGrows
      <4>. QED BY <1>1, <2>1, <4>1
    <3>. QED BY <2>2, <3>1
  <2>4. n \in 1 .. Len(list) /\ Has(list, n, s) /\ el[n][s] = r
    BY <1>3, <1>5, <2>1, NodeAtRank DEF NextSource
  <2>5. ~(n < c)
    BY <1>4, <2>2, <2>3, <2>4 DEF Divides
  <2>6. ASSUME Has(list, c, s), c < n PROVE FALSE
    <3>1. c \in 1 .. Len(list)
      BY <1>4, <2>4, <2>6
    <3>2. PICK q \in E[s] : q = el[c][s] /\ q.key \in Nat
      BY <1>2, <2>6, <3>1
    <3>3. q.key < r.key
      BY <2>4, <2>6, <3>1, <3>2 DEF Placed
    <3>4. ~(q.key < k)
      BY <1>4, <2>6, <3>1, <3>2 DEF Divides
    <3>5. Rank(E[s], k) < Rank(E[s], r.key)
      BY <1>1, <2>2, <2>3, <3>2, <3>3, <3>4, RankGrows
    <3>. QED BY <1>1, <2>1, <3>5
  <2>. HIDE DEF n, c
  <2>7. c # n => c \in 1 .. Len(list) /\ ~Has(list, c, s)
    BY <1>4, <2>4, <2>5, <2>6
  <2>. QED BY <2>7 DEF n, c
<1>6. CASE ~(index < Cardinality(E[s]))
  <2>1. n = Len(list) + 1
    BY <1>3, <1>6 DEF NextSource
  <2>2. Below(E[s], k) = E[s]
    BY <1>1, <1>6, RankTyped
  <2>3. c \in 1 .. Len(list) => ~Has(list, c, s)
    BY <1>2, <1>4, <2>2 DEF Divides, Below
  <2>. QED BY <1>4, <2>1, <2>3
<1>. QED BY <1>5, <1>6

\* F is E with element r added for source s.
Adds(F, E, s, r) == F[s] = E[s] \cup {r} /\ \A t \in Source \ {s} : F[t] = E[t]

\* An element more before position c.
Opened(el, n, c) == [i \in 1 .. n + 1 |-> IF i < c THEN el[i] ELSE el[i - 1]]

Empty(node) == node.bits = {}

\* A fresh node has no elements.
LEMMA FreshPlaced ==
    ASSUME NEW N, NEW list \in Seq(N), NEW el, NEW E, Placed(list, el, E),
           NEW c \in 1 .. Len(list) + 1, NEW fresh \in N, Empty(fresh)
    PROVE  LET new == InsertAt(list, c, fresh)
               cells == Opened(el, Len(list), c)
           IN  /\ Placed(new, cells, E)
               /\ new \in Seq(N) /\ Len(new) = Len(list) + 1
               /\ \A j \in 1 .. Len(list) + 1 :
                     new[j] = IF j < c THEN list[j] ELSE IF j = c THEN fresh ELSE list[j - 1]
               /\ \A j \in 1 .. Len(list) + 1 : cells[j] = IF j < c THEN el[j] ELSE el[j - 1]
               /\ \A s \in Source : ~Has(new, c, s)
               /\ \A s \in Source : \A k : Divides(list, el, s, c, k) => Divides(new, cells, s, c, k)
<1>. DEFINE new == InsertAt(list, c, fresh)
            cells == Opened(el, Len(list), c)
<1>1. Len(list) \in Nat
  OBVIOUS
<1>2. /\ new \in Seq(N) /\ Len(new) = Len(list) + 1
      /\ \A j \in 1 .. Len(list) + 1 :
            new[j] = IF j < c THEN list[j] ELSE IF j = c THEN fresh ELSE list[j - 1]
  <2>1. new \in Seq(N) /\ IsInserted(new, list, c, fresh)
    BY Inserts
  <2>. HIDE DEF new
  <2>. QED BY <2>1 DEF IsInserted
<1>3. \A j \in 1 .. Len(list) + 1 : cells[j] = IF j < c THEN el[j] ELSE el[j - 1]
  BY DEF Opened
<1>. HIDE DEF new, cells
<1>4. ASSUME NEW i \in 1 .. Len(new), NEW s \in Source
      PROVE  /\ Has(new, i, s) <=> \/ i < c /\ Has(list, i, s)
                                   \/ i > c /\ Has(list, i - 1, s)
             /\ i < c => i \in 1 .. Len(list)
             /\ i > c => i - 1 \in 1 .. Len(list)
  <2>1. (i < c => i \in 1 .. Len(list)) /\ (i > c => i - 1 \in 1 .. Len(list))
    BY <1>1, <1>2
  <2>2. /\ i < c => new[i] = list[i]
        /\ i > c => new[i] = list[i - 1]
        /\ i = c => new[i].bits = {}
    BY <1>1, <1>2 DEF Empty
  <2>. QED BY <1>1, <1>2, <2>1, <2>2 DEF Has
<1>5. Placed(new, cells, E)
  <2>1. \A i \in 1 .. Len(new) : \A s \in Source : Has(new, i, s) => cells[i][s] \in E[s]
    <3>1. SUFFICES ASSUME NEW i \in 1 .. Len(new), NEW s \in Source, Has(new, i, s)
                   PROVE  cells[i][s] \in E[s]
      OBVIOUS
    <3>2. CASE i < c
      <4>1. i \in 1 .. Len(list) /\ Has(list, i, s)
        <5>1. c \in Nat /\ i \in Nat
          OBVIOUS
        <5>. QED BY <1>4, <3>1, <3>2, <5>1
      <4>2. el[i][s] \in E[s]
        BY <4>1 DEF Placed
      <4>. QED BY <1>2, <1>3, <3>2, <4>2
    <3>3. CASE ~(i < c)
      <4>1. i - 1 \in 1 .. Len(list) /\ Has(list, i - 1, s)
        BY <1>4, <3>1, <3>3
      <4>. QED BY <1>2, <1>3, <3>3, <4>1 DEF Placed
    <3>. QED BY <3>2, <3>3
  <2>2. ASSUME NEW s \in Source, NEW r \in E[s]
        PROVE  \E i \in 1 .. Len(new) : Has(new, i, s) /\ cells[i][s] = r
    <3>1. PICK i \in 1 .. Len(list) : Has(list, i, s) /\ el[i][s] = r
      BY DEF Placed
    <3>2. CASE i < c
      <4>1. i \in 1 .. Len(new)
        BY <1>1, <1>2
      <4>. QED BY <1>2, <1>3, <1>4, <3>1, <3>2, <4>1
    <3>3. CASE ~(i < c)
      <4>1. i + 1 \in 1 .. Len(new) /\ i + 1 > c /\ ~(i + 1 < c) /\ i + 1 - 1 = i
        BY <1>1, <1>2, <3>3
      <4>2. PICK j \in 1 .. Len(new) : j = i + 1
        BY <4>1
      <4>3. Has(new, j, s)
        BY <1>4, <3>1, <4>1, <4>2
      <4>4. cells[j] = el[i]
        BY <1>2, <1>3, <4>1, <4>2
      <4>. QED BY <3>1, <4>3, <4>4
    <3>. QED BY <3>2, <3>3
  <2>3. ASSUME NEW s \in Source, NEW i \in 1 .. Len(new), NEW j \in 1 .. Len(new),
               Has(new, i, s), Has(new, j, s), i < j
        PROVE  cells[i][s].key < cells[j][s].key
    <3>. DEFINE a == IF i < c THEN i ELSE i - 1
                b == IF j < c THEN j ELSE j - 1
    <3>1. /\ a \in 1 .. Len(list) /\ b \in 1 .. Len(list) /\ a < b
          /\ Has(list, a, s) /\ Has(list, b, s)
      BY <1>1, <1>2, <1>4, <2>3
    <3>2. cells[i] = el[a] /\ cells[j] = el[b]
      BY <1>2, <1>3
    <3>. QED BY <3>1, <3>2 DEF Placed
  <2>. QED BY <2>1, <2>2, <2>3 DEF Placed
<1>6. \A s \in Source : ~Has(new, c, s)
  BY <1>1, <1>2 DEF Has, Empty
<1>7. ASSUME NEW s \in Source, NEW k, Divides(list, el, s, c, k)
      PROVE  Divides(new, cells, s, c, k)
  <2>1. SUFFICES ASSUME NEW j \in 1 .. Len(new), Has(new, j, s)
                 PROVE  j < c <=> cells[j][s].key < k
    BY DEF Divides
  <2>2. CASE j < c
    BY <1>2, <1>3, <1>4, <1>7, <2>1, <2>2 DEF Divides
  <2>3. CASE j > c
    <3>1. j - 1 \in 1 .. Len(list) /\ Has(list, j - 1, s) /\ ~(j - 1 < c) /\ cells[j] = el[j - 1]
      BY <1>1, <1>2, <1>3, <1>4, <2>1, <2>3
    <3>2. ~(el[j - 1][s].key < k)
      BY <1>7, <3>1 DEF Divides
    <3>. QED BY <2>3, <3>1, <3>2
  <2>. QED BY <1>2, <1>6, <2>1, <2>2, <2>3
<1>. QED BY <1>2, <1>3, <1>5, <1>6, <1>7 DEF new, cells

\* Element r of source s in node c, the others where they are.
Settled(el, n, c, s, r) ==
    [i \in 1 .. n |-> [t \in Source |-> IF i = c /\ t = s THEN r ELSE el[i][t]]]

\* A node without s between the smaller and the larger keys takes an element.
LEMMA TakePlaced ==
    ASSUME NEW list, Len(list) \in Nat, NEW el, NEW E, Orders(E), Placed(list, el, E),
           NEW c \in 1 .. Len(list), NEW s \in Source, ~Has(list, c, s),
           NEW r, r.key \in Nat, NEW F, Adds(F, E, s, r),
           \A q \in E[s] : q.key # r.key, Divides(list, el, s, c, r.key),
           NEW new, Rebit(list, new, c, list[c].bits \cup {s})
    PROVE  /\ Placed(new, Settled(el, Len(list), c, s, r), F)
           /\ \A i \in 1 .. Len(list), t \in Source :
                 Settled(el, Len(list), c, s, r)[i][t] = IF i = c /\ t = s THEN r ELSE el[i][t]
<1>. DEFINE cells == Settled(el, Len(list), c, s, r)
            k == r.key
<1>2. ASSUME NEW i \in 1 .. Len(list), NEW t \in Source
      PROVE  cells[i][t] = IF i = c /\ t = s THEN r ELSE el[i][t]
  BY DEF Settled
<1>3. \A i \in 1 .. Len(list), t \in Source :
        Has(list, i, t) => el[i][t] \in E[t] /\ el[i][t].key \in Nat
  BY DEF Placed, Orders, Ordered
<1>. HIDE DEF cells, k
<1>5. Len(new) = Len(list)
  BY DEF Rebit
<1>6. ASSUME NEW i \in 1 .. Len(list), NEW t \in Source
      PROVE  Has(new, i, t) <=> Has(list, i, t) \/ (i = c /\ t = s)
  BY DEF Has, Rebit
<1>7. Placed(new, cells, F)
  <2>1. \A i \in 1 .. Len(new) : \A t \in Source : Has(new, i, t) => cells[i][t] \in F[t]
    BY <1>2, <1>3, <1>5, <1>6 DEF Adds
  <2>2. ASSUME NEW t \in Source, NEW q \in F[t]
        PROVE  \E i \in 1 .. Len(new) : Has(new, i, t) /\ cells[i][t] = q
    <3>1. CASE q \in E[t]
      <4>1. PICK i \in 1 .. Len(list) : Has(list, i, t) /\ el[i][t] = q
        BY <3>1 DEF Placed
      <4>2. ~(i = c /\ t = s)
        BY <4>1
      <4>. QED BY <1>2, <1>5, <1>6, <4>1, <4>2
    <3>2. CASE q \notin E[t]
      <4>1. t = s /\ q = r
        BY <3>2 DEF Adds
      <4>. QED BY <1>2, <1>5, <1>6, <4>1
    <3>. QED BY <3>1, <3>2
  <2>3. ASSUME NEW t \in Source, NEW i \in 1 .. Len(new), NEW j \in 1 .. Len(new),
               Has(new, i, t), Has(new, j, t), i < j
        PROVE  cells[i][t].key < cells[j][t].key
    <3>1. i \in 1 .. Len(list) /\ j \in 1 .. Len(list)
      BY <1>5
    <3>2. CASE i = c /\ t = s
      <4>1. cells[i][t] = r /\ cells[j][t] = el[j][t] /\ Has(list, j, t) /\ ~(j < c)
        BY <1>2, <1>6, <2>3, <3>1, <3>2
      <4>2. ~(el[j][s].key < k)
        BY <3>1, <3>2, <4>1 DEF Divides, k
      <4>3. el[j][s].key # k /\ el[j][s].key \in Nat /\ k \in Nat
        BY <1>3, <3>1, <3>2, <4>1 DEF k
      <4>. QED BY <3>2, <4>1, <4>2, <4>3 DEF k
    <3>3. CASE j = c /\ t = s
      <4>1. cells[j][t] = r /\ cells[i][t] = el[i][t] /\ Has(list, i, t) /\ i < c
        BY <1>2, <1>6, <2>3, <3>1, <3>3
      <4>. QED BY <3>1, <3>3, <4>1 DEF Divides
    <3>4. CASE t # s \/ (i # c /\ j # c)
      <4>1. cells[i][t] = el[i][t] /\ cells[j][t] = el[j][t] /\ Has(list, i, t) /\ Has(list, j, t)
        BY <1>2, <1>6, <2>3, <3>1, <3>4
      <4>. QED BY <2>3, <3>1, <4>1 DEF Placed
    <3>. QED BY <3>2, <3>3, <3>4
  <2>. QED BY <2>1, <2>2, <2>3 DEF Placed
<1>. QED BY <1>2, <1>7 DEF cells

-----------------------------------------------------------------------------
(* Deletion                                                                *)

\* Every node of list goes to node move[i] of new, in the same order, and
\* takes its elements along.
Moves(list, el, new, cells, move) ==
    /\ \A i \in 1 .. Len(list), s \in Source : Has(list, i, s) =>
          /\ move[i] \in 1 .. Len(new)
          /\ Has(new, move[i], s)
          /\ cells[move[i]][s] = el[i][s]
    /\ \A j \in 1 .. Len(new), s \in Source : Has(new, j, s) =>
          \E i \in 1 .. Len(list) : Has(list, i, s) /\ move[i] = j
    /\ \A i, j \in 1 .. Len(list) : move[i] < move[j] => i < j

LEMMA MovesPlaced ==
    ASSUME NEW list, NEW el, NEW E, Placed(list, el, E), NEW new, NEW cells, NEW move,
           Moves(list, el, new, cells, move)
    PROVE  Placed(new, cells, E)
<1>1. ASSUME NEW j \in 1 .. Len(new), NEW s \in Source, Has(new, j, s)
      PROVE  \E i \in 1 .. Len(list) : Has(list, i, s) /\ move[i] = j /\ cells[j][s] = el[i][s]
  BY <1>1 DEF Moves
<1>2. \A j \in 1 .. Len(new) : \A s \in Source : Has(new, j, s) => cells[j][s] \in E[s]
  BY <1>1 DEF Placed
<1>3. ASSUME NEW s \in Source, NEW r \in E[s]
      PROVE  \E j \in 1 .. Len(new) : Has(new, j, s) /\ cells[j][s] = r
  <2>1. PICK i \in 1 .. Len(list) : Has(list, i, s) /\ el[i][s] = r
    BY DEF Placed
  <2>. QED BY <2>1 DEF Moves
<1>4. ASSUME NEW s \in Source, NEW j \in 1 .. Len(new), NEW m \in 1 .. Len(new),
             Has(new, j, s), Has(new, m, s), j < m
      PROVE  cells[j][s].key < cells[m][s].key
  <2>1. PICK i \in 1 .. Len(list) : Has(list, i, s) /\ move[i] = j /\ cells[j][s] = el[i][s]
    BY <1>1, <1>4
  <2>2. PICK n \in 1 .. Len(list) : Has(list, n, s) /\ move[n] = m /\ cells[m][s] = el[n][s]
    BY <1>1, <1>4
  <2>3. i < n
    BY <1>4, <2>1, <2>2 DEF Moves
  <2>. QED BY <2>1, <2>2, <2>3 DEF Placed
<1>. QED BY <1>2, <1>3, <1>4 DEF Placed

\* The element at c gone.
Closed(el, n, c) == [i \in 1 .. n - 1 |-> IF i < c THEN el[i] ELSE el[i + 1]]

\* The list without a node still backs up the elements, in nodes it had before.
Unlinked(N, list, el, E, new, cells) ==
    /\ Placed(new, cells, E) /\ new \in Seq(N)
    /\ \A j \in 1 .. Len(new) : \E i \in 1 .. Len(list) : new[j] = list[i] /\ cells[j] = el[i]

\* An empty node has no elements and may go.
LEMMA UnlinkPlaced ==
    ASSUME NEW N, NEW list \in Seq(N), NEW el, NEW E, Placed(list, el, E),
           NEW c \in 1 .. Len(list), list[c].bits = {}
    PROVE  Unlinked(N, list, el, E, RemoveAt(list, c), Closed(el, Len(list), c))
<1>. DEFINE new == RemoveAt(list, c)
            cells == Closed(el, Len(list), c)
            move == [i \in 1 .. Len(list) |-> IF i < c THEN i ELSE i - 1]
<1>2. Len(list) \in Nat
  OBVIOUS
<1>3. /\ new \in Seq(N) /\ Len(new) = Len(list) - 1
      /\ \A j \in 1 .. Len(list) - 1 : new[j] = IF j < c THEN list[j] ELSE list[j + 1]
  BY <1>2, RemoveAtIs
<1>4. /\ \A j \in 1 .. Len(list) - 1 : cells[j] = IF j < c THEN el[j] ELSE el[j + 1]
      /\ \A i \in 1 .. Len(list) : move[i] = IF i < c THEN i ELSE i - 1
  BY DEF Closed
<1>. HIDE DEF new, cells, move
<1>5. Moves(list, el, new, cells, move)
  <2>1. ASSUME NEW i \in 1 .. Len(list), NEW s \in Source, Has(list, i, s)
        PROVE  move[i] \in 1 .. Len(new) /\ Has(new, move[i], s) /\ cells[move[i]][s] = el[i][s]
    <3>1. i # c
      BY <2>1 DEF Has
    <3>2. CASE i < c
      <4>1. move[i] = i /\ i \in 1 .. Len(list) - 1
        BY <1>2, <1>4, <3>2
      <4>. QED BY <1>3, <1>4, <2>1, <3>2, <4>1 DEF Has
    <3>3. CASE i > c
      <4>1. PICK j \in 1 .. Len(list) - 1 : j = i - 1 /\ ~(j < c) /\ j + 1 = i
        BY <1>2, <3>3
      <4>2. move[i] = j
        BY <1>4, <3>3, <4>1
      <4>3. new[j] = list[i] /\ cells[j] = el[i]
        BY <1>3, <1>4, <4>1
      <4>. QED BY <1>3, <2>1, <4>2, <4>3 DEF Has
    <3>. QED BY <1>2, <3>1, <3>2, <3>3
  <2>2. ASSUME NEW j \in 1 .. Len(new), NEW s \in Source, Has(new, j, s)
        PROVE  \E i \in 1 .. Len(list) : Has(list, i, s) /\ move[i] = j
    <3>1. CASE j < c
      <4>1. j \in 1 .. Len(list) - 1 /\ j \in 1 .. Len(list)
        BY <1>2, <1>3
      <4>2. new[j] = list[j]
        BY <1>3, <3>1, <4>1
      <4>3. move[j] = j
        BY <1>4, <3>1, <4>1
      <4>. QED BY <2>2, <4>1, <4>2, <4>3 DEF Has
    <3>2. CASE ~(j < c)
      <4>1. PICK i \in 1 .. Len(list) : i = j + 1 /\ ~(i < c) /\ i - 1 = j
        BY <1>2, <1>3, <3>2
      <4>2. new[j] = list[i] /\ move[i] = j
        BY <1>3, <1>4, <3>2, <4>1
      <4>. QED BY <2>2, <4>2 DEF Has
    <3>. QED BY <3>1, <3>2
  <2>3. \A i, j \in 1 .. Len(list) : move[i] < move[j] => i < j
    BY <1>2, <1>4
  <2>. QED BY <2>1, <2>2, <2>3 DEF Moves
<1>6. Placed(new, cells, E)
  BY <1>5, MovesPlaced
<1>7. ASSUME NEW j \in 1 .. Len(new)
      PROVE  \E i \in 1 .. Len(list) : new[j] = list[i] /\ cells[j] = el[i]
  <2>1. PICK i \in 1 .. Len(list) : i = IF j < c THEN j ELSE j + 1
    BY <1>2, <1>3
  <2>. QED BY <1>3, <1>4, <2>1
<1>8. Unlinked(N, list, el, E, new, cells)
  BY <1>3, <1>6, <1>7 DEF Unlinked
<1>. QED BY <1>8 DEF new, cells

\* F is E without element r of source s.
Drops(F, E, s, r) == F[s] = E[s] \ {r} /\ \A t \in Source \ {s} : F[t] = E[t]

\* The node of an element gives it up.
LEMMA GivePlaced ==
    ASSUME NEW list, Len(list) \in Nat, NEW el, NEW E, Orders(E), Placed(list, el, E),
           NEW s \in Source, NEW r \in E[s],
           NEW c \in 1 .. Len(list), Has(list, c, s), el[c][s] = r,
           NEW F, Drops(F, E, s, r), NEW new, Rebit(list, new, c, list[c].bits \ {s})
    PROVE  Placed(new, el, F)
<1>9. Len(new) = Len(list)
  BY DEF Rebit
<1>10. ASSUME NEW i \in 1 .. Len(list), NEW t \in Source
       PROVE  Has(new, i, t) <=> Has(list, i, t) /\ ~(i = c /\ t = s)
  BY DEF Has, Rebit
<1>11. ASSUME NEW i \in 1 .. Len(list), Has(list, i, s), el[i][s] = r PROVE i = c
  <2>1. r.key \in Nat
    BY DEF Orders, Ordered
  <2>2. ~(i < c) /\ ~(c < i)
    BY SMTT(30), <1>11, <2>1 DEF Placed
  <2>. QED BY <2>2
<1>12. Placed(new, el, F)
  <2>1. ASSUME NEW i \in 1 .. Len(new), NEW t \in Source, Has(new, i, t) PROVE el[i][t] \in F[t]
    <3>1. i \in 1 .. Len(list) /\ Has(list, i, t) /\ ~(i = c /\ t = s)
      BY <1>9, <1>10, <2>1
    <3>2. el[i][t] \in E[t]
      BY <3>1 DEF Placed
    <3>3. t = s => el[i][t] # r
      BY <1>11, <3>1
    <3>. QED BY <3>2, <3>3 DEF Drops
  <2>2. ASSUME NEW t \in Source, NEW q \in F[t]
        PROVE  \E i \in 1 .. Len(new) : Has(new, i, t) /\ el[i][t] = q
    <3>1. q \in E[t] /\ (t = s => q # r)
      BY DEF Drops
    <3>2. PICK i \in 1 .. Len(list) : Has(list, i, t) /\ el[i][t] = q
      BY <3>1 DEF Placed
    <3>3. ~(i = c /\ t = s)
      BY <3>1, <3>2
    <3>. QED BY <1>9, <1>10, <3>2, <3>3
  <2>3. ASSUME NEW t \in Source, NEW i \in 1 .. Len(new), NEW j \in 1 .. Len(new),
               Has(new, i, t), Has(new, j, t), i < j
        PROVE  el[i][t].key < el[j][t].key
    <3>1. i \in 1 .. Len(list) /\ j \in 1 .. Len(list) /\ Has(list, i, t) /\ Has(list, j, t)
      BY <1>9, <1>10, <2>3
    <3>. QED BY <2>3, <3>1 DEF Placed
  <2>. QED BY <2>1, <2>2, <2>3 DEF Placed
<1>. QED BY <1>12

Unites(list, l, r, node) == node.bits = UNION {list[i].bits : i \in l .. r}

\* The elements of nodes l .. r in one node, whatever they have of each source.
Together(list, el, l, r) == [s \in Source |-> el[CHOOSE m \in l .. r : Has(list, m, s)][s]]
Fusion(el, n, l, r, cell) ==
    [j \in 1 .. n - (r - l) |-> IF j < l THEN el[j] ELSE IF j = l THEN cell ELSE el[j + (r - l)]]

\* Bits are those of sources.
BitsTyped(list) == \A i \in 1 .. Len(list) : list[i].bits \in SUBSET Source

\* A range of disjoint nodes as one.
LEMMA MergePlaced ==
    ASSUME NEW N, NEW list \in Seq(N), NEW el, NEW E, Placed(list, el, E),
           BitsTyped(list),
           NEW l \in Nat, l >= 1, NEW r \in Nat, l <= r, r <= Len(list), Disjoint(list, l, r),
           NEW node \in N, Unites(list, l, r, node)
    PROVE  LET new == Splice(list, l, node, r)
               cell == Together(list, el, l, r)
               cells == Fusion(el, Len(list), l, r, cell)
           IN  /\ Placed(new, cells, E)
               /\ new \in Seq(N) /\ Len(new) = Len(list) - (r - l)
               /\ \A i \in l .. r : \A s \in list[i].bits : cell[s] = el[i][s]
               /\ \A j \in 1 .. Len(new) :
                     \/ new[j] = node /\ cells[j] = cell
                     \/ \E i \in 1 .. Len(list) : new[j] = list[i] /\ cells[j] = el[i]
<1>. DEFINE R == l .. r
            new == Splice(list, l, node, r)
            cell == Together(list, el, l, r)
            cells == Fusion(el, Len(list), l, r, cell)
            move == [i \in 1 .. Len(list) |->
                        IF i < l THEN i ELSE IF i <= r THEN l ELSE i - (r - l)]
<1>2. Len(list) \in Nat
  OBVIOUS
<1>3. R \subseteq 1 .. Len(list)
  BY <1>2
<1>5. \A i, j \in R : i # j => list[i].bits \cap list[j].bits = {}
  BY DEF Disjoint
<1>6. \A i \in R : \A s \in list[i].bits : cell[s] = el[i][s]
  <2>. SUFFICES ASSUME NEW i \in R, NEW s \in list[i].bits PROVE cell[s] = el[i][s]
    OBVIOUS
  <2>1. \A m \in R : Has(list, m, s) => m = i
    BY <1>5 DEF Has
  <2>2. Has(list, i, s)
    BY DEF Has
  <2>3. (CHOOSE m \in R : Has(list, m, s)) = i
    <3>. HIDE DEF R
    <3>. QED BY <2>1, <2>2
  <2>4. s \in Source
    BY <1>3 DEF BitsTyped
  <2>. QED BY <2>3, <2>4 DEF Together
<1>. HIDE DEF cell
<1>9. \A s \in Source : s \in node.bits <=> \E i \in R : Has(list, i, s)
  BY DEF Unites, Has
<1>10. /\ new \in Seq(N)
       /\ Len(new) = Len(list) - (r - l)
       /\ \A j \in 1 .. Len(list) - (r - l) :
             new[j] = IF j < l THEN list[j] ELSE IF j = l THEN node ELSE list[j + (r - l)]
  <2>. HIDE DEF R, cells, move
  <2>1. l <= r + 1 /\ r <= Len(list) /\ l >= 1 /\ l \in Nat /\ r \in Nat
    OBVIOUS
  <2>2. new \in Seq(N) /\ IsSpliced(new, list, l, node, r)
    BY <1>2, <2>1, Splices
  <2>. HIDE DEF new
  <2>. QED BY <2>2 DEF IsSpliced
<1>11. /\ \A j \in 1 .. Len(list) - (r - l) :
             cells[j] = IF j < l THEN el[j] ELSE IF j = l THEN cell ELSE el[j + (r - l)]
       /\ \A i \in 1 .. Len(list) :
             move[i] = IF i < l THEN i ELSE IF i <= r THEN l ELSE i - (r - l)
  BY DEF Fusion
<1>. HIDE DEF new, cells, move
<1>12. Moves(list, el, new, cells, move)
  <2>1. ASSUME NEW i \in 1 .. Len(list), NEW s \in Source, Has(list, i, s)
        PROVE  move[i] \in 1 .. Len(new) /\ Has(new, move[i], s) /\ cells[move[i]][s] = el[i][s]
    <3>1. CASE i < l
      <4>1. i \in 1 .. Len(list) - (r - l) /\ move[i] = i
        BY <1>2, <1>11, <3>1
      <4>2. new[i] = list[i] /\ cells[i] = el[i]
        BY <1>10, <1>11, <3>1, <4>1
      <4>. QED BY <1>10, <2>1, <4>1, <4>2 DEF Has
    <3>2. CASE l <= i /\ i <= r
      <4>1. l \in 1 .. Len(list) - (r - l) /\ move[i] = l /\ i \in R /\ ~(l < l)
        BY <1>2, <1>11, <3>2
      <4>2. new[l] = node /\ cells[l] = cell
        BY <1>10, <1>11, <4>1
      <4>3. Has(new, l, s)
        BY <1>9, <2>1, <4>1, <4>2 DEF Has
      <4>4. cell[s] = el[i][s]
        BY <1>6, <2>1, <4>1 DEF Has
      <4>. QED BY <1>10, <4>1, <4>2, <4>3, <4>4
    <3>3. CASE i > r
      <4>1. PICK j \in 1 .. Len(list) - (r - l) : j = i - (r - l) /\ j > l /\ j + (r - l) = i
        BY <1>2, <3>3
      <4>2. move[i] = j
        BY <1>11, <3>3, <4>1
      <4>3. ~(j < l) /\ j # l
        BY <4>1
      <4>4. new[j] = list[j + (r - l)] /\ cells[j] = el[j + (r - l)]
        BY <1>10, <1>11, <4>3
      <4>5. new[j] = list[i] /\ cells[j] = el[i]
        BY <4>1, <4>4
      <4>. QED BY <1>10, <2>1, <4>1, <4>2, <4>5 DEF Has
    <3>. QED BY <3>1, <3>2, <3>3
  <2>2. ASSUME NEW j \in 1 .. Len(new), NEW s \in Source, Has(new, j, s)
        PROVE  \E i \in 1 .. Len(list) : Has(list, i, s) /\ move[i] = j
    <3>1. j \in 1 .. Len(list) - (r - l) /\ j \in Nat
      BY <1>10
    <3>2. CASE j < l
      <4>1. j \in 1 .. Len(list) /\ new[j] = list[j] /\ move[j] = j
        BY <1>2, <1>10, <1>11, <3>1, <3>2
      <4>. QED BY <2>2, <4>1 DEF Has
    <3>3. CASE j = l
      <4>1. new[j] = node
        BY <1>10, <3>1, <3>3
      <4>2. PICK i \in R : Has(list, i, s)
        BY <1>9, <2>2, <4>1 DEF Has
      <4>3. i \in 1 .. Len(list) /\ move[i] = l
        BY <1>2, <1>11, <4>2
      <4>. QED BY <3>3, <4>2, <4>3
    <3>4. CASE j > l
      <4>1. PICK i \in 1 .. Len(list) : i = j + (r - l) /\ i > r /\ i - (r - l) = j
        BY <1>2, <3>1, <3>4
      <4>2. new[j] = list[i]
        BY <1>10, <3>1, <3>4, <4>1
      <4>3. move[i] = j
        BY <1>11, <4>1
      <4>. QED BY <2>2, <4>2, <4>3 DEF Has
    <3>. QED BY <3>1, <3>2, <3>3, <3>4
  <2>3. \A i, j \in 1 .. Len(list) : move[i] < move[j] => i < j
    BY <1>2, <1>11
  <2>. QED BY <2>1, <2>2, <2>3 DEF Moves
<1>13. Placed(new, cells, E)
  BY <1>12, MovesPlaced
<1>14. ASSUME NEW j \in 1 .. Len(new), j # l
       PROVE  \E i \in 1 .. Len(list) : new[j] = list[i] /\ cells[j] = el[i]
  <2>0. j \in 1 .. Len(list) - (r - l)
    BY <1>10
  <2>1. CASE j < l
    <3>1. j \in 1 .. Len(list) /\ new[j] = list[j] /\ cells[j] = el[j]
      BY <1>2, <1>10, <1>11, <2>0, <2>1
    <3>. QED BY <3>1
  <2>2. CASE j > l
    <3>1. j + (r - l) \in 1 .. Len(list)
      BY <1>2, <2>0, <2>2
    <3>2. new[j] = list[j + (r - l)] /\ cells[j] = el[j + (r - l)]
      BY <1>10, <1>11, <2>0, <2>2
    <3>. QED BY <3>1, <3>2
  <2>. QED BY <1>14, <2>0, <2>1, <2>2
<1>15. cells[l] = cell /\ new[l] = node
  BY <1>2, <1>10, <1>11
<1>. QED BY <1>6, <1>10, <1>13, <1>14, <1>15 DEF new, cells, cell

\* l .. r is as far around n as nodes are disjoint.
Widest(list, n, l, r) ==
    /\ l \in 1 .. n /\ r \in n .. Len(list)
    /\ Disjoint(list, l, r)
    /\ l > 1 => ~Disjoint(list, l - 1, n)
    /\ r < Len(list) => ~Disjoint(list, l, r + 1)

\* The nodes that become one when node i of list has lost a bit.
Merges(list, i, l, r) ==
    /\ l >= 1 /\ l <= r /\ r <= Len(Unlink(list, i))
    /\ Widest(Unlink(list, i), IF list[i].bits = {} /\ i > 1 THEN i - 1 ELSE i, l, r)
    /\ Swallowed(list, i) = l .. r
    /\ Min(l .. r) = l /\ Max(l .. r) = r

\* They lie side by side around that one.
LEMMA SwallowedIs ==
    ASSUME NEW N, NEW list \in Seq(N), NEW i \in 1 .. Len(list), Unlink(list, i) # <<>>,
           Unlink(list, i) \in Seq(N),
           Len(Unlink(list, i)) = Len(list) - (IF list[i].bits = {} THEN 1 ELSE 0)
    PROVE  \E l, r \in Nat : Merges(list, i, l, r)
<1>. DEFINE linked == Unlink(list, i)
            n == IF list[i].bits = {} /\ i > 1 THEN i - 1 ELSE i
            L == {l \in 1 .. n : Disjoint(linked, l, n)}
            l == MergeLeft(linked, n)
            R == {r \in n .. Len(linked) : Disjoint(linked, l, r)}
            r == MergeRight(linked, l, n)
<1>1. Swallowed(list, i) = l .. r
  BY DEF Swallowed
<1>2. Len(list) \in Nat /\ Len(linked) \in Nat /\ Len(linked) >= 1
      /\ Len(linked) = Len(list) - (IF list[i].bits = {} THEN 1 ELSE 0)
  <2>1. Len(linked) \in Nat /\ Len(linked) # 0
    OBVIOUS
  <2>. QED BY <2>1
<1>. HIDE DEF linked
<1>3. n \in Nat /\ n >= 1 /\ n <= Len(linked)
  BY <1>2
<1>. HIDE DEF n
<1>4. l \in 1 .. n /\ Disjoint(linked, l, n) /\ (l > 1 => ~Disjoint(linked, l - 1, n))
  <2>1. n \in L
    BY <1>3 DEF Disjoint
  <2>2. L \in SUBSET Nat
    BY <1>3
  <2>3. l = CHOOSE x \in L : \A y \in L : x <= y
    BY DEF MergeLeft, Min
  <2>. HIDE DEF L, l
  <2>4. l \in L /\ \A y \in L : l <= y
    <3>1. \E x \in L : \A y \in L : x <= y
      BY <2>1, <2>2, SmallestNumber
    <3>. QED BY <2>3, <3>1
  <2>5. l \in 1 .. n /\ Disjoint(linked, l, n)
    BY <2>4 DEF L
  <2>6. ASSUME l > 1, Disjoint(linked, l - 1, n) PROVE FALSE
    <3>1. l - 1 \in L
      BY <1>3, <2>5, <2>6 DEF L
    <3>. QED BY <1>3, <2>4, <2>5, <3>1
  <2>. QED BY <2>5, <2>6
<1>. HIDE DEF l
<1>5. /\ r \in n .. Len(linked) /\ Disjoint(linked, l, r)
      /\ r < Len(linked) => ~Disjoint(linked, l, r + 1)
  <2>1. n \in R
    BY <1>3, <1>4
  <2>2. IsFiniteSet(R) /\ \A x \in R : x \in Nat
    <3>1. n \in Int /\ Len(linked) \in Int
      BY <1>2, <1>3
    <3>2. IsFiniteSet(n .. Len(linked))
      BY <3>1, FS_Interval
    <3>3. R \in SUBSET (n .. Len(linked))
      OBVIOUS
    <3>. QED BY SMTT(30), <1>2, <1>3, <3>2, <3>3, FS_Subset
  <2>3. r = Max(R)
    BY DEF MergeRight
  <2>. HIDE DEF R, r
  <2>4. r \in R /\ \A y \in R : y <= r
    BY <2>1, <2>2, <2>3, LargestNumber
  <2>5. r \in n .. Len(linked) /\ Disjoint(linked, l, r)
    BY <2>4 DEF R
  <2>6. ASSUME r < Len(linked), Disjoint(linked, l, r + 1) PROVE FALSE
    <3>1. r + 1 \in R
      BY <1>2, <1>3, <2>5, <2>6 DEF R
    <3>. QED BY <1>2, <1>3, <2>4, <2>5, <3>1
  <2>. QED BY <2>5, <2>6
<1>. HIDE DEF r
<1>6. l \in Nat /\ r \in Nat /\ l >= 1 /\ l <= r /\ r <= Len(linked)
  BY <1>2, <1>3, <1>4, <1>5
<1>7. Min(l .. r) = l
  <2>1. \A x \in l .. r : (\A y \in l .. r : x <= y) => x = l
    BY <1>6
  <2>2. l \in l .. r /\ \A y \in l .. r : l <= y
    BY <1>6
  <2>. QED BY <2>1, <2>2 DEF Min
<1>8. Max(l .. r) = r
  <2>1. \A x \in l .. r : (\A y \in l .. r : x >= y) => x = r
    BY <1>6
  <2>2. r \in l .. r /\ \A y \in l .. r : r >= y
    BY <1>6
  <2>. QED BY <2>1, <2>2 DEF Max
<1>9. Widest(linked, n, l, r)
  BY <1>4, <1>5 DEF Widest
<1>10. Widest(Unlink(list, i), IF list[i].bits = {} /\ i > 1 THEN i - 1 ELSE i, l, r)
  BY <1>9, Zenon DEF linked, n
<1>11. r <= Len(Unlink(list, i))
  BY <1>6 DEF linked
<1>12. Merges(list, i, l, r)
  BY <1>1, <1>6, <1>7, <1>8, <1>10, <1>11 DEF Merges
<1>. QED BY <1>6, <1>12

-----------------------------------------------------------------------------
(* Merging as far as possible                                              *)

\* No node is empty, and no two neighbours could be one.
Meet(list, i, j) == list[i].bits \cap list[j].bits # {}

Dense(list) ==
    /\ \A i \in 1 .. Len(list) : list[i].bits # {}
    /\ \A i, j \in 1 .. Len(list) : j = i + 1 => Meet(list, i, j)

\* Where Insert adds a node, both neighbours have an element of the source.
LEMMA FreshBetween ==
    ASSUME NEW N, NEW list \in Seq(N), NEW el, NEW E, Orders(E), Placed(list, el, E),
           NEW s \in Source, NEW k \in Nat, \A r \in E[s] : r.key # k
    PROVE  LET c == Candidate(list, s, Rank(E[s], k))
           IN  c = NextSource(list, s, Rank(E[s], k)) =>
                  /\ c > 1 => Has(list, c - 1, s)
                  /\ c <= Len(list) => Has(list, c, s)
<1>. DEFINE index == Rank(E[s], k)
            c == Candidate(list, s, index)
            n == NextSource(list, s, index)
<1>1. /\ Ordered(E[s]) /\ index \in Nat /\ Cardinality(E[s]) \in Nat
      /\ index <= Cardinality(E[s])
  BY RankTyped DEF Orders
<1>2. Cardinality(Occupied(list, s)) = Cardinality(E[s])
  BY OccupiedIsOwned
<1>3. c > 1 => Has(list, c - 1, s)
  <2>1. index = 0 => c = 1
    BY DEF Candidate
  <2>2. CASE index # 0
    <3>1. index - 1 \in Nat /\ index - 1 < Cardinality(E[s])
      BY <1>1, <2>2
    <3>2. PICK r \in E[s] : Rank(E[s], r.key) = index - 1
      <4>. HIDE DEF index
      <4>. QED BY <1>1, <3>1, RankReached
    <3>. DEFINE i == NodeAt(list, s, index - 1)
    <3>3. i \in 1 .. Len(list) /\ Has(list, i, s) /\ c = i + 1
      BY <2>2, <3>2, NodeAtRank DEF Candidate
    <3>. HIDE DEF i, c
    <3>4. c - 1 = i
      BY <3>3
    <3>. QED BY <3>3, <3>4
  <2>. HIDE DEF c, index
  <2>. QED BY <2>1, <2>2
<1>4. n <= Len(list) => Has(list, n, s)
  <2>1. CASE index < Cardinality(E[s])
    <3>1. PICK r \in E[s] : Rank(E[s], r.key) = index
      <4>. HIDE DEF index
      <4>. QED BY <1>1, <2>1, RankReached
    <3>. QED BY <1>2, <2>1, <3>1, NodeAtRank DEF NextSource
  <2>2. CASE ~(index < Cardinality(E[s]))
    <3>1. n = Len(list) + 1
      BY <1>2, <2>2 DEF NextSource
    <3>. HIDE DEF n
    <3>. QED BY <3>1
  <2>. QED BY <2>1, <2>2
<1>. QED BY <1>3, <1>4

\* A list with a node of its own for an element of s, at position c.
Gap(list, new, c, s) ==
    /\ Len(new) = Len(list) + 1
    /\ \A i \in 1 .. Len(new) : new[i].bits =
          IF i < c THEN list[i].bits ELSE IF i = c THEN {s} ELSE list[i - 1].bits
    /\ c > 1 => Has(list, c - 1, s)
    /\ c <= Len(list) => Has(list, c, s)

LEMMA GapDense ==
    ASSUME NEW list, Len(list) \in Nat, Dense(list), NEW c \in 1 .. Len(list) + 1, NEW s,
           NEW new, Gap(list, new, c, s)
    PROVE  Dense(new)
<1>1. ASSUME NEW i \in 1 .. Len(new) PROVE new[i].bits # {}
  <2>1. CASE i > c
    <3>1. PICK m \in 1 .. Len(list) : m = i - 1
      BY <2>1 DEF Gap
    <3>. QED BY <2>1, <3>1 DEF Gap, Dense
  <2>2. CASE i < c
    <3>1. i \in 1 .. Len(list)
      BY <2>2 DEF Gap
    <3>. QED BY <2>2, <3>1 DEF Gap, Dense
  <2>3. CASE i = c
    <3>1. new[i].bits = {s}
      BY <2>3 DEF Gap
    <3>. QED BY <3>1
  <2>. QED BY <2>1, <2>2, <2>3
<1>2. ASSUME NEW i \in 1 .. Len(new), NEW j \in 1 .. Len(new), j = i + 1
      PROVE  Meet(new, i, j)
  <2>1. CASE j < c
    <3>1. i \in 1 .. Len(list) /\ j \in 1 .. Len(list) /\ i < c
      BY <1>2, <2>1 DEF Gap
    <3>2. new[i].bits = list[i].bits /\ new[j].bits = list[j].bits
      BY <2>1, <3>1 DEF Gap
    <3>. QED BY <1>2, <3>1, <3>2 DEF Dense, Meet
  <2>2. CASE j = c
    <3>1. i = c - 1 /\ c > 1 /\ i < c
      BY <1>2, <2>2
    <3>2. new[i].bits = list[i].bits /\ new[j].bits = {s} /\ Has(list, i, s)
      BY <2>2, <3>1 DEF Gap
    <3>. QED BY <3>2 DEF Meet, Has
  <2>3. CASE i = c
    <3>1. j > c /\ j - 1 = c /\ c <= Len(list)
      BY <1>2, <2>3 DEF Gap
    <3>2. new[j].bits = list[c].bits /\ new[i].bits = {s} /\ Has(list, c, s)
      BY <2>3, <3>1 DEF Gap
    <3>. QED BY <3>2 DEF Meet, Has
  <2>4. CASE i > c
    <3>1. PICK m \in 1 .. Len(list), n \in 1 .. Len(list) : m = i - 1 /\ n = j - 1
      BY <1>2, <2>4 DEF Gap
    <3>2. n = m + 1 /\ j > c
      BY <1>2, <2>4, <3>1
    <3>3. new[i].bits = list[m].bits /\ new[j].bits = list[n].bits
      BY <2>4, <3>1, <3>2 DEF Gap
    <3>. QED BY <3>2, <3>3 DEF Dense, Meet
  <2>. QED BY <1>2, <2>1, <2>2, <2>3, <2>4
<1>. QED BY <1>1, <1>2 DEF Dense

\* Bits that are added make no node empty and no neighbours disjoint.
LEMMA MoreDense ==
    ASSUME NEW list, Dense(list), NEW new, Len(new) = Len(list),
           \A i \in 1 .. Len(list) : list[i].bits \subseteq new[i].bits
    PROVE  Dense(new)
<1>1. \A i \in 1 .. Len(list) : new[i].bits # {}
  BY DEF Dense
<1>2. ASSUME NEW i \in 1 .. Len(list), NEW j \in 1 .. Len(list), j = i + 1
      PROVE  new[i].bits \cap new[j].bits # {}
  <2>1. list[i].bits \cap list[j].bits # {}
    BY <1>2 DEF Dense, Meet
  <2>. QED BY <2>1
<1>. QED BY <1>1, <1>2 DEF Dense, Meet

\* A list of which node c has lost a bit, and has been unlinked when that was its
\* last: dense but for node n, the one that mergeNodes starts from.
DenseBut(list, n) ==
    /\ \A i \in 1 .. Len(list) : list[i].bits # {}
    /\ \A i, j \in 1 .. Len(list) : j = i + 1 /\ i # n /\ j # n => Meet(list, i, j)

LEMMA UnlinkDense ==
    ASSUME NEW N, NEW list \in Seq(N), Dense(list), NEW c \in 1 .. Len(list), NEW B,
           NEW left \in Seq(N), Rebit(list, left, c, B)
    PROVE  /\ Unlink(left, c) \in Seq(N)
           /\ Len(Unlink(left, c)) = Len(left) - (IF left[c].bits = {} THEN 1 ELSE 0)
           /\ DenseBut(Unlink(left, c), IF left[c].bits = {} /\ c > 1 THEN c - 1 ELSE c)
<1>1. /\ Len(list) \in Nat /\ Len(left) = Len(list) /\ left[c].bits = B
      /\ \A i \in 1 .. Len(list) : i # c => left[i].bits = list[i].bits
  BY DEF Rebit
<1>2. CASE B # {}
  <2>1. Unlink(left, c) = left
    BY <1>1, <1>2 DEF Unlink
  <2>2. \A i \in 1 .. Len(left) : left[i].bits # {}
    BY <1>1, <1>2 DEF Dense
  <2>3. \A i, j \in 1 .. Len(left) : j = i + 1 /\ i # c /\ j # c => Meet(left, i, j)
    BY <1>1 DEF Dense, Meet
  <2>. QED BY <1>1, <1>2, <2>1, <2>2, <2>3 DEF DenseBut
<1>3. CASE B = {}
  <2>. DEFINE new == RemoveAt(left, c)
              n == IF c > 1 THEN c - 1 ELSE c
  <2>1. Unlink(left, c) = new
    BY <1>1, <1>3 DEF Unlink
  <2>2. /\ new \in Seq(N) /\ Len(new) = Len(left) - 1
        /\ \A j \in 1 .. Len(left) - 1 : new[j] = IF j < c THEN left[j] ELSE left[j + 1]
    BY <1>1, RemoveAtIs
  <2>. HIDE DEF new
  <2>3. ASSUME NEW i \in 1 .. Len(new) PROVE new[i].bits # {}
    <3>1. PICK m \in 1 .. Len(list) : m = (IF i < c THEN i ELSE i + 1) /\ m # c
      BY <1>1, <2>2
    <3>2. new[i] = left[m]
      BY <1>1, <2>2, <3>1
    <3>. QED BY <1>1, <3>1, <3>2 DEF Dense
  <2>4. ASSUME NEW i \in 1 .. Len(new), NEW j \in 1 .. Len(new), j = i + 1, i # n, j # n
        PROVE  Meet(new, i, j)
    <3>1. PICK m \in 1 .. Len(list) : m = (IF i < c THEN i ELSE i + 1) /\ m # c
      BY <1>1, <2>2
    <3>2. PICK k \in 1 .. Len(list) : k = (IF j < c THEN j ELSE j + 1) /\ k # c
      BY <1>1, <2>2
    <3>3. new[i] = left[m] /\ new[j] = left[k]
      BY <1>1, <2>2, <3>1, <3>2
    <3>4. k = m + 1
      BY <2>4, <3>1, <3>2
    <3>5. Meet(list, m, k)
      BY <1>1, <3>4 DEF Dense
    <3>6. m # c /\ k # c
      BY <3>1, <3>2
    <3>7. left[m].bits = list[m].bits /\ left[k].bits = list[k].bits
      BY <1>1, <3>6
    <3>. QED BY <3>3, <3>5, <3>7 DEF Meet
  <2>5. DenseBut(new, n)
    BY <2>3, <2>4 DEF DenseBut
  <2>. QED BY <1>1, <1>3, <2>1, <2>2, <2>5
<1>. QED BY <1>2, <1>3

\* Swallowing as far as it goes makes the list dense.
LEMMA MergeDense ==
    ASSUME NEW N, NEW list \in Seq(N), NEW n \in 1 .. Len(list), DenseBut(list, n),
           NEW l \in Nat, NEW r \in Nat, Widest(list, n, l, r),
           NEW node \in N, Unites(list, l, r, node)
    PROVE  Dense(Splice(list, l, node, r))
<1>. DEFINE new == Splice(list, l, node, r)
<1>1. Len(list) \in Nat /\ l >= 1 /\ l <= n /\ n <= r /\ r <= Len(list) /\ l <= r + 1
  BY DEF Widest
<1>2. /\ new \in Seq(N) /\ Len(new) = Len(list) - (r - l)
      /\ \A j \in 1 .. Len(list) - (r - l) :
            new[j] = IF j < l THEN list[j] ELSE IF j = l THEN node ELSE list[j + (r - l)]
  BY <1>1, SpliceIs
<1>. HIDE DEF new
<1>3. \A i \in l .. r : list[i].bits \subseteq node.bits
  BY DEF Unites
<1>4. \A i \in 1 .. Len(list) : list[i].bits # {}
  BY DEF DenseBut
<1>5. ASSUME NEW i \in 1 .. Len(new), NEW j \in 1 .. Len(new), j = i + 1
      PROVE  Meet(new, i, j)
  <2>1. CASE j < l
    <3>1. /\ i \in 1 .. Len(list) /\ j \in 1 .. Len(list) /\ i # n /\ j # n
          /\ new[i] = list[i] /\ new[j] = list[j]
      BY <1>1, <1>2, <1>5, <2>1
    <3>. QED BY <1>5, <3>1 DEF DenseBut, Meet
  <2>2. CASE j = l
    <3>1. l > 1 /\ i = l - 1 /\ new[i] = list[l - 1] /\ new[j] = node
      BY <1>1, <1>2, <1>5, <2>2
    <3>2. PICK a \in l - 1 .. n, b \in l - 1 .. n : a # b /\ list[a].bits \cap list[b].bits # {}
      BY <3>1 DEF Widest, Disjoint
    <3>3. ~(a \in l .. r /\ b \in l .. r)
      BY <3>2 DEF Widest, Disjoint
    <3>4. \/ a = l - 1 /\ b \in l .. r
          \/ b = l - 1 /\ a \in l .. r
      BY <1>1, <3>2, <3>3
    <3>5. list[l - 1].bits \cap node.bits # {}
      BY <1>3, <3>2, <3>4
    <3>. QED BY <3>1, <3>5 DEF Meet
  <2>3. CASE i = l
    <3>1. r < Len(list) /\ new[i] = node /\ new[j] = list[r + 1]
      BY <1>1, <1>2, <1>5, <2>3
    <3>2. PICK a \in l .. r + 1, b \in l .. r + 1 : a # b /\ list[a].bits \cap list[b].bits # {}
      BY <3>1 DEF Widest, Disjoint
    <3>3. ~(a \in l .. r /\ b \in l .. r)
      BY <3>2 DEF Widest, Disjoint
    <3>4. \/ a = r + 1 /\ b \in l .. r
          \/ b = r + 1 /\ a \in l .. r
      BY <1>1, <3>2, <3>3
    <3>5. list[r + 1].bits \cap node.bits # {}
      BY <1>3, <3>2, <3>4
    <3>. QED BY <3>1, <3>5 DEF Meet
  <2>4. CASE i > l
    <3>1. PICK a \in 1 .. Len(list), b \in 1 .. Len(list) : a = i + (r - l) /\ b = j + (r - l)
      BY <1>1, <1>2, <1>5, <2>4
    <3>2. b = a + 1 /\ a # n /\ b # n
      BY <1>1, <1>5, <2>4, <3>1
    <3>3. ~(i < l) /\ i # l /\ ~(j < l) /\ j # l
      BY <1>1, <1>5, <2>4
    <3>4. new[i] = list[i + (r - l)] /\ new[j] = list[j + (r - l)]
      BY <1>2, <3>3
    <3>. QED BY <3>1, <3>2, <3>4 DEF DenseBut, Meet
  <2>. QED BY <1>1, <1>5, <2>1, <2>2, <2>3, <2>4
<1>6. ASSUME NEW j \in 1 .. Len(new) PROVE new[j].bits # {}
  <2>1. CASE j < l
    <3>1. j \in 1 .. Len(list) /\ new[j] = list[j]
      BY <1>1, <1>2, <2>1
    <3>. QED BY <1>4, <3>1
  <2>2. CASE j = l
    <3>1. new[j] = node /\ n \in l .. r /\ list[n].bits # {}
      BY <1>1, <1>2, <1>4, <2>2
    <3>. QED BY <1>3, <3>1
  <2>3. CASE j > l
    <3>1. PICK a \in 1 .. Len(list) : a = j + (r - l)
      BY <1>1, <1>2, <2>3
    <3>2. new[j] = list[a]
      BY <1>1, <1>2, <2>3, <3>1
    <3>. QED BY <1>4, <3>2
  <2>. QED BY <1>1, <2>1, <2>2, <2>3
<1>7. Dense(new)
  BY <1>5, <1>6 DEF Dense
<1>. QED BY <1>7 DEF new

-----------------------------------------------------------------------------
(* XORs of XORs                                                            *)

\* The members of all the sets d[m].
Members(d, R) == UNION {d[m] : m \in R}

\* h[m] is the XOR over d[m], for m \in R, and these sets are disjoint.
Family(f, R, d, h) ==
    /\ \A m \in R : /\ IsFiniteSet(d[m]) /\ WordsOn(f, d[m])
                    /\ h[m] = XorOver(f, d[m])
    /\ \A m, n \in R : m # n => d[m] \cap d[n] = {}

\* The XOR of the XORs of disjoint sets is that of their union.
LEMMA XorOverFamily ==
    ASSUME NEW f, NEW R, IsFiniteSet(R), NEW d, NEW h, Family(f, R, d, h)
    PROVE  XorOver(h, R) = XorOver(f, Members(d, R))
<1>. DEFINE U(T) == Members(d, T)
            B == {T \in SUBSET R : ~ (IsFiniteSet(U(T)) /\ XorOver(h, T) = XorOver(f, U(T)))}
<1>1. SUFFICES ASSUME B # {} PROVE FALSE
  OBVIOUS
<1>2. PICK T \in B : \A V \in B : V \subseteq T => V = T
  <2>1. B \subseteq SUBSET R
    OBVIOUS
  <2>. HIDE DEF B
  <2>. QED BY <1>1, <2>1, SmallestSet
<1>3. T \subseteq R /\ IsFiniteSet(T) /\ ~ (IsFiniteSet(U(T)) /\ XorOver(h, T) = XorOver(f, U(T)))
  BY FS_Subset
<1>4. T # {}
  <2>. SUFFICES ASSUME T = {} PROVE FALSE
    OBVIOUS
  <2>1. U(T) = {}
    BY DEF Members
  <2>2. XorOver(h, {}) = 0 /\ XorOver(f, {}) = 0 /\ IsFiniteSet({})
    BY XorOverEmpty, FS_EmptySet
  <2>. QED BY <1>3, <2>1, <2>2
<1>5. PICK e \in T : TRUE
  BY <1>4
<1>. DEFINE P == T \ {e}
<1>6. IsFiniteSet(U(P)) /\ XorOver(h, P) = XorOver(f, U(P))
  <2>1. P \notin B
    BY <1>2, <1>5
  <2>. QED BY <1>3, <2>1
<1>7. U(T) = U(P) \cup d[e] /\ U(P) \cap d[e] = {}
  <2>1. U(T) = U(P) \cup d[e]
    BY <1>5 DEF Members
  <2>2. U(P) \cap d[e] = {}
    BY <1>3, <1>5 DEF Family, Members
  <2>. QED BY <2>1, <2>2
<1>8. WordsOn(f, U(P)) /\ WordsOn(f, d[e]) /\ IsFiniteSet(d[e]) /\ h[e] = XorOver(f, d[e])
  BY <1>3, <1>5 DEF WordsOn, Family, Members
<1>9. WordsOn(h, T)
  <2>1. SUFFICES ASSUME NEW m \in T PROVE h[m] \in Word
    BY DEF WordsOn
  <2>2. IsFiniteSet(d[m]) /\ WordsOn(f, d[m]) /\ h[m] = XorOver(f, d[m])
    BY <1>3 DEF Family
  <2>. QED BY <2>2, XorOverTyped
<1>10. XorOver(h, T) = Xor(h[e], XorOver(h, P))
  BY <1>3, <1>5, <1>9, XorOverRemove
<1>. HIDE DEF B, U, P
<1>11. XorOver(f, U(T)) = Xor(XorOver(f, U(P)), XorOver(f, d[e])) /\ IsFiniteSet(U(T))
  <2>1. PICK a, b : a = U(P) /\ b = d[e]
    OBVIOUS
  <2>2. XorOver(f, a \cup b) = Xor(XorOver(f, a), XorOver(f, b))
    BY <1>6, <1>7, <1>8, <2>1, XorOverUnion
  <2>3. IsFiniteSet(a \cup b)
    BY <1>6, <1>8, <2>1, FS_Union
  <2>. QED BY <1>7, <2>1, <2>2, <2>3
<1>12. XorOver(f, U(P)) \in Word /\ XorOver(f, d[e]) \in Word
  BY <1>6, <1>8, XorOverTyped
<1>13. XorOver(h, T) = XorOver(f, U(T))
  BY <1>6, <1>8, <1>10, <1>11, <1>12, XorLaws
<1>. QED BY <1>3, <1>11, <1>13

-----------------------------------------------------------------------------
(* Counting                                                                *)

\* The sets d[m], for m \in R, are finite and disjoint, and h[m] is the size of d[m].
Parts(R, d, h) ==
    /\ \A m \in R : IsFiniteSet(d[m]) /\ h[m] = Cardinality(d[m])
    /\ \A m, n \in R : m # n => d[m] \cap d[n] = {}

\* g is the recursive function inside SumFunctionOnSet(h, R).
IsSum(h, R, g) ==
    g = [T \in SUBSET R |-> IF T = {} THEN 0 ELSE h[First(T)] + g[T \ {First(T)}]]

\* One part more.
LEMMA PartsAdd ==
    ASSUME NEW R, NEW d, NEW h, Parts(R, d, h), NEW T \in SUBSET R, NEW e \in T,
           IsFiniteSet(Members(d, T \ {e}))
    PROVE  /\ IsFiniteSet(Members(d, T))
           /\ Cardinality(Members(d, T)) = h[e] + Cardinality(Members(d, T \ {e}))
<1>. PICK a, b : a = Members(d, T \ {e}) /\ b = d[e]
  OBVIOUS
<1>1. Members(d, T) = a \cup b
  BY DEF Members
<1>2. a \cap b = {}
  <2>1. \A m \in T \ {e} : d[m] \cap d[e] = {}
    BY DEF Parts
  <2>2. ASSUME NEW x, x \in a, x \in b PROVE FALSE
    <3>1. PICK m \in T \ {e} : x \in d[m]
      BY <2>2 DEF Members
    <3>. QED BY <2>1, <2>2, <3>1
  <2>. QED BY <2>2
<1>3. IsFiniteSet(a) /\ IsFiniteSet(b) /\ h[e] = Cardinality(b)
  BY DEF Parts
<1>4. Cardinality(a) \in Nat /\ Cardinality(b) \in Nat
  BY <1>3, FS_CardinalityType
<1>5. IsFiniteSet(a \cup b) /\ Cardinality(a \cup b) = Cardinality(a) + Cardinality(b)
  <2>1. Cardinality(a \cap b) = 0
    BY <1>2, FS_EmptySet
  <2>2. IsFiniteSet(a \cup b) /\ Cardinality(a \cup b) = Cardinality(a) + Cardinality(b) - Cardinality(a \cap b)
    BY <1>3, FS_Union
  <2>. QED BY <1>4, <2>1, <2>2
<1>. QED BY <1>1, <1>3, <1>4, <1>5

LEMMA PartsFinite ==
    ASSUME NEW R, IsFiniteSet(R), NEW d, NEW h, Parts(R, d, h), NEW T \in SUBSET R
    PROVE  IsFiniteSet(Members(d, T))
<1>. DEFINE B == {P \in SUBSET R : ~ IsFiniteSet(Members(d, P))}
<1>1. SUFFICES ASSUME B # {} PROVE FALSE
  OBVIOUS
<1>2. PICK P \in B : \A V \in B : V \subseteq P => V = P
  <2>1. B \subseteq SUBSET R
    OBVIOUS
  <2>. HIDE DEF B
  <2>. QED BY <1>1, <2>1, SmallestSet
<1>3. P \in SUBSET R /\ ~ IsFiniteSet(Members(d, P))
  BY <1>2
<1>4. PICK e \in P : TRUE
  <2>1. Members(d, {}) = {}
    BY DEF Members
  <2>. QED BY <1>3, <2>1, FS_EmptySet
<1>5. P \ {e} \notin B
  BY <1>2, <1>4
<1>6. IsFiniteSet(Members(d, P \ {e}))
  BY <1>3, <1>5
<1>. QED BY <1>3, <1>4, <1>6, PartsAdd

\* There is one such function at most.
LEMMA SumsAgree ==
    ASSUME NEW h, NEW R, IsFiniteSet(R), NEW f, IsSum(h, R, f), NEW g, IsSum(h, R, g)
    PROVE  f[R] = g[R]
<1>. DEFINE B == {T \in SUBSET R : f[T] # g[T]}
<1>1. SUFFICES ASSUME B # {} PROVE FALSE
  OBVIOUS
<1>2. PICK T \in B : \A V \in B : V \subseteq T => V = T
  <2>1. B \subseteq SUBSET R
    OBVIOUS
  <2>. HIDE DEF B
  <2>. QED BY <1>1, <2>1, SmallestSet
<1>3. /\ f[T] = IF T = {} THEN 0 ELSE h[First(T)] + f[T \ {First(T)}]
      /\ g[T] = IF T = {} THEN 0 ELSE h[First(T)] + g[T \ {First(T)}]
  BY <1>2 DEF IsSum
<1>4. T # {} => T \ {First(T)} \notin B
  BY <1>2, FirstIsMember
<1>. QED BY <1>2, <1>3, <1>4

\* The sum of the sizes of disjoint sets is the size of their union.
LEMMA SumIsCount ==
    ASSUME NEW R, IsFiniteSet(R), NEW d, NEW h, Parts(R, d, h)
    PROVE  /\ IsFiniteSet(Members(d, R))
           /\ SumFunctionOnSet(h, R) = Cardinality(Members(d, R))
<1>. DEFINE c == [T \in SUBSET R |-> Cardinality(Members(d, T))]
            G == CHOOSE g : g = [T \in SUBSET R |->
                      IF T = {} THEN 0
                      ELSE h[CHOOSE x \in T : TRUE] + g[T \ {CHOOSE x \in T : TRUE}]]
<1>1. ASSUME NEW T \in SUBSET R
      PROVE  c[T] = IF T = {} THEN 0 ELSE h[First(T)] + c[T \ {First(T)}]
  <2>1. CASE T = {}
    <3>1. Members(d, {}) = {}
      BY DEF Members
    <3>. QED BY <2>1, <3>1, FS_EmptySet
  <2>2. CASE T # {}
    <3>1. First(T) \in T /\ T \ {First(T)} \in SUBSET R
      BY <2>2, FirstIsMember
    <3>2. IsFiniteSet(Members(d, T \ {First(T)}))
      BY <3>1, PartsFinite
    <3>3. Cardinality(Members(d, T)) = h[First(T)] + Cardinality(Members(d, T \ {First(T)}))
      BY <3>1, <3>2, PartsAdd
    <3>. QED BY <2>2, <3>1, <3>3
  <2>. QED BY <2>1, <2>2
<1>2. IsSum(h, R, c)
  <2>1. c = [T \in SUBSET R |-> c[T]]
    OBVIOUS
  <2>. HIDE DEF c
  <2>. QED BY <1>1, <2>1 DEF IsSum
<1>3. IsSum(h, R, G)
  <2>. HIDE DEF c
  <2>. QED BY <1>2 DEF IsSum, First
<1>4. SumFunctionOnSet(h, R) = G[R]
  BY DEF SumFunctionOnSet, FoldFunctionOnSet, MapThenFoldSet
<1>5. c[R] = G[R]
  <2>. HIDE DEF c, G
  <2>. QED BY <1>2, <1>3, SumsAgree
<1>6. IsFiniteSet(Members(d, R))
  BY PartsFinite
<1>. QED BY <1>4, <1>5, <1>6

LEMMA CountTo ==
    ASSUME NEW n \in Nat
    PROVE  IsFiniteSet(1 .. n) /\ Cardinality(1 .. n) = n
<1>1. 1 \in Int /\ n \in Int
  OBVIOUS
<1>2. IsFiniteSet(1 .. n) /\ Cardinality(1 .. n) = IF 1 > n THEN 0 ELSE n - 1 + 1
  BY <1>1, FS_Interval
<1>. QED BY <1>2

\* Each slice has a run of n places, with a place for each of its elements, and
\* no place is on no run.
Covers(runs, slices, n) ==
    /\ \A s \in DOMAIN slices : /\ runs[s] \in SUBSET (1 .. n)
                               /\ Cardinality(runs[s]) = Len(slices[s])
    /\ \A i \in 1 .. n : \E s \in DOMAIN slices : i \in runs[s]

\* There are as many places as the longest slice needs, and no more than all of
\* them need together.
LEMMA Covered ==
    ASSUME NEW S, NEW slices, AreSlices(slices, S), NEW runs, NEW n \in Nat, Covers(runs, slices, n)
    PROVE  /\ Longest(slices) \in Nat /\ Longest(slices) <= n
           /\ SumFunctionOnSet([s \in DOMAIN slices |-> Len(slices[s])], DOMAIN slices) \in Nat
           /\ n <= SumFunctionOnSet([s \in DOMAIN slices |-> Len(slices[s])], DOMAIN slices)
<1>. DEFINE d == [s \in S |-> {s} \X runs[s]]
            h == [s \in S |-> Len(slices[s])]
            U == Members(d, S)
            at == [i \in 1 .. n |-> CHOOSE p \in U : p[2] = i]
<1>1. DOMAIN slices = S /\ IsFiniteSet(S) /\ \A s \in S : Len(slices[s]) \in Nat
  BY DEF AreSlices
<1>2. IsFiniteSet(1 .. n) /\ Cardinality(1 .. n) = n
  BY CountTo
<1>3. ASSUME NEW s \in S
      PROVE  IsFiniteSet(runs[s]) /\ Cardinality(runs[s]) = Len(slices[s]) /\ Len(slices[s]) <= n
  <2>1. runs[s] \in SUBSET (1 .. n) /\ Cardinality(runs[s]) = Len(slices[s])
    BY <1>1 DEF Covers
  <2>. QED BY <1>2, <2>1, FS_Subset
<1>4. Longest(slices) \in Nat /\ Longest(slices) <= n
  <2>1. Longest(slices) \in Nat /\ \E s \in S : Len(slices[s]) = Longest(slices)
    BY LongestIsLength
  <2>. QED BY <1>3, <2>1
<1>5. Parts(S, d, h)
  <2>1. ASSUME NEW s \in S PROVE IsFiniteSet(d[s]) /\ h[s] = Cardinality(d[s])
    <3>1. IsFiniteSet({s}) /\ Cardinality({s}) = 1
      BY FS_Singleton
    <3>2. PICK R : R = runs[s]
      OBVIOUS
    <3>3. IsFiniteSet({s} \X R) /\ Cardinality({s} \X R) = 1 * Cardinality(R)
      BY ZenonT(60), <1>3, <3>1, <3>2, FS_Product
    <3>. QED BY <1>1, <1>3, <3>2, <3>3
  <2>2. ASSUME NEW s \in S, NEW t \in S, s # t PROVE d[s] \cap d[t] = {}
    BY <2>2
  <2>. HIDE DEF d, h
  <2>. QED BY <2>1, <2>2 DEF Parts
<1>6. IsFiniteSet(U) /\ SumFunctionOnSet(h, S) = Cardinality(U)
  <2>. HIDE DEF d, h
  <2>. QED BY <1>1, <1>5, SumIsCount
<1>7. ASSUME NEW i \in 1 .. n PROVE \E p \in U : p[2] = i
  <2>1. PICK s \in S : i \in runs[s]
    BY <1>1 DEF Covers
  <2>2. <<s, i>> \in d[s]
    BY <2>1
  <2>3. <<s, i>> \in U
    BY <2>2 DEF Members
  <2>. QED BY <2>3
<1>. HIDE DEF U
<1>8. \A i \in 1 .. n : at[i] \in U /\ at[i][2] = i
  BY <1>7
<1>9. at \in Injection(1 .. n, U)
  <2>1. at \in [1 .. n -> U]
    BY <1>8
  <2>2. \A i, j \in 1 .. n : at[i] = at[j] => i = j
    BY <1>8
  <2>. HIDE DEF at
  <2>. QED BY <2>1, <2>2 DEF Injection, IsInjective
<1>10. n <= Cardinality(U) /\ Cardinality(U) \in Nat
  <2>. HIDE DEF at
  <2>. QED BY <1>2, <1>6, <1>9, FS_Injection, FS_CardinalityType
<1>. QED BY <1>1, <1>4, <1>6, <1>10

-----------------------------------------------------------------------------
(* Nodes of the list: the XOR of the values of their elements              *)

ListNode == [value : Word, bits : SUBSET Source]

\* The XOR of the elements of the sources in S.
XorValues(cell, S) == XorOver([s \in S |-> cell[s].value], S)
Valued(cell, S) == \A s \in S : cell[s].value \in Word

LEMMA ValuesTyped ==
    ASSUME NEW S \in SUBSET Source, NEW cell, Valued(cell, S)
    PROVE  XorValues(cell, S) \in Word
<1>1. IsFiniteSet(S)
  BY SomeSources
<1>2. WordsOn([s \in S |-> cell[s].value], S)
  BY DEF WordsOn, Valued
<1>. QED BY <1>1, <1>2, XorOverTyped DEF XorValues

LEMMA ValuesSame ==
    ASSUME NEW S \in SUBSET Source, NEW cell, NEW other, \A s \in S : other[s] = cell[s]
    PROVE  XorValues(other, S) = XorValues(cell, S)
<1>1. IsFiniteSet(S)
  BY SomeSources
<1>. DEFINE v == [s \in S |-> cell[s].value]
            w == [s \in S |-> other[s].value]
<1>2. \A s \in S : v[s] = w[s]
  OBVIOUS
<1>3. XorOver(v, S) = XorOver(w, S)
  <2>. HIDE DEF v, w
  <2>. QED BY <1>1, <1>2, XorOverSame
<1>. QED BY <1>3 DEF XorValues

LEMMA ValuesAdd ==
    ASSUME NEW S \in SUBSET Source, NEW e \in Source, e \notin S,
           NEW cell, Valued(cell, S \cup {e})
    PROVE  XorValues(cell, S \cup {e}) = Xor(XorValues(cell, S), cell[e].value)
<1>. DEFINE T == S \cup {e}
            v == [s \in T |-> cell[s].value]
            w == [s \in S |-> cell[s].value]
<1>1. IsFiniteSet(S)
  BY SomeSources
<1>2. WordsOn(v, S) /\ v[e] \in Word /\ v[e] = cell[e].value
  BY DEF WordsOn, Valued
<1>3. \A s \in S : v[s] = w[s]
  OBVIOUS
<1>4. XorOver(v, S \cup {e}) = Xor(XorOver(v, S), v[e]) /\ XorOver(v, S) = XorOver(w, S)
  <2>. HIDE DEF v, w
  <2>. QED BY <1>1, <1>2, <1>3, XorOverAdd, XorOverSame
<1>. QED BY <1>2, <1>4 DEF XorValues

\* Every node holds the XOR of the values that el says are in it.
Sum(node, cell) == node.value = XorValues(cell, node.bits)
Sums(list, el) == \A i \in 1 .. Len(list) : Sum(list[i], el[i])

Elements(E) == \A s \in Source : \A r \in E[s] : r.value \in Word

\* The list is a backup of the elements E.
BacksUp(list, E) == list \in Seq(ListNode) /\ \E el : Placed(list, el, E) /\ Sums(list, el)

LEMMA ListBits == \A list \in Seq(ListNode) : BitsTyped(list)
<1>. SUFFICES ASSUME NEW list \in Seq(ListNode), NEW i \in 1 .. Len(list)
              PROVE  list[i].bits \in SUBSET Source
  BY DEF BitsTyped
<1>1. list[i] \in ListNode
  OBVIOUS
<1>. QED BY <1>1 DEF ListNode

\* What is in a node has a value.
LEMMA NodeValued ==
    ASSUME NEW list, BitsTyped(list), NEW el, NEW E, Elements(E), Placed(list, el, E),
           NEW i \in 1 .. Len(list)
    PROVE  Valued(el[i], list[i].bits)
BY DEF Valued, Elements, Placed, Has, BitsTyped

LEMMA FreshListNode == NewListNode \in ListNode /\ Empty(NewListNode) /\ \A cell : Sum(NewListNode, cell)
BY XorOverEmpty, XorLaws DEF NewListNode, ListNode, Empty, Sum, XorValues

\* A value goes into a node.
LEMMA TakesIn ==
    ASSUME NEW node \in ListNode, NEW cell, Sum(node, cell), NEW s \in Source, s \notin node.bits,
           Valued(cell, node.bits), NEW v \in Word, NEW other, other[s].value = v,
           \A t \in node.bits : other[t] = cell[t]
    PROVE  LET new == TakeIn(node, s, v)
           IN  new \in ListNode /\ new.bits = node.bits \cup {s} /\ Sum(new, other)
<1>1. node.bits \in SUBSET Source /\ node.value \in Word
  BY DEF ListNode
<1>2. Valued(other, node.bits \cup {s})
  BY DEF Valued
<1>3. XorValues(other, node.bits) = node.value
  BY <1>1, ValuesSame DEF Sum
<1>4. XorValues(other, node.bits \cup {s}) = Xor(node.value, v)
  BY <1>1, <1>2, <1>3, ValuesAdd
<1>5. Xor(node.value, v) \in Word
  BY <1>1, XorLaws
<1>. QED BY <1>1, <1>4, <1>5 DEF TakeIn, ListNode, Sum

\* And out of it.
LEMMA GivesUp ==
    ASSUME NEW node \in ListNode, NEW cell, Sum(node, cell), NEW s \in node.bits,
           Valued(cell, node.bits)
    PROVE  LET new == GiveUp(node, s, cell[s].value)
           IN  new \in ListNode /\ new.bits = node.bits \ {s} /\ Sum(new, cell)
<1>. DEFINE S == node.bits \ {s}
<1>1. node.bits \in SUBSET Source /\ S \in SUBSET Source /\ s \in Source /\ s \notin S
      /\ S \cup {s} = node.bits
  BY DEF ListNode
<1>2. Valued(cell, S) /\ Valued(cell, S \cup {s}) /\ cell[s].value \in Word
  BY <1>1 DEF Valued
<1>. HIDE DEF S
<1>3. node.value = Xor(XorValues(cell, S), cell[s].value)
  BY <1>1, <1>2, ValuesAdd DEF Sum
<1>4. XorValues(cell, S) \in Word
  BY <1>1, <1>2, ValuesTyped
<1>5. Xor(node.value, cell[s].value) = XorValues(cell, S)
  BY <1>2, <1>3, <1>4, XorLaws
<1>6. GiveUp(node, s, cell[s].value) = [value |-> XorValues(cell, S), bits |-> S]
  BY <1>5 DEF GiveUp, S
<1>. QED BY <1>1, <1>4, <1>6 DEF S, ListNode, Sum

-----------------------------------------------------------------------------
(* Operations on the nodes of a list                                       *)

\* Node c has taken value v of source s in.
Adopted(list, c, s, v) == [list EXCEPT ![c] = TakeIn(@, s, v)]

LEMMA Adopts ==
    ASSUME NEW list \in Seq(ListNode), NEW el, NEW E, Orders(E), Elements(E),
           Placed(list, el, E), Sums(list, el), NEW c \in 1 .. Len(list),
           NEW s \in Source, ~Has(list, c, s),
           NEW r, r.key \in Nat, r.value \in Word, NEW F, Adds(F, E, s, r),
           \A q \in E[s] : q.key # r.key, Divides(list, el, s, c, r.key)
    PROVE  /\ BacksUp(Adopted(list, c, s, r.value), F)
           /\ Rebit(list, Adopted(list, c, s, r.value), c, list[c].bits \cup {s})
<1>. DEFINE new == Adopted(list, c, s, r.value)
            cells == Settled(el, Len(list), c, s, r)
<1>1. PICK node : node = TakeIn(list[c], s, r.value)
  OBVIOUS
<1>2. new = [list EXCEPT ![c] = node]
  BY <1>1, Zenon DEF Adopted
<1>3. Len(list) \in Nat /\ list[c] \in ListNode /\ BitsTyped(list) /\ s \notin list[c].bits
  BY ListBits DEF Has
<1>4. \A i \in 1 .. Len(list), t \in Source :
         cells[i][t] = IF i = c /\ t = s THEN r ELSE el[i][t]
  BY DEF Settled
<1>. HIDE DEF cells
<1>5. \A i \in 1 .. Len(list) : Valued(el[i], list[i].bits) /\ list[i].bits \in SUBSET Source
  BY <1>3, NodeValued DEF BitsTyped
<1>6. node \in ListNode /\ node.bits = list[c].bits \cup {s} /\ Sum(node, cells[c])
  <2>1. Sum(list[c], el[c]) /\ Valued(el[c], list[c].bits)
    BY <1>5 DEF Sums
  <2>2. PICK other : other = cells[c]
    OBVIOUS
  <2>3. other[s] = r /\ \A t \in list[c].bits : other[t] = el[c][t]
    BY <1>3, <1>4, <1>5, <2>2
  <2>. QED BY <1>1, <1>3, <2>1, <2>2, <2>3, TakesIn
<1>7. /\ new \in Seq(ListNode) /\ Len(new) = Len(list)
      /\ \A i \in 1 .. Len(list) : new[i] = IF i = c THEN node ELSE list[i]
  <2>. HIDE DEF new
  <2>. QED BY <1>2, <1>6
<1>. HIDE DEF new
<1>8. Rebit(list, new, c, list[c].bits \cup {s})
  BY <1>6, <1>7 DEF Rebit
<1>9. Placed(new, cells, F)
  BY <1>3, <1>8, TakePlaced DEF cells
<1>10. Sums(new, cells)
  <2>1. SUFFICES ASSUME NEW i \in 1 .. Len(list) PROVE Sum(new[i], cells[i])
    BY <1>7 DEF Sums
  <2>2. CASE i = c
    BY <1>6, <1>7, <2>2
  <2>3. CASE i # c
    <3>1. new[i] = list[i] /\ \A t \in list[i].bits : cells[i][t] = el[i][t]
      BY <1>4, <1>5, <1>7, <2>3
    <3>2. XorValues(cells[i], list[i].bits) = XorValues(el[i], list[i].bits)
      BY <1>5, <3>1, ValuesSame
    <3>. QED BY <3>1, <3>2 DEF Sums, Sum
  <2>. QED BY <2>2, <2>3
<1>. QED BY <1>7, <1>8, <1>9, <1>10 DEF BacksUp, new

\* The nodes after an insertion.
Grown(list, s, index, v) ==
    [WithRoom(list, s, index, NewListNode) EXCEPT ![Candidate(list, s, index)] = TakeIn(@, s, v)]

\* An insertion adds the element to what the list backs up, and adds a node only
\* where no two neighbours can become one by that.
LEMMA Grows ==
    ASSUME NEW list, NEW E, Orders(E), Elements(E), BacksUp(list, E),
           NEW s \in Source, NEW r, r.key \in Nat, r.value \in Word,
           NEW F, Adds(F, E, s, r), \A q \in E[s] : q.key # r.key
    PROVE  /\ BacksUp(Grown(list, s, Rank(E[s], r.key), r.value), F)
           /\ Dense(list) => Dense(Grown(list, s, Rank(E[s], r.key), r.value))
<1>. DEFINE k == r.key
            index == Rank(E[s], k)
            c == Candidate(list, s, index)
            room == WithRoom(list, s, index, NewListNode)
            new == Grown(list, s, index, r.value)
<1>1. PICK el : Placed(list, el, E) /\ Sums(list, el)
  BY DEF BacksUp
<1>2. list \in Seq(ListNode) /\ Len(list) \in Nat
  BY DEF BacksUp
<1>3. c \in 1 .. Len(list) + 1 /\ Divides(list, el, s, c, k)
  BY <1>1, <1>2, CandidateDivides
<1>4. c # NextSource(list, s, index) => c \in 1 .. Len(list) /\ ~Has(list, c, s)
  BY <1>1, <1>2, RoomIs
<1>5. c = NextSource(list, s, index) =>
        (c > 1 => Has(list, c - 1, s)) /\ (c <= Len(list) => Has(list, c, s))
  BY <1>1, <1>2, FreshBetween
<1>6. new = Adopted(room, c, s, r.value)
  BY DEF Grown, Adopted
<1>7. room = IF c = NextSource(list, s, index) THEN InsertAt(list, c, NewListNode) ELSE list
  BY DEF WithRoom
<1>. HIDE DEF c, index, room, k, new
<1>8. CASE c = NextSource(list, s, index)
  <2>. DEFINE cells == Opened(el, Len(list), c)
  <2>1. room = InsertAt(list, c, NewListNode)
    BY <1>7, <1>8
  <2>. HIDE DEF cells
  <2>2. /\ Placed(room, cells, E)
        /\ room \in Seq(ListNode) /\ Len(room) = Len(list) + 1
        /\ \A j \in 1 .. Len(list) + 1 :
              room[j] = IF j < c THEN list[j] ELSE IF j = c THEN NewListNode ELSE list[j - 1]
        /\ \A j \in 1 .. Len(list) + 1 : cells[j] = IF j < c THEN el[j] ELSE el[j - 1]
        /\ ~Has(room, c, s)
        /\ Divides(room, cells, s, c, k)
    BY <1>1, <1>2, <1>3, <2>1, FreshListNode, FreshPlaced DEF cells
  <2>3. Sums(room, cells)
    <3>1. SUFFICES ASSUME NEW i \in 1 .. Len(list) + 1 PROVE Sum(room[i], cells[i])
      BY <2>2 DEF Sums
    <3>2. CASE i = c
      BY <1>3, <2>2, <3>2, FreshListNode
    <3>3. CASE i < c
      <4>1. i \in 1 .. Len(list) /\ room[i] = list[i] /\ cells[i] = el[i]
        BY <1>2, <1>3, <2>2, <3>3
      <4>. QED BY <1>1, <4>1 DEF Sums
    <3>4. CASE i > c
      <4>1. i - 1 \in 1 .. Len(list) /\ room[i] = list[i - 1] /\ cells[i] = el[i - 1]
        BY <1>2, <1>3, <2>2, <3>4
      <4>. QED BY <1>1, <4>1 DEF Sums
    <3>. QED BY <1>3, <3>2, <3>3, <3>4
  <2>4. c \in 1 .. Len(room)
    BY <1>3, <2>2
  <2>5. BacksUp(new, F) /\ Rebit(room, new, c, room[c].bits \cup {s})
    BY <1>6, <2>2, <2>3, <2>4, Adopts DEF k
  <2>6. ASSUME Dense(list) PROVE Dense(new)
    <3>1. Gap(list, new, c, s)
      <4>1. room[c] = NewListNode /\ NewListNode.bits = {}
        BY <1>3, <2>2, <2>4, FreshListNode DEF Empty
      <4>2. new[c].bits = {s} /\ Len(new) = Len(list) + 1
        BY <2>2, <2>4, <2>5, <4>1 DEF Rebit
      <4>3. ASSUME NEW i \in 1 .. Len(list) + 1
            PROVE  new[i].bits =
                      IF i < c THEN list[i].bits ELSE IF i = c THEN {s} ELSE list[i - 1].bits
        <5>6. Len(room) = Len(list) + 1
          BY <2>2
        <5>4. i # c => new[i].bits = room[i].bits
          BY <2>5, <5>6 DEF Rebit
        <5>5. room[i] = IF i < c THEN list[i] ELSE IF i = c THEN NewListNode ELSE list[i - 1]
          BY <2>2
        <5>1. CASE i < c
          BY <1>3, <5>1, <5>4, <5>5
        <5>2. CASE i = c
          <6>1. ~(i < c) /\ new[i].bits = {s}
            BY <1>3, <4>2, <5>2
          <6>. QED BY <5>2, <6>1
        <5>3. CASE i > c
          BY <1>3, <5>3, <5>4, <5>5
        <5>. QED BY <1>3, <5>1, <5>2, <5>3
      <4>. QED BY <1>5, <1>8, <4>2, <4>3 DEF Gap
    <3>. QED BY <1>2, <1>3, <2>6, <3>1, GapDense
  <2>. QED BY <2>5, <2>6 DEF new, index, k
<1>9. CASE c # NextSource(list, s, index)
  <2>1. room = list /\ c \in 1 .. Len(list) /\ ~Has(list, c, s)
    BY <1>4, <1>7, <1>9
  <2>2. BacksUp(new, F) /\ Rebit(list, new, c, list[c].bits \cup {s})
    BY <1>1, <1>2, <1>3, <1>6, <2>1, Adopts DEF k
  <2>3. Dense(list) => Dense(new)
    <3>1. Len(new) = Len(list) /\ \A i \in 1 .. Len(list) : list[i].bits \subseteq new[i].bits
      BY <2>2 DEF Rebit
    <3>. QED BY <3>1, MoreDense
  <2>. QED BY <2>2, <2>3 DEF new, index, k
<1>. QED BY <1>8, <1>9

-----------------------------------------------------------------------------
\* The node in which the nodes l .. r become one.
LEMMA MergedNode ==
    ASSUME NEW list \in Seq(ListNode), NEW l \in Nat, NEW r \in Nat, l >= 1, r <= Len(list)
    PROVE  Merged(list, l .. r) \in ListNode /\ Unites(list, l, r, Merged(list, l .. r))
<1>. DEFINE R == l .. r
            S == UNION {list[i].bits : i \in R}
            values == [i \in R |-> list[i].value]
<1>1. IsFiniteSet(R)
  <2>1. l \in Int /\ r \in Int
    OBVIOUS
  <2>. QED BY <2>1, FS_Interval
<1>2. \A i \in R : list[i] \in ListNode
  OBVIOUS
<1>3. \A i \in R : list[i].bits \in SUBSET Source /\ list[i].value \in Word
  BY <1>2 DEF ListNode
<1>4. S \in SUBSET Source
  BY <1>3
<1>5. WordsOn(values, R)
  BY <1>3 DEF WordsOn
<1>6. Merged(list, R) = [value |-> XorOver(values, R), bits |-> S]
  BY DEF Merged
<1>7. Merged(list, R).bits = S
  BY <1>6
<1>8. Unites(list, l, r, Merged(list, R))
  BY <1>7 DEF Unites
<1>. HIDE DEF S, values, R
<1>9. XorOver(values, R) \in Word
  BY <1>1, <1>5, XorOverTyped
<1>10. Merged(list, R) \in ListNode
  BY <1>4, <1>6, <1>9 DEF ListNode
<1>. QED BY <1>8, <1>10 DEF R

\* The nodes in R are disjoint, and cell has the elements of all of them.
Mergeable(list, el, R, cell) ==
    /\ R \in SUBSET (1 .. Len(list))
    /\ \A i \in R : Valued(el[i], list[i].bits)
    /\ \A i, j \in R : i # j => list[i].bits \cap list[j].bits = {}
    /\ \A i \in R : \A s \in list[i].bits : cell[s] = el[i][s]

LEMMA MergedSum ==
    ASSUME NEW list \in Seq(ListNode), NEW el, Sums(list, el),
           NEW R, IsFiniteSet(R), NEW cell, Mergeable(list, el, R, cell)
    PROVE  Sum(Merged(list, R), cell)
<1>. DEFINE S == UNION {list[i].bits : i \in R}
            d == [i \in R |-> list[i].bits]
            values == [i \in R |-> list[i].value]
            fv == [s \in S |-> cell[s].value]
<1>1. \A i \in R : list[i] \in ListNode /\ i \in 1 .. Len(list)
  BY DEF Mergeable
<1>2. \A i \in R : list[i].bits \in SUBSET Source /\ IsFiniteSet(list[i].bits)
  BY <1>1, SomeSources DEF ListNode
<1>3. S \in SUBSET Source
  BY <1>2
<1>4. Valued(cell, S)
  BY <1>1 DEF Valued, Mergeable
<1>5. WordsOn(fv, S)
  BY <1>4 DEF WordsOn, Valued
<1>6. ASSUME NEW i \in R PROVE list[i].value = XorOver(fv, list[i].bits)
  <2>. DEFINE T == list[i].bits
              gv == [s \in T |-> cell[s].value]
  <2>1. list[i].value = XorValues(el[i], T) /\ \A s \in T : cell[s] = el[i][s]
    BY <1>1 DEF Sums, Sum, Mergeable
  <2>2. XorValues(cell, T) = XorValues(el[i], T)
    BY <1>2, <2>1, ValuesSame
  <2>3. \A s \in T : fv[s] = gv[s]
    OBVIOUS
  <2>4. XorOver(fv, T) = XorOver(gv, T)
    <3>1. IsFiniteSet(T)
      BY <1>2
    <3>. HIDE DEF fv, gv, T
    <3>. QED BY <2>3, <3>1, XorOverSame
  <2>. QED BY <2>1, <2>2, <2>4 DEF XorValues
<1>7. Family(fv, R, d, values) /\ Members(d, R) = S
  <2>1. \A i \in R : d[i] = list[i].bits /\ IsFiniteSet(d[i])
    BY <1>2
  <2>2. \A i \in R : WordsOn(fv, d[i])
    BY <1>5 DEF WordsOn
  <2>3. \A i \in R : values[i] = XorOver(fv, d[i])
    <3>1. \A i \in R : values[i] = list[i].value
      OBVIOUS
    <3>. HIDE DEF values, fv, d
    <3>. QED BY <1>6, <2>1, <3>1
  <2>4. \A i, j \in R : i # j => d[i] \cap d[j] = {}
    BY DEF Mergeable
  <2>5. Members(d, R) = S
    BY DEF Members
  <2>. HIDE DEF d, values, fv, S
  <2>. QED BY <2>1, <2>2, <2>3, <2>4, <2>5 DEF Family
<1>8. Merged(list, R) = [value |-> XorOver(values, R), bits |-> S]
  BY DEF Merged
<1>9. XorOver(fv, S) = XorValues(cell, S)
  BY DEF XorValues
<1>. HIDE DEF d, values, fv, S
<1>10. XorOver(values, R) = XorOver(fv, S)
  BY <1>7, XorOverFamily
<1>. QED BY <1>8, <1>9, <1>10 DEF Sum

\* Disjoint nodes as one.
LEMMA Unifies ==
    ASSUME NEW list, NEW E, Elements(E), BacksUp(list, E),
           NEW l \in Nat, l >= 1, NEW r \in Nat, l <= r, r <= Len(list), Disjoint(list, l, r)
    PROVE  BacksUp(Splice(list, l, Merged(list, l .. r), r), E)
<1>1. PICK el : Placed(list, el, E) /\ Sums(list, el)
  BY DEF BacksUp
<1>2. list \in Seq(ListNode) /\ Len(list) \in Nat /\ BitsTyped(list)
  BY ListBits DEF BacksUp
<1>3. PICK node \in ListNode : node = Merged(list, l .. r) /\ Unites(list, l, r, node)
  BY <1>2, MergedNode
<1>. DEFINE new == Splice(list, l, node, r)
            cell == Together(list, el, l, r)
            cells == Fusion(el, Len(list), l, r, cell)
<1>4. /\ Placed(new, cells, E) /\ new \in Seq(ListNode)
      /\ \A i \in l .. r : \A s \in list[i].bits : cell[s] = el[i][s]
      /\ \A j \in 1 .. Len(new) :
            \/ new[j] = node /\ cells[j] = cell
            \/ \E i \in 1 .. Len(list) : new[j] = list[i] /\ cells[j] = el[i]
  BY <1>1, <1>2, <1>3, MergePlaced
<1>. HIDE DEF new, cell, cells
<1>5. Sum(node, cell)
  <2>1. l .. r \in SUBSET (1 .. Len(list)) /\ IsFiniteSet(l .. r)
    <3>1. l \in Int /\ r \in Int
      OBVIOUS
    <3>2. IsFiniteSet(l .. r)
      BY <3>1, FS_Interval
    <3>. QED BY <1>2, <3>2
  <2>2. \A i \in l .. r : Valued(el[i], list[i].bits)
    BY <1>1, <1>2, <2>1, NodeValued
  <2>3. \A i, j \in l .. r : i # j => list[i].bits \cap list[j].bits = {}
    BY DEF Disjoint
  <2>4. Mergeable(list, el, l .. r, cell)
    BY <1>4, <2>1, <2>2, <2>3 DEF Mergeable
  <2>. QED BY <1>1, <1>2, <1>3, <2>1, <2>4, MergedSum
<1>6. Sums(new, cells)
  BY <1>1, <1>4, <1>5 DEF Sums
<1>. QED BY <1>3, <1>4, <1>6 DEF BacksUp, new

\* An empty node may go.
LEMMA Unlinks ==
    ASSUME NEW list, NEW E, BacksUp(list, E), NEW c \in 1 .. Len(list)
    PROVE  BacksUp(Unlink(list, c), E)
<1>1. PICK el : Placed(list, el, E) /\ Sums(list, el)
  BY DEF BacksUp
<1>2. list \in Seq(ListNode)
  BY DEF BacksUp
<1>3. CASE list[c].bits = {}
  <2>. DEFINE new == RemoveAt(list, c)
              cells == Closed(el, Len(list), c)
  <2>0. c \in 1 .. Len(list) /\ Placed(list, el, E)
    BY <1>1
  <2>1. Unlinked(ListNode, list, el, E, new, cells)
    BY ONLY Zenon, <1>2, <1>3, <2>0, UnlinkPlaced
  <2>2. Unlink(list, c) = new
    BY <1>3 DEF Unlink
  <2>. HIDE DEF new, cells
  <2>3. Sums(new, cells)
    BY <1>1, <2>1 DEF Sums, Unlinked
  <2>. QED BY <2>1, <2>2, <2>3 DEF BacksUp, Unlinked
<1>4. CASE list[c].bits # {}
  BY <1>4 DEF Unlink
<1>. QED BY <1>3, <1>4

\* Node c has given value v of source s up.
Yielded(list, c, s, v) == [list EXCEPT ![c] = GiveUp(@, s, v)]

LEMMA Yields ==
    ASSUME NEW list, list \in Seq(ListNode), NEW el, NEW E, Orders(E), Elements(E),
           Placed(list, el, E), Sums(list, el),
           NEW s \in Source, NEW r \in E[s],
           NEW c \in 1 .. Len(list), Has(list, c, s), el[c][s] = r,
           NEW F, Drops(F, E, s, r)
    PROVE  /\ BacksUp(Yielded(list, c, s, r.value), F)
           /\ Rebit(list, Yielded(list, c, s, r.value), c, list[c].bits \ {s})
<1>. DEFINE new == Yielded(list, c, s, r.value)
<1>1. PICK node : node = GiveUp(list[c], s, r.value)
  OBVIOUS
<1>2. new = [list EXCEPT ![c] = node]
  BY <1>1, Zenon DEF Yielded
<1>3. Len(list) \in Nat /\ list[c] \in ListNode /\ BitsTyped(list) /\ s \in list[c].bits
  BY ListBits DEF Has
<1>4. node \in ListNode /\ node.bits = list[c].bits \ {s} /\ Sum(node, el[c])
  <2>1. Sum(list[c], el[c]) /\ Valued(el[c], list[c].bits)
    BY <1>3, NodeValued DEF Sums
  <2>2. PICK cell : cell = el[c]
    OBVIOUS
  <2>3. cell[s] = r
    BY <2>2
  <2>. QED BY <1>1, <1>3, <2>1, <2>2, <2>3, GivesUp
<1>5. /\ new \in Seq(ListNode) /\ Len(new) = Len(list)
      /\ \A i \in 1 .. Len(list) : new[i] = IF i = c THEN node ELSE list[i]
  <2>. HIDE DEF new
  <2>. QED BY <1>2, <1>4
<1>. HIDE DEF new
<1>6. Rebit(list, new, c, list[c].bits \ {s})
  BY <1>4, <1>5 DEF Rebit
<1>7. Placed(new, el, F)
  BY <1>3, <1>6, GivePlaced
<1>8. Sums(new, el)
  BY <1>4, <1>5 DEF Sums
<1>. QED BY <1>5, <1>6, <1>7, <1>8 DEF BacksUp, new

\* The nodes after a deletion.
Shrunk(list, s, index, v) ==
    LET i == NodeAt(list, s, index)
        left == Yielded(list, i, s, v)
    IN  MergeNodes(left, i, Merged(Unlink(left, i), Swallowed(left, i)))

\* A deletion takes the element from what the list backs up, and leaves no two
\* neighbours that could be one.
LEMMA Shrinks ==
    ASSUME NEW list, NEW E, Orders(E), Elements(E), BacksUp(list, E),
           NEW s \in Source, NEW r \in E[s], NEW F, Elements(F), Drops(F, E, s, r)
    PROVE  /\ BacksUp(Shrunk(list, s, Rank(E[s], r.key), r.value), F)
           /\ Dense(list) => Dense(Shrunk(list, s, Rank(E[s], r.key), r.value))
<1>. DEFINE c == NodeAt(list, s, Rank(E[s], r.key))
            left == Yielded(list, c, s, r.value)
            linked == Unlink(left, c)
            range == Swallowed(left, c)
            node == Merged(linked, range)
            n == IF left[c].bits = {} /\ c > 1 THEN c - 1 ELSE c
            new == Shrunk(list, s, Rank(E[s], r.key), r.value)
<1>1. PICK el : Placed(list, el, E) /\ Sums(list, el)
  BY DEF BacksUp
<1>2. list \in Seq(ListNode) /\ Len(list) \in Nat
  BY DEF BacksUp
<1>3. c \in 1 .. Len(list) /\ Has(list, c, s) /\ el[c][s] = r
  BY <1>1, <1>2, NodeAtRank
<1>4. new = MergeNodes(left, c, node)
  BY DEF Shrunk
<1>5. MergeNodes(left, c, node)
         = IF linked = <<>> THEN <<>>
           ELSE SubSeq(linked, 1, Min(range) - 1) \o <<node>>
                    \o SubSeq(linked, Max(range) + 1, Len(linked))
  BY DEF MergeNodes
<1>6. BacksUp(left, F) /\ Rebit(list, left, c, list[c].bits \ {s})
  <2>. HIDE DEF c
  <2>. QED BY <1>1, <1>2, <1>3, Yields
<1>7. left \in Seq(ListNode) /\ c \in 1 .. Len(left)
  BY <1>3, <1>6 DEF BacksUp, Rebit
<1>. HIDE DEF c, left, node, range, n, new
<1>8. BacksUp(linked, F)
  BY <1>6, <1>7, Unlinks
<1>9. /\ linked \in Seq(ListNode)
      /\ Len(linked) = Len(left) - (IF left[c].bits = {} THEN 1 ELSE 0)
  <2>1. CASE left[c].bits = {}
    <3>1. Unlink(left, c) = RemoveAt(left, c)
      BY <2>1 DEF Unlink
    <3>. QED BY <1>7, <2>1, <3>1, RemoveAtIs
  <2>2. CASE left[c].bits # {}
    BY <1>7, <2>2 DEF Unlink
  <2>. QED BY <2>1, <2>2
<1>10. Dense(list) => DenseBut(linked, n)
  BY <1>2, <1>3, <1>6, <1>7, UnlinkDense DEF n
<1>11. CASE linked = <<>>
  <2>1. Dense(<<>>)
    BY DEF Dense
  <2>. QED BY <1>4, <1>5, <1>8, <1>11, <2>1 DEF new
<1>12. CASE linked # <<>>
  <2>1. PICK l, r1 \in Nat : Merges(left, c, l, r1)
    BY <1>7, <1>9, <1>12, SwallowedIs
  <2>2. /\ l >= 1 /\ l <= r1 /\ r1 <= Len(linked) /\ Widest(linked, n, l, r1)
        /\ range = l .. r1 /\ Min(l .. r1) = l /\ Max(l .. r1) = r1
    BY <2>1 DEF Merges, range, n
  <2>. HIDE DEF linked
  <2>3. n \in 1 .. Len(linked)
    <3>1. l \in 1 .. n /\ r1 \in n .. Len(linked)
      BY <2>2 DEF Widest
    <3>2. n \in Nat
      BY <1>3 DEF n
    <3>. QED BY <2>2, <3>1, <3>2
  <2>4. node \in ListNode /\ Unites(linked, l, r1, node) /\ node = Merged(linked, l .. r1)
    BY <1>9, <2>2, MergedNode DEF node
  <2>5. Disjoint(linked, l, r1)
    BY <2>2 DEF Widest
  <2>6. BacksUp(Splice(linked, l, node, r1), F)
    BY <1>8, <2>2, <2>4, <2>5, Unifies
  <2>7. Dense(list) => Dense(Splice(linked, l, node, r1))
    BY <1>9, <1>10, <2>2, <2>3, <2>4, MergeDense
  <2>8. new = Splice(linked, l, node, r1)
    BY <1>4, <1>5, <1>12, <2>2 DEF Splice
  <2>. QED BY <2>6, <2>7, <2>8 DEF new
<1>. QED BY <1>11, <1>12

-----------------------------------------------------------------------------
(* Positions: the elements of a list are told by their index in the source *)

\* The elements of a source, counted from 0 as in the code.
Records(q) == {[key |-> n, value |-> q[n + 1]] : n \in 0 .. Len(q) - 1}
Filed(sources) == [s \in Source |-> Records(sources[s])]

LEMMA RecordsAre ==
    ASSUME NEW q, Len(q) \in Nat
    PROVE  /\ Ordered(Records(q))
           /\ Cardinality(Records(q)) = Len(q)
           /\ \A r \in Records(q) : r.key \in 0 .. Len(q) - 1 /\ r.value = q[r.key + 1]
           /\ \A n \in 0 .. Len(q) - 1 :
                 \E r \in Records(q) : r.key = n /\ r.value = q[n + 1]
<1>. DEFINE N == 0 .. Len(q) - 1
            f == [n \in N |-> [key |-> n, value |-> q[n + 1]]]
            R == Records(q)
<1>1. /\ \A r \in R : r.key \in N /\ r.value = q[r.key + 1]
      /\ \A n \in N : \E r \in R : r.key = n /\ r.value = q[n + 1]
      /\ \A r, t \in R : r.key = t.key => r = t
  <2>1. \A r \in R : \E n \in N : r = [key |-> n, value |-> q[n + 1]]
    BY DEF Records
  <2>2. \A n \in N : [key |-> n, value |-> q[n + 1]] \in R
    BY DEF Records
  <2>3. \A r \in R : r.key \in N /\ r = [key |-> r.key, value |-> q[r.key + 1]]
    <3>. HIDE DEF R
    <3>. QED BY <2>1
  <2>4. \A r \in R : r.key \in N /\ r.value = q[r.key + 1]
    <3>. HIDE DEF R
    <3>. QED BY <2>1
  <2>5. \A n \in N : \E r \in R : r.key = n /\ r.value = q[n + 1]
    <3>. HIDE DEF R
    <3>. QED BY <2>2
  <2>6. ASSUME NEW r \in R, NEW t \in R, r.key = t.key PROVE r = t
    <3>. HIDE DEF R
    <3>1. r = [key |-> r.key, value |-> q[r.key + 1]] /\ t = [key |-> t.key, value |-> q[t.key + 1]]
      BY <2>3
    <3>. QED BY <2>6, <3>1
  <2>. QED BY <2>4, <2>5, <2>6
<1>2. f \in Bijection(N, R)
  <2>1. f \in [N -> R] /\ \A r \in R : \E n \in N : f[n] = r
    BY DEF Records
  <2>2. \A m, n \in N : f[m] = f[n] => m = n
    OBVIOUS
  <2>3. f \in Injection(N, R) /\ f \in Surjection(N, R)
    <3>. HIDE DEF f, N, R
    <3>. QED BY <2>1, <2>2 DEF Injection, IsInjective, Surjection
  <2>. HIDE DEF f, N, R
  <2>. QED BY <2>3 DEF Bijection
<1>3. IsFiniteSet(N) /\ Cardinality(N) = Len(q)
  <2>1. 0 \in Int /\ Len(q) - 1 \in Int
    OBVIOUS
  <2>2. IsFiniteSet(N) /\ Cardinality(N) = IF 0 > Len(q) - 1 THEN 0 ELSE (Len(q) - 1) - 0 + 1
    BY <2>1, FS_Interval
  <2>. QED BY <2>2
<1>4. IsFiniteSet(R) /\ Cardinality(R) = Len(q)
  <2>. HIDE DEF f, N, R
  <2>. QED BY <1>2, <1>3, FS_Bijection DEF ExistsBijection
<1>5. \A r \in R : r.key \in Nat
  BY <1>1
<1>. QED BY <1>1, <1>4, <1>5 DEF Ordered

\* The element at a position has as many before it as the position says; so
\* would one at the end.
LEMMA RankOfRecord ==
    ASSUME NEW q, Len(q) \in Nat, NEW n \in 0 .. Len(q)
    PROVE  Rank(Records(q), n) = n
<1>. DEFINE f == [m \in 0 .. n - 1 |-> [key |-> m, value |-> q[m + 1]]]
            B == Below(Records(q), n)
            N == 0 .. n - 1
<1>1. f \in Bijection(N, B)
  <2>1. f \in [N -> B] /\ \A r \in B : \E m \in N : f[m] = r
    <3>1. \A m \in N : m \in 0 .. Len(q) - 1 /\ m < n
      OBVIOUS
    <3>2. \A m \in N : [key |-> m, value |-> q[m + 1]] \in B
      BY <3>1 DEF Records, Below
    <3>3. \A r \in B : \E m \in N : r = [key |-> m, value |-> q[m + 1]]
      <4>1. SUFFICES ASSUME NEW r \in B PROVE \E m \in N : r = [key |-> m, value |-> q[m + 1]]
        OBVIOUS
      <4>2. PICK m \in 0 .. Len(q) - 1 : r = [key |-> m, value |-> q[m + 1]]
        BY DEF Records, Below
      <4>3. r.key < n /\ r.key = m
        BY <4>2 DEF Below
      <4>4. m \in N
        BY <4>3
      <4>. QED BY <4>2, <4>4
    <3>4. f \in [N -> B]
      <4>. HIDE DEF B
      <4>. QED BY <3>2
    <3>. HIDE DEF B
    <3>. QED BY <3>3, <3>4
  <2>2. \A m, k \in N : f[m] = f[k] => m = k
    OBVIOUS
  <2>3. f \in Injection(N, B) /\ f \in Surjection(N, B)
    <3>. HIDE DEF f, N, B
    <3>. QED BY <2>1, <2>2 DEF Injection, IsInjective, Surjection
  <2>. HIDE DEF f, N, B
  <2>. QED BY <2>3 DEF Bijection
<1>2. IsFiniteSet(N) /\ Cardinality(N) = n
  <2>1. 0 \in Int /\ n - 1 \in Int
    OBVIOUS
  <2>2. IsFiniteSet(N) /\ Cardinality(N) = IF 0 > n - 1 THEN 0 ELSE (n - 1) - 0 + 1
    BY <2>1, FS_Interval
  <2>. QED BY <2>2
<1>3. Cardinality(B) = n
  <2>. HIDE DEF f, N, B
  <2>. QED BY <1>1, <1>2, FS_Bijection DEF ExistsBijection
<1>. QED BY <1>3 DEF Rank

LEMMA FiledAre ==
    ASSUME NEW sources \in [Source -> Seq(Word)]
    PROVE  Orders(Filed(sources)) /\ Elements(Filed(sources))
<1>. SUFFICES ASSUME NEW s \in Source
              PROVE  Ordered(Records(sources[s])) /\ \A r \in Records(sources[s]) : r.value \in Word
  BY DEF Orders, Elements, Filed
<1>1. PICK q \in Seq(Word) : q = sources[s]
  OBVIOUS
<1>2. Len(q) \in Nat /\ \A i \in 1 .. Len(q) : q[i] \in Word
  OBVIOUS
<1>3. Ordered(Records(q)) /\ \A r \in Records(q) : r.key \in 0 .. Len(q) - 1 /\ r.value = q[r.key + 1]
  BY <1>2, RecordsAre
<1>4. \A r \in Records(q) : r.key + 1 \in 1 .. Len(q)
  BY <1>2, <1>3
<1>. QED BY <1>1, <1>2, <1>3, <1>4

\* F is E with the elements of source s renumbered, in the same order.
Renumbered(F, E, s, m) ==
    /\ F[s] = {m[r] : r \in E[s]}
    /\ \A r \in E[s] : m[r].value = r.value
    /\ \A q, r \in E[s] : q.key < r.key => m[q].key < m[r].key
    /\ \A t \in Source \ {s} : F[t] = E[t]

\* The nodes do not know the numbers.
LEMMA RenumberKeeps ==
    ASSUME NEW list, NEW E, BacksUp(list, E), NEW s \in Source, NEW m, NEW F, Renumbered(F, E, s, m)
    PROVE  BacksUp(list, F)
<1>1. PICK el : Placed(list, el, E) /\ Sums(list, el)
  BY DEF BacksUp
<1>2. list \in Seq(ListNode) /\ BitsTyped(list)
  BY ListBits DEF BacksUp
<1>. DEFINE cells == [i \in 1 .. Len(list) |->
                        [t \in Source |-> IF t = s THEN m[el[i][t]] ELSE el[i][t]]]
<1>3. \A i \in 1 .. Len(list), t \in Source :
         cells[i][t] = IF t = s THEN m[el[i][t]] ELSE el[i][t]
  OBVIOUS
<1>. HIDE DEF cells
<1>4. Placed(list, cells, F)
  <2>1. ASSUME NEW i \in 1 .. Len(list), NEW t \in Source, Has(list, i, t) PROVE cells[i][t] \in F[t]
    <3>1. el[i][t] \in E[t]
      BY <1>1, <2>1 DEF Placed
    <3>2. CASE t = s
      BY <1>3, <3>1, <3>2 DEF Renumbered
    <3>3. CASE t # s
      BY <1>3, <3>1, <3>3 DEF Renumbered
    <3>. QED BY <3>2, <3>3
  <2>2. ASSUME NEW t \in Source, NEW r \in F[t]
        PROVE  \E i \in 1 .. Len(list) : Has(list, i, t) /\ cells[i][t] = r
    <3>1. CASE t = s
      <4>1. PICK q \in E[s] : m[q] = r
        BY <3>1 DEF Renumbered
      <4>2. PICK i \in 1 .. Len(list) : Has(list, i, s) /\ el[i][s] = q
        BY <1>1 DEF Placed
      <4>. QED BY <1>3, <3>1, <4>1, <4>2
    <3>2. CASE t # s
      <4>1. PICK i \in 1 .. Len(list) : Has(list, i, t) /\ el[i][t] = r
        BY <1>1, <3>2 DEF Placed, Renumbered
      <4>. QED BY <1>3, <3>2, <4>1
    <3>. QED BY <3>1, <3>2
  <2>3. ASSUME NEW t \in Source, NEW i \in 1 .. Len(list), NEW j \in 1 .. Len(list),
               Has(list, i, t), Has(list, j, t), i < j
        PROVE  cells[i][t].key < cells[j][t].key
    <3>1. el[i][t].key < el[j][t].key /\ el[i][t] \in E[t] /\ el[j][t] \in E[t]
      BY <1>1, <2>3 DEF Placed
    <3>2. CASE t = s
      <4>1. cells[i][t] = m[el[i][s]] /\ cells[j][t] = m[el[j][s]]
        BY <1>3, <3>2
      <4>. QED BY <3>1, <3>2, <4>1 DEF Renumbered
    <3>3. CASE t # s
      <4>1. cells[i][t] = el[i][t] /\ cells[j][t] = el[j][t]
        BY <1>3, <3>3
      <4>. QED BY <3>1, <4>1
    <3>. QED BY <3>2, <3>3
  <2>. QED BY <2>1, <2>2, <2>3 DEF Placed
<1>5. Sums(list, cells)
  <2>1. SUFFICES ASSUME NEW i \in 1 .. Len(list) PROVE Sum(list[i], cells[i])
    BY DEF Sums
  <2>. DEFINE S == list[i].bits
              v == [t \in S |-> el[i][t].value]
              w == [t \in S |-> cells[i][t].value]
  <2>2. S \in SUBSET Source
    BY <1>2 DEF BitsTyped
  <2>3. ASSUME NEW t \in S PROVE w[t] = v[t]
    <3>1. el[i][t] \in E[t] /\ t \in Source
      BY <1>1, <2>2 DEF Placed, Has
    <3>2. cells[i][t].value = el[i][t].value
      BY <1>3, <3>1 DEF Renumbered
    <3>. QED BY <3>2
  <2>4. XorOver(w, S) = XorOver(v, S)
    <3>1. IsFiniteSet(S)
      BY <2>2, SomeSources
    <3>. HIDE DEF v, w, S
    <3>. QED BY <2>3, <3>1, XorOverSame
  <2>5. list[i].value = XorOver(v, S)
    BY <1>1 DEF Sums, Sum, XorValues
  <2>. QED BY <2>4, <2>5 DEF Sum, XorValues
<1>. QED BY <1>2, <1>4, <1>5 DEF BacksUp

-----------------------------------------------------------------------------
(* The list with its sources                                               *)

\* The nodes are a backup of the sources that no two neighbours could share.
ListInv(list) ==
    /\ list.sources \in [Source -> Seq(Word)]
    /\ BacksUp(list.nodes, Filed(list.sources))
    /\ Dense(list.nodes)

LEMMA NewListInv == ListInv(NewList)
<1>. DEFINE sources == [s \in Source |-> <<>>]
<1>1. NewList.nodes = <<>> /\ NewList.sources = sources
  BY DEF NewList
<1>2. sources \in [Source -> Seq(Word)] /\ \A s \in Source : Records(sources[s]) = {}
  BY DEF Records
<1>3. \A s \in Source : Filed(sources)[s] = {}
  BY <1>2 DEF Filed
<1>. HIDE DEF sources
<1>4. Placed(<<>>, <<>>, Filed(sources)) /\ Sums(<<>>, <<>>) /\ <<>> \in Seq(ListNode)
  BY <1>3 DEF Placed, Sums
<1>5. Dense(<<>>)
  BY DEF Dense
<1>. QED BY <1>1, <1>2, <1>4, <1>5 DEF ListInv, BacksUp

LEMMA IsRecord ==
    ASSUME NEW q, Len(q) \in Nat
    PROVE  /\ \A n \in 0 .. Len(q) - 1 : [key |-> n, value |-> q[n + 1]] \in Records(q)
           /\ \A r \in Records(q) : \E n \in 0 .. Len(q) - 1 : r = [key |-> n, value |-> q[n + 1]]
BY DEF Records

\* The records from index on, one further.
Shifted(r, index) == IF r.key < index THEN r ELSE [key |-> r.key + 1, value |-> r.value]

LEMMA InsertsRecord ==
    ASSUME NEW q \in Seq(Word), NEW index \in 0 .. Len(q), NEW v \in Word
    PROVE  Records(InsertAt(q, index + 1, v))
             = {Shifted(r, index) : r \in Records(q)} \cup {[key |-> index, value |-> v]}
<1>. DEFINE new == InsertAt(q, index + 1, v)
            r0 == [key |-> index, value |-> v]
<1>1. Len(q) \in Nat /\ index \in Nat /\ index + 1 \in 1 .. Len(q) + 1
  OBVIOUS
<1>2. /\ Len(new) = Len(q) + 1
      /\ \A j \in 1 .. Len(q) + 1 :
            new[j] = IF j < index + 1 THEN q[j] ELSE IF j = index + 1 THEN v ELSE q[j - 1]
  <2>1. PICK i \in 1 .. Len(q) + 1 : i = index + 1
    BY <1>1
  <2>2. IsInserted(new, q, i, v)
    BY <2>1, Inserts
  <2>. HIDE DEF new
  <2>. QED BY <2>1, <2>2 DEF IsInserted
<1>. HIDE DEF new
<1>3. ASSUME NEW n \in 0 .. Len(q) - 1
      PROVE  Shifted([key |-> n, value |-> q[n + 1]], index)
               = IF n < index THEN [key |-> n, value |-> new[n + 1]]
                 ELSE [key |-> n + 1, value |-> new[n + 2]]
  <2>1. CASE n < index
    <3>1. n + 1 \in 1 .. Len(q) + 1 /\ n + 1 < index + 1
      BY <1>1, <2>1
    <3>2. new[n + 1] = q[n + 1]
      BY <1>2, <3>1
    <3>. QED BY <2>1, <3>2 DEF Shifted
  <2>2. CASE ~(n < index)
    <3>1. PICK j \in 1 .. Len(q) + 1 : j = n + 2 /\ ~(j < index + 1) /\ j # index + 1 /\ j - 1 = n + 1
      BY <1>1, <2>2
    <3>2. new[j] = q[n + 1]
      BY <1>2, <3>1
    <3>. QED BY <2>2, <3>1, <3>2 DEF Shifted
  <2>. QED BY <2>1, <2>2
<1>4. ASSUME NEW r \in Records(new) PROVE r = r0 \/ \E t \in Records(q) : Shifted(t, index) = r
  <2>1. PICK n \in 0 .. Len(q) : r = [key |-> n, value |-> new[n + 1]]
    BY <1>1, <1>2, IsRecord
  <2>2. CASE n = index
    <3>1. new[index + 1] = v
      BY <1>1, <1>2
    <3>. QED BY <2>1, <2>2, <3>1
  <2>3. CASE n < index
    <3>1. n \in 0 .. Len(q) - 1
      BY <1>1, <2>3
    <3>2. [key |-> n, value |-> q[n + 1]] \in Records(q)
      BY <1>1, <3>1, IsRecord
    <3>3. Shifted([key |-> n, value |-> q[n + 1]], index) = r
      BY <1>3, <2>1, <2>3, <3>1
    <3>. QED BY <3>2, <3>3
  <2>4. CASE index < n
    <3>1. PICK m \in 0 .. Len(q) - 1 : m = n - 1 /\ m + 1 = n /\ m + 2 = n + 1 /\ ~(m < index)
      BY <1>1, <2>4
    <3>2. [key |-> m, value |-> q[m + 1]] \in Records(q)
      BY <1>1, <3>1, IsRecord
    <3>3. Shifted([key |-> m, value |-> q[m + 1]], index) = r
      BY <1>3, <2>1, <3>1
    <3>. QED BY <3>2, <3>3
  <2>. QED BY <1>1, <2>2, <2>3, <2>4
<1>5. r0 \in Records(new)
  <2>1. new[index + 1] = v /\ index \in 0 .. Len(new) - 1 /\ Len(new) \in Nat
    BY <1>1, <1>2
  <2>2. [key |-> index, value |-> new[index + 1]] \in Records(new)
    BY <2>1, IsRecord
  <2>. QED BY <2>1, <2>2
<1>6. ASSUME NEW t \in Records(q) PROVE Shifted(t, index) \in Records(new)
  <2>1. PICK n \in 0 .. Len(q) - 1 : t = [key |-> n, value |-> q[n + 1]]
    BY <1>1, IsRecord
  <2>2. /\ n \in 0 .. Len(new) - 1 /\ n + 1 \in 0 .. Len(new) - 1
        /\ n + 2 = (n + 1) + 1 /\ Len(new) \in Nat
    BY <1>1, <1>2
  <2>3. /\ [key |-> n, value |-> new[n + 1]] \in Records(new)
        /\ [key |-> n + 1, value |-> new[n + 2]] \in Records(new)
    BY <2>2, IsRecord
  <2>. QED BY <1>3, <2>1, <2>3
<1>. QED BY <1>4, <1>5, <1>6 DEF new

\* The records behind index, one back.
Unshifted(r, index) == IF r.key < index THEN r ELSE [key |-> r.key - 1, value |-> r.value]

LEMMA RemovesRecord ==
    ASSUME NEW q \in Seq(Word), NEW index \in 0 .. Len(q) - 1
    PROVE  Records(RemoveAt(q, index + 1))
             = {Unshifted(r, index) : r \in Records(q) \ {[key |-> index, value |-> q[index + 1]]}}
<1>. DEFINE new == RemoveAt(q, index + 1)
            r0 == [key |-> index, value |-> q[index + 1]]
<1>1. Len(q) \in Nat /\ index \in Nat /\ index + 1 \in 1 .. Len(q)
  OBVIOUS
<1>2. /\ Len(new) = Len(q) - 1 /\ Len(new) \in Nat
      /\ \A j \in 1 .. Len(q) - 1 : new[j] = IF j < index + 1 THEN q[j] ELSE q[j + 1]
  BY <1>1, RemoveAtIs
<1>. HIDE DEF new
<1>3. ASSUME NEW n \in 0 .. Len(q) - 1, n # index
      PROVE  Unshifted([key |-> n, value |-> q[n + 1]], index)
               = IF n < index THEN [key |-> n, value |-> new[n + 1]]
                 ELSE [key |-> n - 1, value |-> new[n]]
  <2>1. CASE n < index
    <3>1. n + 1 \in 1 .. Len(q) - 1 /\ n + 1 < index + 1
      BY <1>1, <2>1
    <3>2. new[n + 1] = q[n + 1]
      BY <1>2, <3>1
    <3>. QED BY <2>1, <3>2 DEF Unshifted
  <2>2. CASE ~(n < index)
    <3>1. n \in 1 .. Len(q) - 1 /\ ~(n < index + 1)
      BY <1>1, <1>3, <2>2
    <3>2. new[n] = q[n + 1]
      BY <1>2, <3>1
    <3>. QED BY <2>2, <3>2 DEF Unshifted
  <2>. QED BY <2>1, <2>2
<1>4. ASSUME NEW r \in Records(new) PROVE \E t \in Records(q) \ {r0} : Unshifted(t, index) = r
  <2>1. PICK n \in 0 .. Len(q) - 2 : r = [key |-> n, value |-> new[n + 1]]
    <3>1. PICK n \in 0 .. Len(new) - 1 : r = [key |-> n, value |-> new[n + 1]]
      BY <1>2, IsRecord
    <3>2. n \in 0 .. Len(q) - 2
      BY <1>1, <1>2
    <3>. QED BY <3>1, <3>2
  <2>2. CASE n < index
    <3>1. n \in 0 .. Len(q) - 1 /\ n # index
      BY <1>1, <2>2
    <3>2. [key |-> n, value |-> q[n + 1]] \in Records(q) \ {r0}
      BY <1>1, <3>1, IsRecord
    <3>3. Unshifted([key |-> n, value |-> q[n + 1]], index) = r
      BY <1>3, <2>1, <2>2, <3>1
    <3>. QED BY <3>2, <3>3
  <2>3. CASE ~(n < index)
    <3>1. PICK m \in 0 .. Len(q) - 1 : m = n + 1 /\ m - 1 = n /\ ~(m < index) /\ m # index
      BY <1>1, <2>3
    <3>2. [key |-> m, value |-> q[m + 1]] \in Records(q) \ {r0}
      BY <1>1, <3>1, IsRecord
    <3>3. Unshifted([key |-> m, value |-> q[m + 1]], index) = r
      BY <1>3, <2>1, <3>1
    <3>. QED BY <3>2, <3>3
  <2>. QED BY <2>2, <2>3
<1>5. ASSUME NEW t \in Records(q) \ {r0} PROVE Unshifted(t, index) \in Records(new)
  <2>1. PICK n \in 0 .. Len(q) - 1 : t = [key |-> n, value |-> q[n + 1]]
    BY <1>1, IsRecord
  <2>2. n # index
    BY <2>1
  <2>3. CASE n < index
    <3>1. n \in 0 .. Len(new) - 1
      BY <1>1, <1>2, <2>3
    <3>2. [key |-> n, value |-> new[n + 1]] \in Records(new)
      BY <1>2, <3>1, IsRecord
    <3>. QED BY <1>3, <2>1, <2>2, <2>3, <3>2
  <2>4. CASE ~(n < index)
    <3>1. PICK m \in 0 .. Len(new) - 1 : m = n - 1 /\ m + 1 = n
      BY <1>1, <1>2, <2>2, <2>4
    <3>2. [key |-> m, value |-> new[m + 1]] \in Records(new)
      BY <1>2, <3>1, IsRecord
    <3>. QED BY <1>3, <2>1, <2>2, <2>4, <3>1, <3>2
  <2>. QED BY <2>3, <2>4
<1>. QED BY <1>4, <1>5 DEF new

\* Renumbered elements are elements.
LEMMA RenumberedAre ==
    ASSUME NEW E, Orders(E), Elements(E), NEW s \in Source, NEW m, NEW F, Renumbered(F, E, s, m),
           \A r \in E[s] : m[r].key \in Nat
    PROVE  Orders(F) /\ Elements(F)
<1>1. \A t \in Source \ {s} : F[t] = E[t]
  BY DEF Renumbered
<1>2. IsFiniteSet(E[s]) /\ (\A r \in E[s] : r.key \in Nat) /\ (\A q, r \in E[s] : q.key = r.key => q = r)
  BY DEF Orders, Ordered
<1>3. IsFiniteSet(F[s])
  <2>. DEFINE A == E[s]
              B == F[s]
              f == [r \in A |-> m[r]]
  <2>1. f \in [A -> B] /\ \A r \in B : \E q \in A : f[q] = r
    BY DEF Renumbered
  <2>2. ASSUME NEW q \in A, NEW r \in A, f[q] = f[r] PROVE q = r
    <3>1. m[q].key = m[r].key /\ m[q].key \in Nat
      BY <2>2
    <3>2. ~(q.key < r.key) /\ ~(r.key < q.key)
      BY <3>1 DEF Renumbered
    <3>. QED BY <1>2, <3>2
  <2>. HIDE DEF f, A, B
  <2>3. f \in Injection(A, B) /\ f \in Surjection(A, B)
    BY <2>1, <2>2 DEF Injection, IsInjective, Surjection
  <2>4. f \in Bijection(A, B)
    BY <2>3 DEF Bijection
  <2>5. IsFiniteSet(A)
    BY <1>2 DEF A
  <2>6. IsFiniteSet(B)
    BY <2>4, <2>5, FS_Bijection DEF ExistsBijection
  <2>. QED BY <2>6 DEF B
<1>4. ASSUME NEW q \in F[s], NEW r \in F[s], q.key = r.key PROVE q = r
  <2>1. PICK a \in E[s], b \in E[s] : q = m[a] /\ r = m[b]
    BY DEF Renumbered
  <2>2. m[a].key \in Nat /\ m[b].key \in Nat /\ m[a].key = m[b].key
    BY <1>4, <2>1
  <2>3. ~(a.key < b.key) /\ ~(b.key < a.key)
    BY <2>2 DEF Renumbered
  <2>4. a = b
    BY <1>2, <2>3
  <2>. QED BY <2>1, <2>4
<1>5. \A r \in F[s] : r.key \in Nat /\ r.value \in Word
  <2>1. \A r \in E[s] : m[r].key \in Nat /\ m[r].value \in Word
    BY DEF Renumbered, Elements
  <2>. QED BY <2>1 DEF Renumbered
<1>6. Ordered(F[s])
  BY <1>3, <1>4, <1>5 DEF Ordered
<1>. QED BY <1>1, <1>5, <1>6 DEF Orders, Elements

-----------------------------------------------------------------------------
\* Insert keeps the backup true and dense.
LEMMA InsertKeepsList ==
    ASSUME NEW list, ListInv(list), NEW s \in Source, NEW index \in 0 .. Len(list.sources[s]),
           NEW v \in Word
    PROVE  LET new == InsertValue(list, s, index, v)
           IN  /\ ListInv(new)
               /\ new.sources = [list.sources EXCEPT ![s] = InsertAt(@, index + 1, v)]
<1>. DEFINE new == InsertValue(list, s, index, v)
            E == Filed(list.sources)
            G == Filed(new.sources)
            m == [r \in E[s] |-> Shifted(r, index)]
            F == [t \in Source |-> IF t = s THEN {m[r] : r \in E[s]} ELSE E[t]]
            r0 == [key |-> index, value |-> v]
<1>1. PICK q \in Seq(Word) : q = list.sources[s]
  BY DEF ListInv
<1>2. Len(q) \in Nat /\ index \in Nat /\ index \in 0 .. Len(q) /\ index + 1 \in 1 .. Len(q) + 1
  BY <1>1
<1>3. E[s] = Records(q) /\ Orders(E) /\ Elements(E)
  BY <1>1, FiledAre DEF ListInv, Filed
<1>4. /\ new.nodes = Grown(list.nodes, s, index, v)
      /\ new.sources = [list.sources EXCEPT ![s] = InsertAt(@, index + 1, v)]
  BY DEF InsertValue, Grown
<1>5. /\ new.sources \in [Source -> Seq(Word)] /\ new.sources[s] = InsertAt(q, index + 1, v)
      /\ \A t \in Source \ {s} : new.sources[t] = list.sources[t]
  <2>1. InsertAt(q, index + 1, v) \in Seq(Word)
    BY <1>2, Inserts
  <2>. HIDE DEF new
  <2>. QED BY <1>1, <1>4, <2>1 DEF ListInv
<1>. HIDE DEF new
<1>6. \A r \in E[s] : m[r] = Shifted(r, index) /\ r.key \in Nat
  BY <1>3 DEF Orders, Ordered
<1>7. /\ F[s] = {m[r] : r \in E[s]}
      /\ \A t \in Source \ {s} : F[t] = E[t]
  OBVIOUS
<1>8. G[s] = F[s] \cup {r0} /\ \A t \in Source \ {s} : G[t] = E[t]
  <2>1. G[s] = Records(InsertAt(q, index + 1, v)) /\ \A t \in Source \ {s} : G[t] = E[t]
    BY <1>5 DEF Filed
  <2>2. F[s] = {Shifted(r, index) : r \in Records(q)}
    BY <1>3
  <2>. HIDE DEF F, G, E
  <2>. QED BY <1>2, <2>1, <2>2, InsertsRecord
<1>. HIDE DEF m, F, E, G
<1>9. \A r \in E[s] : /\ m[r].value = r.value /\ m[r].key \in Nat
                      /\ m[r].key = IF r.key < index THEN r.key ELSE r.key + 1
  <2>. SUFFICES ASSUME NEW r \in E[s]
                PROVE  /\ m[r].value = r.value /\ m[r].key \in Nat
                       /\ m[r].key = IF r.key < index THEN r.key ELSE r.key + 1
    OBVIOUS
  <2>1. CASE r.key < index
    <3>1. m[r] = r
      BY <1>6, <2>1 DEF Shifted
    <3>. QED BY <1>6, <2>1, <3>1
  <2>2. CASE ~(r.key < index)
    <3>1. m[r] = [key |-> r.key + 1, value |-> r.value]
      BY <1>6, <2>2 DEF Shifted
    <3>. QED BY <1>6, <2>2, <3>1
  <2>. QED BY <2>1, <2>2
<1>10. Renumbered(F, E, s, m)
  <2>1. \A a, b \in E[s] : a.key < b.key => m[a].key < m[b].key
    BY <1>2, <1>6, <1>9
  <2>. QED BY <1>7, <1>9, <2>1 DEF Renumbered
<1>11. Orders(F) /\ Elements(F) /\ BacksUp(list.nodes, F)
  BY <1>3, <1>9, <1>10, RenumberedAre, RenumberKeeps DEF ListInv, E
<1>12. r0.key = index /\ r0.value = v /\ Adds(G, F, s, r0)
  BY <1>7, <1>8 DEF Adds
<1>13. \A r \in F[s] : r.key # index
  <2>1. \A r \in E[s] : m[r].key # index
    BY <1>2, <1>6, <1>9
  <2>. QED BY <1>7, <2>1
<1>14. Rank(F[s], index) = index
  <2>1. \A r \in E[s] : r.key < index => m[r] = r
    BY <1>6 DEF Shifted
  <2>2. \A r \in E[s] : m[r].key < index => r.key < index
    BY <1>2, <1>6, <1>9
  <2>3. Below(F[s], index) = Below(E[s], index)
    <3>1. \A r \in Below(F[s], index) : r \in Below(E[s], index)
      BY <1>7, <2>1, <2>2 DEF Below
    <3>2. \A r \in Below(E[s], index) : r \in Below(F[s], index)
      BY <1>7, <2>1 DEF Below
    <3>. QED BY <3>1, <3>2
  <2>4. Rank(E[s], index) = index
    BY <1>2, <1>3, RankOfRecord
  <2>. QED BY <2>3, <2>4 DEF Rank
<1>15. BacksUp(Grown(list.nodes, s, index, v), G) /\ Dense(Grown(list.nodes, s, index, v))
  <2>. HIDE DEF r0
  <2>1. Dense(list.nodes)
    BY DEF ListInv
  <2>. QED BY <1>2, <1>11, <1>12, <1>13, <1>14, <2>1, Grows
<1>. QED BY <1>4, <1>5, <1>15 DEF ListInv, new, G

\* Delete does too.
LEMMA DeleteKeepsList ==
    ASSUME NEW list, ListInv(list), NEW s \in Source, NEW index \in 0 .. Len(list.sources[s]) - 1
    PROVE  LET new == DeleteValue(list, s, index)
           IN  /\ ListInv(new)
               /\ new.sources = [list.sources EXCEPT ![s] = RemoveAt(@, index + 1)]
<1>. DEFINE new == DeleteValue(list, s, index)
            E == Filed(list.sources)
            G == Filed(new.sources)
            r0 == [key |-> index, value |-> list.sources[s][index + 1]]
            F == [t \in Source |-> IF t = s THEN E[s] \ {r0} ELSE E[t]]
            m == [r \in F[s] |-> Unshifted(r, index)]
<1>1. PICK q \in Seq(Word) : q = list.sources[s]
  BY DEF ListInv
<1>2. Len(q) \in Nat /\ index \in Nat /\ index \in 0 .. Len(q) - 1 /\ index \in 0 .. Len(q)
      /\ index + 1 \in 1 .. Len(q)
  BY <1>1
<1>3. E[s] = Records(q) /\ Orders(E) /\ Elements(E)
  BY <1>1, FiledAre DEF ListInv, Filed
<1>4. /\ new.nodes = Shrunk(list.nodes, s, index, r0.value)
      /\ new.sources = [list.sources EXCEPT ![s] = RemoveAt(@, index + 1)]
  BY DEF DeleteValue, Shrunk, Yielded
<1>5. /\ new.sources \in [Source -> Seq(Word)] /\ new.sources[s] = RemoveAt(q, index + 1)
      /\ \A t \in Source \ {s} : new.sources[t] = list.sources[t]
  <2>1. RemoveAt(q, index + 1) \in Seq(Word)
    BY <1>2, RemoveAtIs
  <2>. HIDE DEF new
  <2>. QED BY <1>1, <1>4, <2>1 DEF ListInv
<1>. HIDE DEF new
<1>6. r0 \in E[s] /\ r0.key = index
  BY <1>1, <1>2, <1>3, IsRecord
<1>7. F[s] = E[s] \ {r0} /\ \A t \in Source \ {s} : F[t] = E[t]
  OBVIOUS
<1>8. \A r \in F[s] : m[r] = Unshifted(r, index)
  OBVIOUS
<1>9. G[s] = {m[r] : r \in F[s]} /\ \A t \in Source \ {s} : G[t] = F[t]
  <2>1. G[s] = Records(RemoveAt(q, index + 1)) /\ \A t \in Source \ {s} : G[t] = E[t]
    BY <1>5 DEF Filed
  <2>2. r0 = [key |-> index, value |-> q[index + 1]]
    BY <1>1
  <2>. HIDE DEF F, G, E, r0
  <2>3. F[s] = Records(q) \ {[key |-> index, value |-> q[index + 1]]}
    BY <1>3, <1>7, <2>2
  <2>4. G[s] = {Unshifted(r, index) : r \in F[s]}
    BY <1>2, <2>1, <2>3, RemovesRecord
  <2>. QED BY <1>7, <2>1, <2>4
<1>. HIDE DEF m, F, E, G, r0
<1>10. Drops(F, E, s, r0) /\ Elements(F)
  BY <1>3, <1>7 DEF Drops, Elements
<1>11. \A r \in F[s] : r \in E[s] /\ r.key \in Nat /\ r.key # index
  BY <1>3, <1>6, <1>7 DEF Orders, Ordered
<1>12. \A r \in F[s] : /\ m[r].value = r.value
                       /\ m[r].key = IF r.key < index THEN r.key ELSE r.key - 1
  <2>. SUFFICES ASSUME NEW r \in F[s]
                PROVE  /\ m[r].value = r.value
                       /\ m[r].key = IF r.key < index THEN r.key ELSE r.key - 1
    OBVIOUS
  <2>1. CASE r.key < index
    <3>1. m[r] = r
      BY <1>8, <2>1 DEF Unshifted
    <3>. QED BY <2>1, <3>1
  <2>2. CASE ~(r.key < index)
    <3>1. m[r] = [key |-> r.key - 1, value |-> r.value]
      BY <1>8, <2>2 DEF Unshifted
    <3>. QED BY <2>2, <3>1
  <2>. QED BY <2>1, <2>2
<1>13. Renumbered(G, F, s, m)
  <2>1. \A a, b \in F[s] : a.key < b.key => m[a].key < m[b].key
    BY <1>2, <1>11, <1>12
  <2>. QED BY <1>9, <1>12, <2>1 DEF Renumbered
<1>14. Rank(E[s], r0.key) = index
  BY <1>2, <1>3, <1>6, RankOfRecord
<1>15. /\ BacksUp(Shrunk(list.nodes, s, index, r0.value), F)
       /\ Dense(Shrunk(list.nodes, s, index, r0.value))
  <2>1. Dense(list.nodes) /\ BacksUp(list.nodes, E)
    BY DEF ListInv, E
  <2>. QED BY <1>3, <1>6, <1>10, <1>14, <2>1, Shrinks
<1>16. BacksUp(Shrunk(list.nodes, s, index, r0.value), G)
  BY <1>13, <1>15, RenumberKeeps
<1>. QED BY <1>4, <1>5, <1>15, <1>16 DEF ListInv, new, G

-----------------------------------------------------------------------------
\* A source lost, the others known: Recover returns what it was.
LEMMA ListRecovers ==
    ASSUME NEW list, ListInv(list), NEW missing \in Source
    PROVE  LET survivors == [s \in Source \ {missing} |-> list.sources[s]]
           IN  /\ ListsFit(list, missing, survivors)
               /\ RecoverValues(list, missing, survivors) = list.sources[missing]
<1>. DEFINE nodes == list.nodes
            sources == list.sources
            E == Filed(sources)
            survivors == [s \in Source \ {missing} |-> sources[s]]
            q == sources[missing]
            Healthy(i) == nodes[i].bits \ {missing}
            element(i) == [s \in Healthy(i) |-> survivors[s][Before(nodes, s, i) + 1]]
            out(n) == Xor(nodes[NodeAt(nodes, missing, n - 1)].value,
                          XorOver(element(NodeAt(nodes, missing, n - 1)),
                                  Healthy(NodeAt(nodes, missing, n - 1))))
<1>1. sources \in [Source -> Seq(Word)] /\ nodes \in Seq(ListNode) /\ Len(nodes) \in Nat
  BY DEF ListInv, BacksUp
<1>2. PICK el : Placed(nodes, el, E) /\ Sums(nodes, el)
  BY DEF ListInv, BacksUp
<1>3. Orders(E) /\ Elements(E) /\ BitsTyped(nodes)
  BY <1>1, FiledAre, ListBits
<1>4. ASSUME NEW s \in Source
      PROVE  /\ Cardinality(Occupied(nodes, s)) = Len(sources[s])
             /\ Len(sources[s]) \in Nat
             /\ E[s] = Records(sources[s])
  <2>1. E[s] = Records(sources[s])
    BY DEF Filed
  <2>2. PICK p \in Seq(Word) : p = sources[s]
    BY <1>1
  <2>3. Len(p) \in Nat
    OBVIOUS
  <2>4. Cardinality(Records(p)) = Len(p)
    BY <2>3, RecordsAre
  <2>. HIDE DEF E, nodes
  <2>5. Cardinality(Occupied(nodes, s)) = Cardinality(E[s])
    BY <1>1, <1>2, <1>3, OccupiedIsOwned
  <2>. QED BY <2>1, <2>2, <2>3, <2>4, <2>5
<1>5. RecoverValues(list, missing, survivors)
        = [n \in 1 .. Cardinality(Occupied(nodes, missing)) |-> out(n)]
  BY DEF RecoverValues
<1>6. ASSUME NEW n \in 1 .. Len(q) PROVE out(n) = q[n]
  <2>. DEFINE i == NodeAt(nodes, missing, n - 1)
              v == [s \in Healthy(i) |-> el[i][s].value]
  <2>1. PICK r \in E[missing] : r.key = n - 1 /\ r.value = q[n]
    <3>1. n - 1 \in 0 .. Len(q) - 1 /\ (n - 1) + 1 = n
      BY <1>4
    <3>2. PICK p : p = q
      OBVIOUS
    <3>3. Len(p) \in Nat /\ n - 1 \in 0 .. Len(p) - 1 /\ E[missing] = Records(p)
      BY <1>4, <3>1, <3>2
    <3>4. PICK k \in 0 .. Len(p) - 1 : k = n - 1
      BY <3>3
    <3>5. \E r \in Records(p) : r.key = k /\ r.value = p[k + 1]
      BY <3>3, RecordsAre
    <3>. QED BY <3>1, <3>2, <3>3, <3>4, <3>5
  <2>2. Rank(E[missing], r.key) = n - 1
    <3>1. PICK p : p = q
      OBVIOUS
    <3>2. Len(p) \in Nat /\ n - 1 \in 0 .. Len(p) /\ E[missing] = Records(p)
      BY <1>4, <3>1
    <3>. QED BY <2>1, <3>2, RankOfRecord
  <2>3. i \in 1 .. Len(nodes) /\ Has(nodes, i, missing) /\ el[i][missing] = r
    <3>. HIDE DEF nodes, E
    <3>. QED BY <1>1, <1>2, <1>3, <2>2, NodeAtRank
  <2>. HIDE DEF i
  <2>4. Valued(el[i], nodes[i].bits) /\ nodes[i].bits \in SUBSET Source
        /\ nodes[i].value = XorValues(el[i], nodes[i].bits)
    <3>1. nodes[i].bits \in SUBSET Source
      BY <1>3, <2>3 DEF BitsTyped
    <3>2. nodes[i].value = XorValues(el[i], nodes[i].bits)
      BY <1>2, <2>3 DEF Sums, Sum
    <3>3. Valued(el[i], nodes[i].bits)
      <4>. HIDE DEF nodes, E
      <4>. QED BY <1>2, <1>3, <2>3, NodeValued
    <3>. QED BY <3>1, <3>2, <3>3
  <2>5. PICK S : S = Healthy(i) /\ S \in SUBSET Source /\ missing \notin S
                 /\ S \cup {missing} = nodes[i].bits
    <3>1. nodes[i].bits \in SUBSET Source /\ missing \in nodes[i].bits
      BY <2>3, <2>4 DEF Has
    <3>2. Healthy(i) = nodes[i].bits \ {missing}
      OBVIOUS
    <3>. HIDE DEF Healthy
    <3>. QED BY <3>1, <3>2
  <2>6. \A s \in S : element(i)[s] = v[s]
    <3>1. SUFFICES ASSUME NEW s \in S PROVE survivors[s][Before(nodes, s, i) + 1] = el[i][s].value
      BY <2>5
    <3>2. s \in Source /\ i \in Occupied(nodes, s)
      BY <1>1, <2>3, <2>5 DEF Occupied
    <3>3. el[i][s] \in E[s] /\ Before(nodes, s, i) = Rank(E[s], el[i][s].key)
      <4>. HIDE DEF nodes, E
      <4>. QED BY <1>1, <1>2, <1>3, <3>2, NodeRank
    <3>4. PICK p, t : p = sources[s] /\ t = el[i][s]
      OBVIOUS
    <3>5. Len(p) \in Nat /\ t \in Records(p) /\ E[s] = Records(p)
      BY <1>4, <3>2, <3>3, <3>4
    <3>6. t.key \in 0 .. Len(p) - 1 /\ t.value = p[t.key + 1]
      BY <3>5, RecordsAre
    <3>7. Rank(Records(p), t.key) = t.key
      BY <3>5, <3>6, RankOfRecord
    <3>8. survivors[s] = p
      BY <2>5, <3>2, <3>4
    <3>. QED BY <3>3, <3>4, <3>5, <3>6, <3>7, <3>8
  <2>7. XorOver(element(i), S) = XorOver(v, S)
    <3>1. IsFiniteSet(S)
      BY <2>5, SomeSources
    <3>. HIDE DEF element, v, Healthy
    <3>. QED BY <2>6, <3>1, XorOverSame
  <2>8. XorOver(v, S) = XorValues(el[i], S)
    BY <2>5 DEF XorValues
  <2>9. Valued(el[i], S \cup {missing}) /\ Valued(el[i], S)
        /\ el[i][missing].value = q[n] /\ q[n] \in Word
    <3>1. el[i][missing].value = q[n]
      BY <2>1, <2>3
    <3>2. Valued(el[i], S \cup {missing})
      BY <2>4, <2>5
    <3>3. el[i][missing].value \in Word /\ Valued(el[i], S)
      BY <3>2 DEF Valued
    <3>. QED BY <3>1, <3>2, <3>3
  <2>10. nodes[i].value = Xor(XorValues(el[i], S), q[n])
    <3>1. PICK cell : cell = el[i]
      OBVIOUS
    <3>2. Valued(cell, S \cup {missing}) /\ cell[missing].value = q[n]
      BY <2>9, <3>1
    <3>4. S \in SUBSET Source /\ missing \notin S
      BY <2>5
    <3>6. XorValues(cell, S \cup {missing}) = Xor(XorValues(cell, S), cell[missing].value)
      BY <3>2, <3>4, ValuesAdd
    <3>3. XorValues(cell, S \cup {missing}) = Xor(XorValues(cell, S), q[n])
      BY <3>2, <3>6
    <3>. QED BY <2>4, <2>5, <3>1, <3>3
  <2>11. XorValues(el[i], S) \in Word
    BY <2>5, <2>9, ValuesTyped
  <2>12. out(n) = Xor(nodes[i].value, XorOver(element(i), S))
    BY <2>5 DEF i
  <2>. HIDE DEF out
  <2>13. Xor(Xor(XorValues(el[i], S), q[n]), XorValues(el[i], S)) = q[n]
    BY <2>9, <2>11, XorLaws
  <2>. QED BY <2>7, <2>8, <2>10, <2>12, <2>13
<1>7. ListsFit(list, missing, survivors)
  BY <1>4 DEF ListsFit
<1>8. RecoverValues(list, missing, survivors) = q
  <2>1. RecoverValues(list, missing, survivors) = [n \in 1 .. Len(q) |-> out(n)]
    BY <1>4, <1>5
  <2>. HIDE DEF out
  <2>2. RecoverValues(list, missing, survivors) = [n \in 1 .. Len(q) |-> q[n]]
    BY <1>6, <2>1
  <2>3. q \in Seq(Word)
    BY <1>1
  <2>4. q = [n \in 1 .. Len(q) |-> q[n]]
    BY <2>3
  <2>. QED BY <2>2, <2>4
<1>. QED BY <1>7, <1>8

\* There are no nodes that no source needs.
LEMMA ListCovers ==
    ASSUME NEW list, ListInv(list)
    PROVE  /\ Len(list.nodes) \in Nat
           /\ \E runs : Covers(runs, list.sources, Len(list.nodes))
<1>. DEFINE nodes == list.nodes
            runs == [s \in Source |-> Occupied(nodes, s)]
<1>1. /\ list.sources \in [Source -> Seq(Word)] /\ nodes \in Seq(ListNode) /\ Len(nodes) \in Nat
      /\ Dense(nodes) /\ BitsTyped(nodes)
  BY ListBits DEF ListInv, BacksUp
<1>2. \A s \in Source : runs[s] \in SUBSET (1 .. Len(nodes))
  BY <1>1 DEF Occupied
<1>3. ASSUME NEW s \in Source PROVE Cardinality(runs[s]) = Len(list.sources[s])
  <2>2. PICK el : Placed(nodes, el, Filed(list.sources))
    BY DEF ListInv, BacksUp
  <2>3. Orders(Filed(list.sources))
    BY <1>1, FiledAre
  <2>4. PICK p \in Seq(Word) : p = list.sources[s]
    BY <1>1
  <2>5. Len(p) \in Nat /\ Filed(list.sources)[s] = Records(p)
    BY <2>4 DEF Filed
  <2>6. Cardinality(Records(p)) = Len(p)
    BY <2>5, RecordsAre
  <2>. HIDE DEF nodes
  <2>7. Cardinality(Occupied(nodes, s)) = Cardinality(Filed(list.sources)[s])
    BY <1>1, <2>2, <2>3, OccupiedIsOwned
  <2>. QED BY <2>4, <2>5, <2>6, <2>7
<1>4. ASSUME NEW i \in 1 .. Len(nodes) PROVE \E s \in Source : i \in runs[s]
  <2>1. nodes[i].bits # {} /\ nodes[i].bits \in SUBSET Source
    BY <1>1 DEF Dense, BitsTyped
  <2>. QED BY <1>1, <2>1 DEF Occupied
<1>5. DOMAIN list.sources = Source
  BY <1>1
<1>. HIDE DEF runs
<1>6. Covers(runs, list.sources, Len(nodes))
  BY <1>2, <1>3, <1>4, <1>5 DEF Covers
<1>. QED BY <1>1, <1>6

-----------------------------------------------------------------------------
(* Nodes that count: what a node of the queues' list holds                 *)

PathNode == [value : Word, refCount : Nat]

\* The node holds the words f[s] of the sources s \in S.
Bears(node, f, S) ==
    /\ IsFiniteSet(S) /\ WordsOn(f, S)
    /\ node \in PathNode
    /\ node.value = XorOver(f, S)
    /\ node.refCount = Cardinality(S)

LEMMA BearsSame ==
    ASSUME NEW node, NEW f, NEW S, Bears(node, f, S), NEW g, \A x \in S : g[x] = f[x]
    PROVE  Bears(node, g, S)
<1>1. XorOver(f, S) = XorOver(g, S)
  BY XorOverSame DEF Bears
<1>2. WordsOn(g, S)
  BY DEF Bears, WordsOn
<1>. QED BY <1>1, <1>2 DEF Bears

LEMMA BearsNone == \A f : Bears(FreshNode, f, {})
<1>1. 0 \in Word
  BY XorLaws
<1>2. FreshNode \in PathNode /\ FreshNode.value = 0 /\ FreshNode.refCount = 0
  BY <1>1 DEF FreshNode, PathNode
<1>3. IsFiniteSet({}) /\ Cardinality({}) = 0
  BY FS_EmptySet
<1>. QED BY <1>2, <1>3, XorOverEmpty DEF Bears, WordsOn

LEMMA BearsJoin ==
    ASSUME NEW node, NEW f, NEW S, Bears(node, f, S), NEW e, e \notin S, NEW v \in Word,
           NEW g, g[e] = v, \A x \in S : g[x] = f[x]
    PROVE  Bears(Joined(node, v), g, S \cup {e})
<1>1. Bears(node, g, S)
  BY BearsSame
<1>2. IsFiniteSet(S) /\ WordsOn(g, S) /\ node.value = XorOver(g, S) /\ node.refCount = Cardinality(S)
  BY <1>1 DEF Bears
<1>3. node.value \in Word /\ node.refCount \in Nat
  BY <1>1 DEF Bears, PathNode
<1>4. XorOver(g, S \cup {e}) = Xor(node.value, v)
  BY <1>2, XorOverAdd
<1>5. IsFiniteSet(S \cup {e}) /\ Cardinality(S \cup {e}) = node.refCount + 1
  BY <1>2, FS_AddElement
<1>6. WordsOn(g, S \cup {e})
  BY <1>2 DEF WordsOn
<1>7. Xor(node.value, v) \in Word
  BY <1>3, XorLaws
<1>8. Joined(node, v) \in PathNode /\ Joined(node, v).value = Xor(node.value, v)
      /\ Joined(node, v).refCount = node.refCount + 1
  BY <1>3, <1>7 DEF Joined, PathNode
<1>. QED BY <1>4, <1>5, <1>6, <1>8 DEF Bears

LEMMA BearsPart ==
    ASSUME NEW node, NEW f, NEW S, Bears(node, f, S), NEW e \in S, NEW v, v = f[e],
           NEW g, \A x \in S \ {e} : g[x] = f[x]
    PROVE  Bears(Parted(node, v), g, S \ {e})
<1>. PICK R : R = S \ {e}
  OBVIOUS
<1>1. IsFiniteSet(S) /\ WordsOn(f, S) /\ node.value = XorOver(f, S) /\ node.refCount = Cardinality(S)
  BY DEF Bears
<1>2. IsFiniteSet(R) /\ WordsOn(f, R) /\ WordsOn(g, R) /\ v \in Word
  BY <1>1, FS_Subset DEF WordsOn
<1>3. Cardinality(R) = Cardinality(S) - 1 /\ Cardinality(R) \in Nat
  BY <1>1, <1>2, FS_RemoveElement, FS_CardinalityType
<1>4. XorOver(g, R) = XorOver(f, R) /\ XorOver(f, R) \in Word
  BY <1>2, XorOverSame, XorOverTyped
<1>5. node.value = Xor(v, XorOver(f, R))
  BY <1>1, XorOverRemove
<1>6. Xor(node.value, v) = XorOver(g, R)
  BY <1>2, <1>4, <1>5, XorLaws
<1>7. Parted(node, v).value = XorOver(g, R) /\ Parted(node, v).refCount = Cardinality(R)
      /\ Parted(node, v) = [value |-> XorOver(g, R), refCount |-> Cardinality(R)]
  BY <1>1, <1>3, <1>6 DEF Parted
<1>8. Parted(node, v) \in PathNode
  BY <1>3, <1>4, <1>7 DEF PathNode
<1>. QED BY <1>2, <1>7, <1>8 DEF Bears

\* Two nodes as one.
Both(a, b) == [value |-> Xor(a.value, b.value), refCount |-> a.refCount + b.refCount]

LEMMA BearsBoth ==
    ASSUME NEW a, NEW b, NEW f, NEW g, NEW S, NEW T, Bears(a, f, S), Bears(b, g, T), S \cap T = {},
           NEW h, \A x \in S : h[x] = f[x], \A x \in T : h[x] = g[x]
    PROVE  Bears(Both(a, b), h, S \cup T)
<1>1. Bears(a, h, S) /\ Bears(b, h, T)
  BY BearsSame
<1>2. /\ IsFiniteSet(S) /\ WordsOn(h, S) /\ a.value = XorOver(h, S) /\ a.refCount = Cardinality(S)
      /\ IsFiniteSet(T) /\ WordsOn(h, T) /\ b.value = XorOver(h, T) /\ b.refCount = Cardinality(T)
  BY <1>1 DEF Bears
<1>3. a.value \in Word /\ b.value \in Word /\ a.refCount \in Nat /\ b.refCount \in Nat
  BY <1>1 DEF Bears, PathNode
<1>4. XorOver(h, S \cup T) = Xor(a.value, b.value)
  BY <1>2, XorOverUnion
<1>5. IsFiniteSet(S \cup T) /\ Cardinality(S \cup T) = a.refCount + b.refCount
  <2>1. Cardinality(S \cap T) = 0
    BY FS_EmptySet
  <2>2. IsFiniteSet(S \cup T) /\ Cardinality(S \cup T) = a.refCount + b.refCount - Cardinality(S \cap T)
    BY <1>2, FS_Union
  <2>. QED BY <1>3, <2>1, <2>2
<1>6. WordsOn(h, S \cup T)
  BY <1>2 DEF WordsOn
<1>7. Xor(a.value, b.value) \in Word
  BY <1>3, XorLaws
<1>8. Both(a, b) \in PathNode /\ Both(a, b).value = Xor(a.value, b.value)
      /\ Both(a, b).refCount = a.refCount + b.refCount
  BY <1>3, <1>7 DEF Both, PathNode
<1>. QED BY <1>4, <1>5, <1>6, <1>8 DEF Bears

\* A node that counts nothing holds nothing, one that counts one holds that.
LEMMA BearsFew ==
    ASSUME NEW node, NEW f, NEW S, Bears(node, f, S)
    PROVE  /\ node.refCount = 0 <=> S = {}
           /\ \A e \in S : node.refCount = 1 => S = {e}
           /\ node.refCount > 0 <=> S # {}
<1>1. IsFiniteSet(S) /\ node.refCount = Cardinality(S) /\ Cardinality(S) \in Nat
  BY FS_CardinalityType DEF Bears
<1>2. Cardinality(S) = 0 <=> S = {}
  BY <1>1, FS_EmptySet
<1>3. \A e \in S : Cardinality(S) = 1 => S = {e}
  BY <1>1, FS_Singleton
<1>. QED BY <1>1, <1>2, <1>3

-----------------------------------------------------------------------------
(* The list of the queues: every source has a run of nodes                 *)

\* The element of source s in node i.
Elem(path, own, i, s) == own[s][i - path.heads[s] + 1]
At(path, own, i) == [s \in Source |-> Elem(path, own, i, s)]

On(path, i) == {s \in Source : i \in Run(path, s)}

\* The run of a source is as long as the source, and on the list.
Window(path, own, s) ==
    IF own[s] = <<>>
    THEN path.heads[s] = 0 /\ path.tails[s] = 0
    ELSE /\ path.heads[s] >= 1 /\ path.tails[s] <= Len(path.nodes)
         /\ path.tails[s] = path.heads[s] + Len(own[s]) - 1

Shaped(path, own) ==
    /\ path.nodes \in Seq(PathNode)
    /\ path.heads \in [Source -> Nat] /\ path.tails \in [Source -> Nat]
    /\ \A s \in Source : own[s] \in Seq(Word) /\ Window(path, own, s)

\* The list backs up the sources.
Backs(path, own) ==
    /\ Shaped(path, own)
    /\ \A i \in 1 .. Len(path.nodes) : Bears(path.nodes[i], At(path, own, i), On(path, i))

\* No node is on no run.
Counted(path) == \A i \in 1 .. Len(path.nodes) : path.nodes[i].refCount > 0

LEMMA RunIs ==
    ASSUME NEW path, NEW own, Shaped(path, own), NEW s \in Source
    PROVE  /\ own[s] = <<>> => Run(path, s) = {} /\ path.heads[s] = 0 /\ path.tails[s] = 0
           /\ own[s] # <<>> => /\ Run(path, s) = path.heads[s] .. path.tails[s]
                               /\ path.heads[s] \in 1 .. Len(path.nodes)
                               /\ path.tails[s] \in 1 .. Len(path.nodes)
                               /\ path.tails[s] = path.heads[s] + Len(own[s]) - 1
           /\ Run(path, s) \subseteq 1 .. Len(path.nodes)
           /\ Len(own[s]) \in Nat /\ (own[s] # <<>> => Len(own[s]) >= 1)
           /\ path.heads[s] \in Nat /\ path.tails[s] \in Nat
           /\ Len(path.nodes) \in Nat
<1>1. /\ path.heads[s] \in Nat /\ path.tails[s] \in Nat /\ Len(path.nodes) \in Nat
      /\ own[s] \in Seq(Word) /\ Window(path, own, s)
  BY DEF Shaped
<1>2. Len(own[s]) \in Nat /\ (own[s] # <<>> => Len(own[s]) >= 1)
  BY <1>1
<1>3. CASE own[s] = <<>>
  BY <1>1, <1>2, <1>3 DEF Window, Run
<1>4. CASE own[s] # <<>>
  <2>1. /\ path.heads[s] >= 1 /\ path.tails[s] <= Len(path.nodes)
        /\ path.tails[s] = path.heads[s] + Len(own[s]) - 1
    BY <1>1, <1>4 DEF Window
  <2>2. Run(path, s) = path.heads[s] .. path.tails[s]
    BY <1>1, <2>1 DEF Run
  <2>3. path.heads[s] <= path.tails[s]
    BY <1>1, <1>2, <1>4, <2>1
  <2>. QED BY <1>1, <1>2, <1>4, <2>1, <2>2, <2>3
<1>. QED BY <1>3, <1>4

\* Source s has one element more in new: v, in node at, which is at an end of
\* its run.
Lengthens(path, own, new, F, s, at, v) ==
    /\ at \in 1 .. Len(path.nodes) /\ Len(new.nodes) = Len(path.nodes)
    /\ at \notin Run(path, s) /\ Run(new, s) = Run(path, s) \cup {at}
    /\ Elem(new, F, at, s) = v
    /\ \A i \in Run(path, s) : Elem(new, F, i, s) = Elem(path, own, i, s)

\* Everything but source s and node at is the same.
Others(path, own, new, F, s, at) ==
    /\ \A t \in Source : t # s => /\ F[t] = own[t]
                                  /\ new.heads[t] = path.heads[t] /\ new.tails[t] = path.tails[t]
    /\ \A i \in 1 .. Len(path.nodes) : i # at => new.nodes[i] = path.nodes[i]

LEMMA OtherRuns ==
    ASSUME NEW path, NEW own, NEW new, NEW F, NEW s, NEW at, Others(path, own, new, F, s, at),
           NEW t \in Source, t # s
    PROVE  Run(new, t) = Run(path, t) /\ \A i : Elem(new, F, i, t) = Elem(path, own, i, t)
BY DEF Others, Run, Elem

\* A node takes an element in.
LEMMA JoinBacks ==
    ASSUME NEW path, NEW own, Backs(path, own), NEW new, NEW F, Shaped(new, F),
           NEW s \in Source, NEW at, NEW v \in Word,
           Lengthens(path, own, new, F, s, at, v), Others(path, own, new, F, s, at),
           new.nodes[at] = Joined(path.nodes[at], v)
    PROVE  Backs(new, F)
<1>1. ASSUME NEW i \in 1 .. Len(new.nodes)
      PROVE  Bears(new.nodes[i], At(new, F, i), On(new, i))
  <2>1. i \in 1 .. Len(path.nodes) /\ Bears(path.nodes[i], At(path, own, i), On(path, i))
    BY DEF Lengthens, Backs
  <2>2. ASSUME NEW t \in On(path, i) PROVE At(new, F, i)[t] = At(path, own, i)[t]
    <3>1. t \in Source /\ i \in Run(path, t)
      BY DEF On
    <3>2. Elem(new, F, i, t) = Elem(path, own, i, t)
      BY <3>1, OtherRuns DEF Lengthens
    <3>. QED BY <3>1, <3>2 DEF At
  <2>3. CASE i # at
    <3>1. On(new, i) = On(path, i)
      <4>1. ASSUME NEW t \in Source PROVE i \in Run(new, t) <=> i \in Run(path, t)
        BY <2>3, OtherRuns DEF Lengthens
      <4>. QED BY <4>1 DEF On
    <3>2. new.nodes[i] = path.nodes[i]
      BY <2>1, <2>3 DEF Others
    <3>. QED BY <2>1, <2>2, <3>1, <3>2, BearsSame
  <2>4. CASE i = at
    <3>1. On(new, i) = On(path, i) \cup {s} /\ s \notin On(path, i)
      <4>1. ASSUME NEW t \in Source PROVE i \in Run(new, t) <=> i \in Run(path, t) \/ t = s
        BY <2>4, OtherRuns DEF Lengthens
      <4>2. i \notin Run(path, s)
        BY <2>4 DEF Lengthens
      <4>. QED BY <4>1, <4>2 DEF On
    <3>2. At(new, F, i)[s] = v
      BY <2>4 DEF Lengthens, At
    <3>. QED BY <2>1, <2>2, <2>4, <3>1, <3>2, BearsJoin
  <2>. QED BY <2>3, <2>4
<1>. QED BY <1>1 DEF Backs

\* A node gives an element up.
LEMMA PartBacks ==
    ASSUME NEW path, NEW own, Backs(path, own), NEW new, NEW F, Shaped(new, F),
           NEW s \in Source, NEW at, NEW v,
           Lengthens(new, F, path, own, s, at, v), Others(path, own, new, F, s, at),
           new.nodes[at] = Parted(path.nodes[at], v)
    PROVE  Backs(new, F)
<1>1. ASSUME NEW i \in 1 .. Len(new.nodes)
      PROVE  Bears(new.nodes[i], At(new, F, i), On(new, i))
  <2>1. i \in 1 .. Len(path.nodes) /\ Bears(path.nodes[i], At(path, own, i), On(path, i))
    BY DEF Lengthens, Backs
  <2>2. ASSUME NEW t \in On(new, i) PROVE At(new, F, i)[t] = At(path, own, i)[t]
    <3>1. t \in Source /\ i \in Run(new, t)
      BY DEF On
    <3>2. Elem(new, F, i, t) = Elem(path, own, i, t)
      BY <3>1, OtherRuns DEF Lengthens
    <3>. QED BY <3>1, <3>2 DEF At
  <2>3. CASE i # at
    <3>1. On(new, i) = On(path, i)
      <4>1. ASSUME NEW t \in Source PROVE i \in Run(new, t) <=> i \in Run(path, t)
        BY <2>3, OtherRuns DEF Lengthens
      <4>. QED BY <4>1 DEF On
    <3>2. new.nodes[i] = path.nodes[i]
      BY <2>1, <2>3 DEF Others
    <3>3. Bears(new.nodes[i], At(path, own, i), On(new, i))
      BY <2>1, <3>1, <3>2
    <3>. QED BY <2>2, <3>3, BearsSame
  <2>4. CASE i = at
    <3>1. On(new, i) = On(path, i) \ {s} /\ s \in On(path, i)
      <4>1. ASSUME NEW t \in Source PROVE i \in Run(path, t) <=> i \in Run(new, t) \/ t = s
        BY <2>4, OtherRuns DEF Lengthens
      <4>2. i \notin Run(new, s)
        BY <2>4 DEF Lengthens
      <4>. QED BY <4>1, <4>2 DEF On
    <3>2. At(path, own, i)[s] = v
      BY <2>4 DEF Lengthens, At
    <3>3. PICK f, g, S : f = At(path, own, i) /\ g = At(new, F, i) /\ S = On(path, i)
      OBVIOUS
    <3>4. Bears(Parted(path.nodes[i], v), g, S \ {s})
      BY <2>1, <2>2, <3>1, <3>2, <3>3, BearsPart
    <3>. QED BY <2>4, <3>1, <3>3, <3>4
  <2>. QED BY <2>3, <2>4
<1>. QED BY <1>1 DEF Backs

-----------------------------------------------------------------------------
(* Nodes that come and go                                                  *)

\* In new, the node of every element of path is k further on.
Displaced(path, new, own, k) ==
    \A s \in Source : /\ new.heads[s] = IF own[s] = <<>> THEN 0 ELSE path.heads[s] + k
                      /\ new.tails[s] = IF own[s] = <<>> THEN 0 ELSE path.tails[s] + k

LEMMA DisplacedRuns ==
    ASSUME NEW path, NEW own, Shaped(path, own), NEW k \in Nat, NEW new, Displaced(path, new, own, k),
           NEW s \in Source, NEW i \in Int
    PROVE  /\ i + k \in Run(new, s) <=> i \in Run(path, s)
           /\ i \in Run(path, s) => Elem(new, own, i + k, s) = Elem(path, own, i, s)
<1>1. CASE own[s] = <<>>
  BY <1>1, RunIs DEF Displaced, Run
<1>2. CASE own[s] # <<>>
  <2>1. /\ Run(path, s) = path.heads[s] .. path.tails[s]
        /\ path.heads[s] \in Nat /\ path.heads[s] >= 1 /\ path.tails[s] \in Nat
    BY <1>2, RunIs
  <2>2. new.heads[s] = path.heads[s] + k /\ new.tails[s] = path.tails[s] + k
    BY <1>2 DEF Displaced
  <2>3. Run(new, s) = path.heads[s] + k .. path.tails[s] + k
    BY <2>1, <2>2 DEF Run
  <2>4. i + k \in Run(new, s) <=> i \in Run(path, s)
    BY <2>1, <2>3
  <2>5. i + k - new.heads[s] + 1 = i - path.heads[s] + 1
    BY <2>1, <2>2
  <2>6. Elem(new, own, i + k, s) = Elem(path, own, i, s)
    <3>1. PICK h, m : h = path.heads[s] /\ m = i + k
      OBVIOUS
    <3>2. PICK g : g = new.heads[s]
      OBVIOUS
    <3>3. h \in Nat /\ m \in Int /\ g = h + k /\ m = i + k
      BY <2>1, <2>2, <3>1, <3>2
    <3>4. PICK j : j = m - g + 1 /\ j = i - h + 1
      BY <3>3
    <3>5. Elem(new, own, m, s) = own[s][j]
      BY <3>2, <3>3, <3>4 DEF Elem
    <3>6. Elem(path, own, i, s) = own[s][j]
      BY <3>1, <3>3, <3>4 DEF Elem
    <3>. QED BY <3>1, <3>5, <3>6
  <2>. QED BY <2>4, <2>6
<1>. QED BY <1>1, <1>2

\* A fresh node at the end.
LEMMA AppendBacks ==
    ASSUME NEW path, NEW own, Backs(path, own), NEW new,
           new.nodes = Append(path.nodes, FreshNode),
           new.heads = path.heads, new.tails = path.tails
    PROVE  Backs(new, own) /\ Len(new.nodes) = Len(path.nodes) + 1
<1>. PICK n \in Nat : n = Len(path.nodes)
  BY DEF Backs, Shaped
<1>1. FreshNode \in PathNode
  BY BearsNone DEF Bears
<1>2. /\ new.nodes \in Seq(PathNode) /\ Len(new.nodes) = n + 1
      /\ \A i \in 1 .. n : new.nodes[i] = path.nodes[i]
      /\ new.nodes[n + 1] = FreshNode
  BY <1>1 DEF Backs, Shaped
<1>3. Shaped(path, own)
  BY DEF Backs
<1>4. \A s \in Source : Run(new, s) = Run(path, s) /\ Window(new, own, s)
  <2>1. SUFFICES ASSUME NEW s \in Source PROVE Run(new, s) = Run(path, s) /\ Window(new, own, s)
    OBVIOUS
  <2>2. Run(new, s) = Run(path, s)
    BY DEF Run
  <2>3. path.tails[s] \in Nat /\ Window(path, own, s)
    BY <1>3 DEF Shaped
  <2>4. Window(new, own, s)
    BY <1>2, <2>3 DEF Window
  <2>. QED BY <2>2, <2>4
<1>5. Shaped(new, own)
  BY <1>2, <1>3, <1>4 DEF Shaped
<1>6. ASSUME NEW i \in 1 .. n + 1 PROVE Bears(new.nodes[i], At(new, own, i), On(new, i))
  <2>1. On(new, i) = On(path, i) /\ At(new, own, i) = At(path, own, i)
    BY <1>4 DEF On, At, Elem
  <2>2. CASE i = n + 1
    <3>1. \A s \in Source : i \notin Run(path, s)
      BY <1>3, <2>2, RunIs
    <3>2. On(new, i) = {}
      BY <2>1, <3>1 DEF On
    <3>. QED BY <1>2, <2>2, <3>2, BearsNone
  <2>3. CASE i # n + 1
    BY <1>2, <2>1, <2>3 DEF Backs
  <2>. QED BY <2>2, <2>3
<1>. QED BY <1>2, <1>5, <1>6 DEF Backs

\* A fresh node before all others.
LEMMA PrependBacks ==
    ASSUME NEW path, NEW own, Backs(path, own)
    PROVE  /\ Backs(PrependNode(path), own)
           /\ Len(PrependNode(path).nodes) = Len(path.nodes) + 1
           /\ \A i \in 1 .. Len(path.nodes) : PrependNode(path).nodes[i + 1] = path.nodes[i]
           /\ Displaced(path, PrependNode(path), own, 1)
<1>. PICK n \in Nat : n = Len(path.nodes)
  BY DEF Backs, Shaped
<1>. PICK new : new = PrependNode(path)
  OBVIOUS
<1>1. Shaped(path, own)
  BY DEF Backs
<1>2. FreshNode \in PathNode
  BY BearsNone DEF Bears
<1>3. new.nodes = <<FreshNode>> \o path.nodes
  BY DEF PrependNode
<1>4. /\ new.nodes \in Seq(PathNode) /\ Len(new.nodes) = n + 1 /\ new.nodes[1] = FreshNode
      /\ \A i \in 1 .. n : new.nodes[i + 1] = path.nodes[i]
  BY <1>1, <1>2, <1>3 DEF Shaped
<1>5. /\ new.heads = [s \in Source |-> IF path.heads[s] = 0 THEN 0 ELSE path.heads[s] + 1]
      /\ new.tails = [s \in Source |-> IF path.tails[s] = 0 THEN 0 ELSE path.tails[s] + 1]
  BY DEF PrependNode
<1>6. Displaced(path, new, own, 1)
  <2>1. ASSUME NEW s \in Source
        PROVE  /\ new.heads[s] = IF own[s] = <<>> THEN 0 ELSE path.heads[s] + 1
               /\ new.tails[s] = IF own[s] = <<>> THEN 0 ELSE path.tails[s] + 1
    BY <1>1, <1>5, RunIs
  <2>. QED BY <2>1 DEF Displaced
<1>7. new.heads \in [Source -> Nat] /\ new.tails \in [Source -> Nat]
  BY <1>1, <1>5 DEF Shaped
<1>8. ASSUME NEW s \in Source PROVE own[s] \in Seq(Word) /\ Window(new, own, s)
  <2>1. own[s] \in Seq(Word) /\ Window(path, own, s) /\ path.heads[s] \in Nat /\ path.tails[s] \in Nat
    BY <1>1 DEF Shaped
  <2>2. Len(own[s]) \in Nat
    BY <2>1
  <2>3. /\ new.heads[s] = IF own[s] = <<>> THEN 0 ELSE path.heads[s] + 1
        /\ new.tails[s] = IF own[s] = <<>> THEN 0 ELSE path.tails[s] + 1
    BY <1>6 DEF Displaced
  <2>4. Window(new, own, s)
    <3>1. CASE own[s] = <<>>
      BY <2>3, <3>1 DEF Window
    <3>2. CASE own[s] # <<>>
      <4>1. /\ path.heads[s] >= 1 /\ path.tails[s] <= n
            /\ path.tails[s] = path.heads[s] + Len(own[s]) - 1
        BY <2>1, <3>2 DEF Window
      <4>2. new.heads[s] = path.heads[s] + 1 /\ new.tails[s] = path.tails[s] + 1
        BY <2>3, <3>2
      <4>3. new.heads[s] >= 1 /\ new.tails[s] <= n + 1
        BY <2>1, <4>1, <4>2
      <4>4. new.tails[s] = new.heads[s] + Len(own[s]) - 1
        <5>1. PICK m \in Nat : m = Len(own[s])
          BY <2>2
        <5>2. path.tails[s] = path.heads[s] + m - 1
          BY <4>1, <5>1
        <5>3. new.tails[s] = new.heads[s] + m - 1
          BY <2>1, <4>2, <5>2
        <5>. QED BY <5>1, <5>3
      <4>. QED BY <1>4, <3>2, <4>3, <4>4 DEF Window
    <3>. QED BY <3>1, <3>2
  <2>. QED BY <2>1, <2>4
<1>9. Shaped(new, own)
  BY <1>4, <1>7, <1>8 DEF Shaped
<1>10. ASSUME NEW i \in 1 .. n + 1 PROVE Bears(new.nodes[i], At(new, own, i), On(new, i))
  <2>1. ASSUME NEW s \in Source
        PROVE  /\ i \in Run(new, s) <=> i - 1 \in Run(path, s)
               /\ i - 1 \in Run(path, s) => Elem(new, own, i, s) = Elem(path, own, i - 1, s)
    <3>1. i - 1 \in Int /\ i - 1 + 1 = i
      OBVIOUS
    <3>. PICK j \in Int : j = i - 1 /\ j + 1 = i
      BY <3>1
    <3>2. s \in Source /\ j \in Int /\ 1 \in Nat
      OBVIOUS
    <3>3. /\ j + 1 \in Run(new, s) <=> j \in Run(path, s)
          /\ j \in Run(path, s) => Elem(new, own, j + 1, s) = Elem(path, own, j, s)
      BY ONLY <1>1, <1>6, <3>2, DisplacedRuns
    <3>. QED BY <3>3
  <2>2. On(new, i) = On(path, i - 1)
    BY <2>1 DEF On
  <2>3. CASE i = 1
    <3>1. \A s \in Source : i - 1 \notin Run(path, s)
      BY <1>1, <2>3, RunIs
    <3>2. On(new, i) = {}
      BY <2>2, <3>1 DEF On
    <3>. QED BY <1>4, <2>3, <3>2, BearsNone
  <2>4. CASE i # 1
    <3>1. i - 1 \in 1 .. n /\ new.nodes[i] = path.nodes[i - 1]
      BY <1>4, <2>4
    <3>2. Bears(path.nodes[i - 1], At(path, own, i - 1), On(path, i - 1))
      BY <3>1 DEF Backs
    <3>3. \A s \in On(path, i - 1) : At(new, own, i)[s] = At(path, own, i - 1)[s]
      BY <2>1 DEF On, At
    <3>. QED BY <2>2, <3>1, <3>2, <3>3, BearsSame
  <2>. QED BY <2>3, <2>4
<1>11. Backs(new, own)
  BY <1>4, <1>9, <1>10 DEF Backs
<1>. QED BY <1>4, <1>6, <1>11

\* PathNode i and the node after it are one node of new; when i is the last, it is
\* gone.
Collapsed(path, new, i) ==
    /\ i \in 1 .. Len(path.nodes)
    /\ new.nodes \in Seq(PathNode) /\ Len(new.nodes) = Len(path.nodes) - 1
    /\ \A j \in 1 .. Len(path.nodes) - 1 :
          new.nodes[j] = IF j < i THEN path.nodes[j]
                         ELSE IF j = i THEN Both(path.nodes[i], path.nodes[i + 1])
                         ELSE path.nodes[j + 1]
    /\ new.heads \in [Source -> Nat] /\ new.tails \in [Source -> Nat]
    /\ \A s \in Source :
          /\ new.heads[s] = IF path.heads[s] > i THEN path.heads[s] - 1 ELSE path.heads[s]
          /\ new.tails[s] = IF path.tails[s] > i THEN path.tails[s] - 1 ELSE path.tails[s]

\* No run needs both nodes.
Separate(path, i) ==
    /\ \A s \in Source : ~(i \in Run(path, s) /\ i + 1 \in Run(path, s))
    /\ i = Len(path.nodes) => On(path, i) = {}

\* The run of source s ends at node i or before, and is the same in new.
Stays(path, new, own, i, s) ==
    /\ new.heads[s] = path.heads[s] /\ new.tails[s] = path.tails[s]
    /\ \A j \in Run(path, s) : j <= i /\ j < Len(path.nodes)

\* The run of source s begins after node i, and one node earlier in new.
Slides(path, new, own, i, s) ==
    /\ new.heads[s] = path.heads[s] - 1 /\ new.tails[s] = path.tails[s] - 1
    /\ own[s] # <<>>
    /\ \A j \in Run(path, s) : j > i

LEMMA StaysOrSlides ==
    ASSUME NEW path, NEW own, Shaped(path, own), NEW i, NEW new, Collapsed(path, new, i), Separate(path, i),
           NEW s \in Source
    PROVE  Stays(path, new, own, i, s) \/ Slides(path, new, own, i, s)
<1>. PICK n \in Nat : n = Len(path.nodes)
  BY DEF Shaped
<1>1. i \in 1 .. n /\ path.heads[s] \in Nat /\ path.tails[s] \in Nat
  BY RunIs DEF Collapsed
<1>2. /\ new.heads[s] = IF path.heads[s] > i THEN path.heads[s] - 1 ELSE path.heads[s]
      /\ new.tails[s] = IF path.tails[s] > i THEN path.tails[s] - 1 ELSE path.tails[s]
  BY DEF Collapsed
<1>3. CASE own[s] = <<>>
  <2>1. path.heads[s] = 0 /\ path.tails[s] = 0 /\ Run(path, s) = {}
    BY <1>3, RunIs
  <2>. QED BY <1>1, <1>2, <2>1 DEF Stays
<1>4. CASE own[s] # <<>>
  <2>1. /\ Run(path, s) = path.heads[s] .. path.tails[s]
        /\ path.heads[s] \in 1 .. n /\ path.tails[s] \in 1 .. n
        /\ path.heads[s] <= path.tails[s]
    <3>1. /\ path.tails[s] = path.heads[s] + Len(own[s]) - 1
          /\ Len(own[s]) \in Nat /\ Len(own[s]) >= 1
      BY <1>4, RunIs
    <3>2. path.heads[s] <= path.tails[s]
      BY <1>1, <3>1
    <3>. QED BY <1>4, <3>2, RunIs
  <2>2. ~(i \in Run(path, s) /\ i + 1 \in Run(path, s)) /\ (i = n => i \notin Run(path, s))
    BY DEF Separate, On
  <2>3. CASE path.heads[s] > i
    <3>1. path.tails[s] > i
      BY <1>1, <2>1, <2>3
    <3>2. \A j \in Run(path, s) : j > i
      BY <1>1, <2>1, <2>3
    <3>. QED BY <1>2, <1>4, <2>3, <3>1, <3>2 DEF Slides
  <2>4. CASE ~(path.heads[s] > i)
    <3>1. path.tails[s] <= i /\ (i = n => path.tails[s] < n)
      BY <1>1, <2>1, <2>2, <2>4
    <3>2. \A j \in Run(path, s) : j <= i /\ j < n
      BY <1>1, <2>1, <3>1
    <3>3. ~(path.tails[s] > i)
      BY <1>1, <3>1
    <3>. QED BY <1>2, <2>4, <3>2, <3>3 DEF Stays
  <2>. QED BY <2>3, <2>4
<1>. QED BY <1>3, <1>4

LEMMA StaysIs ==
    ASSUME NEW path, NEW own, NEW i, NEW new, NEW s, Stays(path, new, own, i, s)
    PROVE  Run(new, s) = Run(path, s) /\ \A j : Elem(new, own, j, s) = Elem(path, own, j, s)
BY DEF Stays, Run, Elem

LEMMA SlidesIs ==
    ASSUME NEW path, NEW own, Shaped(path, own), NEW i \in Int, NEW new, i >= 1,
           NEW s \in Source, Slides(path, new, own, i, s), NEW j \in Int
    PROVE  /\ j \in Run(new, s) <=> j + 1 \in Run(path, s)
           /\ Elem(new, own, j, s) = Elem(path, own, j + 1, s)
<1>. PICK h, t : h = path.heads[s] /\ t = path.tails[s]
  OBVIOUS
<1>1. own[s] # <<>> /\ new.heads[s] = h - 1 /\ new.tails[s] = t - 1
  BY DEF Slides
<1>2. Run(path, s) = h .. t /\ h \in Nat /\ t \in Nat /\ h <= t
  <2>1. t = h + Len(own[s]) - 1 /\ Len(own[s]) \in Nat /\ Len(own[s]) >= 1 /\ h \in Nat /\ t \in Nat
    BY <1>1, RunIs
  <2>2. h <= t
    BY <2>1
  <2>. QED BY <1>1, <2>1, <2>2, RunIs
<1>3. h > i
  BY <1>2 DEF Slides
<1>4. Run(new, s) = h - 1 .. t - 1
  BY <1>1, <1>2, <1>3 DEF Run
<1>5. j \in Run(new, s) <=> j + 1 \in Run(path, s)
  BY <1>2, <1>4
<1>6. Elem(new, own, j, s) = Elem(path, own, j + 1, s)
  <2>1. PICK m, g : m = j + 1 /\ g = new.heads[s] /\ g = h - 1
    BY <1>1
  <2>2. PICK k : k = m - h + 1 /\ k = j - g + 1
    BY <1>2, <2>1
  <2>3. Elem(new, own, j, s) = own[s][k]
    BY <1>2, <2>1, <2>2 DEF Elem
  <2>4. Elem(path, own, m, s) = own[s][k]
    BY <1>2, <2>1, <2>2 DEF Elem
  <2>. QED BY <2>1, <2>3, <2>4
<1>. QED BY <1>5, <1>6

LEMMA CollapsedShaped ==
    ASSUME NEW path, NEW own, Shaped(path, own), NEW i, NEW new, Collapsed(path, new, i), Separate(path, i)
    PROVE  Shaped(new, own)
<1>. PICK n \in Nat : n = Len(path.nodes)
  BY DEF Shaped
<1>1. Len(new.nodes) = n - 1 /\ i \in 1 .. n
  BY DEF Collapsed
<1>2. ASSUME NEW s \in Source PROVE Window(new, own, s)
  <2>1. CASE own[s] = <<>>
    <3>1. path.heads[s] = 0 /\ path.tails[s] = 0
      BY <2>1, RunIs
    <3>2. new.heads[s] = 0 /\ new.tails[s] = 0
      BY <1>1, <3>1 DEF Collapsed
    <3>. QED BY <2>1, <3>2 DEF Window
  <2>2. CASE own[s] # <<>>
    <3>. PICK h, t, m : h = path.heads[s] /\ t = path.tails[s] /\ m = Len(own[s])
      OBVIOUS
    <3>1. /\ Run(path, s) = h .. t /\ h \in 1 .. n /\ t \in 1 .. n /\ h \in Nat /\ t \in Nat
          /\ t = h + m - 1 /\ m \in Nat /\ m >= 1
      BY <2>2, RunIs
    <3>2. h \in Run(path, s) /\ t \in Run(path, s)
      BY <3>1
    <3>3. CASE Stays(path, new, own, i, s)
      <4>1. new.heads[s] = h /\ new.tails[s] = t /\ t < n
        BY <3>2, <3>3 DEF Stays
      <4>2. t <= n - 1 /\ h >= 1
        BY <3>1, <4>1
      <4>. QED BY <1>1, <2>2, <3>1, <4>1, <4>2 DEF Window
    <3>4. CASE Slides(path, new, own, i, s)
      <4>1. new.heads[s] = h - 1 /\ new.tails[s] = t - 1 /\ h > i
        BY <3>2, <3>4 DEF Slides
      <4>2. t - 1 <= n - 1 /\ h - 1 >= 1
        BY SMTT(30), <1>1, <3>1, <4>1
      <4>3. t - 1 = h - 1 + m - 1
        BY <3>1
      <4>. QED BY <1>1, <2>2, <4>1, <4>2, <4>3 DEF Window
    <3>. QED BY <3>3, <3>4, StaysOrSlides
  <2>. QED BY <2>1, <2>2
<1>. QED BY <1>2 DEF Shaped, Collapsed

LEMMA CollapseBacks ==
    ASSUME NEW path, NEW own, Backs(path, own), NEW i, NEW new, Collapsed(path, new, i), Separate(path, i)
    PROVE  Backs(new, own)
<1>. PICK n \in Nat : n = Len(path.nodes)
  BY DEF Backs, Shaped
<1>1. Len(new.nodes) = n - 1 /\ i \in 1 .. n
  BY DEF Collapsed
<1>2. Shaped(path, own) /\ Shaped(new, own)
  BY CollapsedShaped DEF Backs
<1>3. ASSUME NEW j \in 1 .. n PROVE Bears(path.nodes[j], At(path, own, j), On(path, j))
  BY DEF Backs
<1>4. ASSUME NEW s \in Source, NEW j \in Int
      PROVE  \/ /\ j \in Run(new, s) <=> j \in Run(path, s)
                /\ j \in Run(path, s) => j <= i
                /\ j + 1 \in Run(path, s) => j + 1 <= i
                /\ Elem(new, own, j, s) = Elem(path, own, j, s)
             \/ /\ j \in Run(new, s) <=> j + 1 \in Run(path, s)
                /\ j \in Run(path, s) => j > i
                /\ j + 1 \in Run(path, s) => j + 1 > i
                /\ Elem(new, own, j, s) = Elem(path, own, j + 1, s)
  <2>1. CASE Stays(path, new, own, i, s)
    <3>1. Run(new, s) = Run(path, s) /\ Elem(new, own, j, s) = Elem(path, own, j, s)
      BY <2>1, StaysIs
    <3>2. \A k \in Run(path, s) : k <= i
      BY <2>1 DEF Stays
    <3>. QED BY <3>1, <3>2
  <2>2. CASE Slides(path, new, own, i, s)
    <3>1. i \in Int /\ i >= 1
      BY <1>1
    <3>2. /\ j \in Run(new, s) <=> j + 1 \in Run(path, s)
          /\ Elem(new, own, j, s) = Elem(path, own, j + 1, s)
      BY <1>2, <2>2, <3>1, SlidesIs
    <3>. QED BY <2>2, <3>2 DEF Slides
  <2>. QED BY <1>2, <2>1, <2>2, StaysOrSlides
<1>5. ASSUME NEW j \in 1 .. n - 1 PROVE Bears(new.nodes[j], At(new, own, j), On(new, j))
  <2>1. /\ j \in Int /\ j \in 1 .. n /\ j + 1 \in 1 .. n /\ i \in Int
        /\ new.nodes[j] = IF j < i THEN path.nodes[j]
                          ELSE IF j = i THEN Both(path.nodes[i], path.nodes[i + 1])
                          ELSE path.nodes[j + 1]
    BY <1>1 DEF Collapsed
  <2>2. CASE j < i
    <3>1. ASSUME NEW s \in Source
          PROVE  /\ j \in Run(new, s) <=> j \in Run(path, s)
                 /\ j \in Run(path, s) => Elem(new, own, j, s) = Elem(path, own, j, s)
      BY <1>4, <2>1, <2>2
    <3>2. On(new, j) = On(path, j) /\ \A s \in On(path, j) : At(new, own, j)[s] = At(path, own, j)[s]
      BY <3>1 DEF On, At
    <3>. QED BY <1>3, <2>1, <2>2, <3>2, BearsSame
  <2>3. CASE j > i
    <3>1. ASSUME NEW s \in Source
          PROVE  /\ j \in Run(new, s) <=> j + 1 \in Run(path, s)
                 /\ j + 1 \in Run(path, s) => Elem(new, own, j, s) = Elem(path, own, j + 1, s)
      BY <1>4, <2>1, <2>3
    <3>2. On(new, j) = On(path, j + 1)
          /\ \A s \in On(path, j + 1) : At(new, own, j)[s] = At(path, own, j + 1)[s]
      BY <3>1 DEF On, At
    <3>3. new.nodes[j] = path.nodes[j + 1]
      BY <2>1, <2>3
    <3>. QED BY <1>3, <2>1, <3>2, <3>3, BearsSame
  <2>4. CASE j = i
    <3>1. ASSUME NEW s \in Source
          PROVE  /\ j \in Run(new, s) <=> j \in Run(path, s) \/ j + 1 \in Run(path, s)
                 /\ j \in Run(path, s) => Elem(new, own, j, s) = Elem(path, own, j, s)
                 /\ j + 1 \in Run(path, s) => Elem(new, own, j, s) = Elem(path, own, j + 1, s)
                 /\ ~(j \in Run(path, s) /\ j + 1 \in Run(path, s))
      BY <1>4, <2>1, <2>4 DEF Separate
    <3>2. PICK S, T : S = On(path, j) /\ T = On(path, j + 1)
      OBVIOUS
    <3>3. On(new, j) = S \cup T /\ S \cap T = {}
      BY <3>1, <3>2 DEF On
    <3>4. PICK f, g, h : f = At(path, own, j) /\ g = At(path, own, j + 1) /\ h = At(new, own, j)
      OBVIOUS
    <3>5. (\A s \in S : h[s] = f[s]) /\ (\A s \in T : h[s] = g[s])
      BY <3>1, <3>2, <3>4 DEF On, At
    <3>6. Bears(Both(path.nodes[j], path.nodes[j + 1]), h, S \cup T)
      <4>1. Bears(path.nodes[j], f, S) /\ Bears(path.nodes[j + 1], g, T)
        BY <1>3, <2>1, <3>2, <3>4
      <4>. QED BY <3>3, <3>5, <4>1, BearsBoth
    <3>. QED BY <2>1, <2>4, <3>3, <3>4, <3>6
  <2>. QED BY <2>1, <2>2, <2>3, <2>4
<1>. QED BY <1>1, <1>2, <1>5 DEF Backs

-----------------------------------------------------------------------------
(* Elements that come and go                                               *)

\* What is known of the run of a source that has elements.
Spans(path, own, s, h, t, n, size) ==
    /\ h = path.heads[s] /\ t = path.tails[s] /\ n = Len(own[s]) /\ size = Len(path.nodes)
    /\ Run(path, s) = h .. t
    /\ h \in Nat /\ t \in Nat /\ n \in Nat /\ size \in Nat
    /\ h >= 1 /\ h <= t /\ t <= size
    /\ t = h + n - 1

LEMMA RunSpans ==
    ASSUME NEW path, NEW own, Shaped(path, own), NEW s \in Source, own[s] # <<>>
    PROVE  \E h, t, n, size : Spans(path, own, s, h, t, n, size)
<1>0. PICK h, t, n, size :
        h = path.heads[s] /\ t = path.tails[s] /\ n = Len(own[s]) /\ size = Len(path.nodes)
  OBVIOUS
<1>1. own[s] \in Seq(Word) /\ n \in Nat /\ n >= 1
  <2>1. own[s] \in Seq(Word)
    BY DEF Shaped
  <2>. QED BY <1>0, <2>1
<1>2. /\ Run(path, s) = h .. t /\ h \in 1 .. size /\ t \in 1 .. size
      /\ size \in Nat /\ h \in Nat /\ t \in Nat
  BY <1>0, RunIs
<1>3. t = h + n - 1
  BY <1>0, RunIs
<1>4. h <= t /\ h >= 1 /\ t <= size
  BY <1>1, <1>2, <1>3
<1>5. Spans(path, own, s, h, t, n, size)
  BY <1>0, <1>1, <1>2, <1>3, <1>4 DEF Spans
<1>. QED BY <1>5

\* An element is before those that f has.
LEMMA LengthensFront ==
    ASSUME NEW a, NEW f, Shaped(a, f), NEW b, NEW F, Shaped(b, F), Len(b.nodes) = Len(a.nodes),
           NEW s \in Source, NEW v \in Word, F[s] = <<v>> \o f[s],
           NEW at, b.heads[s] = at, f[s] # <<>> => a.heads[s] = at + 1
    PROVE  Lengthens(a, f, b, F, s, at, v)
<1>0. PICK q, n, h, ta, tb :
        q = f[s] /\ n = Len(q) /\ h = a.heads[s] /\ ta = a.tails[s] /\ tb = b.tails[s]
  OBVIOUS
<1>1. q \in Seq(Word) /\ n \in Nat /\ F[s] = <<v>> \o q
  BY <1>0 DEF Shaped
<1>2. /\ Len(F[s]) = n + 1 /\ F[s] # <<>> /\ F[s][1] = v
      /\ \A k \in 1 .. n : F[s][k + 1] = q[k]
  <2>. DEFINE Q == <<v>> \o q
  <2>1. Len(Q) = n + 1
    BY <1>0, <1>1
  <2>2. Q[1] = v
    BY <1>0, <1>1
  <2>3. ASSUME NEW k \in 1 .. n PROVE Q[k + 1] = q[k]
    BY <1>0, <1>1
  <2>4. Q # <<>>
    BY <1>1, <2>1
  <2>. HIDE DEF Q
  <2>5. F[s] = Q
    BY <1>1 DEF Q
  <2>. QED BY <2>1, <2>2, <2>3, <2>4, <2>5
<1>3. /\ Run(b, s) = at .. tb /\ at \in 1 .. Len(a.nodes) /\ at \in Nat /\ tb \in Nat
      /\ tb = at + n
  <2>1. PICK hb, tt, m, size : Spans(b, F, s, hb, tt, m, size)
    BY <1>2, RunSpans
  <2>2. hb = at /\ tt = tb /\ m = n + 1 /\ size = Len(a.nodes)
    BY <1>0, <1>2, <2>1 DEF Spans
  <2>3. Run(b, s) = at .. tb /\ at \in 1 .. size /\ at \in Nat /\ tb \in Nat /\ tb = at + m - 1
    BY <2>1, <2>2 DEF Spans
  <2>4. tb = at + n
    BY <1>1, <2>2, <2>3
  <2>. QED BY <2>2, <2>3, <2>4
<1>4. Elem(b, F, at, s) = v
  <2>1. at - at + 1 = 1
    BY <1>3
  <2>. QED BY <1>0, <1>2, <2>1 DEF Elem
<1>5. CASE q = <<>>
  <2>1. n = 0 /\ Run(a, s) = {}
    BY <1>0, <1>1, <1>5, RunIs
  <2>2. Run(b, s) = {at}
    BY <1>3, <2>1
  <2>. QED BY <1>3, <1>4, <2>1, <2>2 DEF Lengthens
<1>6. CASE q # <<>>
  <2>1. Run(a, s) = h .. ta /\ ta = h + n - 1 /\ h \in Nat /\ ta \in Nat /\ n >= 1
    BY <1>0, <1>6, RunIs
  <2>2. h = at + 1 /\ ta = at + n
    BY <1>0, <1>1, <1>3, <1>6, <2>1
  <2>3. Run(b, s) = Run(a, s) \cup {at} /\ at \notin Run(a, s)
    BY SMTT(40), <1>1, <1>3, <2>1, <2>2
  <2>4. ASSUME NEW i \in Run(a, s) PROVE Elem(b, F, i, s) = Elem(a, f, i, s)
    <3>1. i \in Nat /\ i >= at + 1 /\ i <= at + n
      BY <1>3, <2>1, <2>2
    <3>2. PICK k \in 1 .. n : k = i - at
      BY <1>1, <1>3, <3>1
    <3>3. k = i - h + 1 /\ k + 1 = i - at + 1
      BY <1>3, <2>2, <3>1, <3>2
    <3>4. Elem(b, F, i, s) = F[s][k + 1]
      BY <1>0, <3>3 DEF Elem
    <3>5. Elem(a, f, i, s) = q[k]
      BY <1>0, <3>3 DEF Elem
    <3>. QED BY <1>2, <3>4, <3>5
  <2>. QED BY <1>3, <1>4, <2>3, <2>4 DEF Lengthens
<1>. QED BY <1>5, <1>6

\* An element is behind those that f has.
LEMMA LengthensBack ==
    ASSUME NEW a, NEW f, Shaped(a, f), NEW b, NEW F, Shaped(b, F), Len(b.nodes) = Len(a.nodes),
           NEW s \in Source, NEW v \in Word, F[s] = Append(f[s], v),
           NEW at, b.tails[s] = at, f[s] # <<>> => a.heads[s] = b.heads[s]
    PROVE  Lengthens(a, f, b, F, s, at, v)
<1>0. PICK q, n, h, ta : q = f[s] /\ n = Len(q) /\ h = b.heads[s] /\ ta = a.tails[s]
  OBVIOUS
<1>1. q \in Seq(Word) /\ n \in Nat /\ F[s] = Append(q, v)
  BY <1>0 DEF Shaped
<1>2. /\ Len(F[s]) = n + 1 /\ F[s] # <<>> /\ F[s][n + 1] = v
      /\ \A k \in 1 .. n : F[s][k] = q[k]
  <2>1. n = Len(q)
    BY <1>0
  <2>. QED BY <1>1, <2>1
<1>3. /\ Run(b, s) = h .. at /\ at \in 1 .. Len(a.nodes) /\ at \in Nat /\ h \in Nat
      /\ at = h + n
  <2>1. PICK hb, tt, m, size : Spans(b, F, s, hb, tt, m, size)
    BY <1>2, RunSpans
  <2>2. hb = h /\ tt = at /\ m = n + 1 /\ size = Len(a.nodes)
    BY <1>0, <1>2, <2>1 DEF Spans
  <2>3. Run(b, s) = h .. at /\ at \in 1 .. size /\ at \in Nat /\ h \in Nat /\ at = h + m - 1
    BY <2>1, <2>2 DEF Spans
  <2>4. at = h + n
    BY <1>1, <2>2, <2>3
  <2>. QED BY <2>2, <2>3, <2>4
<1>4. Elem(b, F, at, s) = v
  <2>1. at - h + 1 = n + 1
    BY <1>1, <1>3
  <2>. QED BY <1>0, <1>2, <2>1 DEF Elem
<1>5. CASE q = <<>>
  <2>1. n = 0 /\ Run(a, s) = {}
    BY <1>0, <1>1, <1>5, RunIs
  <2>2. Run(b, s) = {at}
    BY <1>3, <2>1
  <2>. QED BY <1>3, <1>4, <2>1, <2>2 DEF Lengthens
<1>6. CASE q # <<>>
  <2>1. h = a.heads[s] /\ Run(a, s) = h .. ta /\ ta = h + n - 1 /\ ta \in Nat /\ n >= 1
    BY <1>0, <1>6, RunIs
  <2>2. ta = at - 1
    <3>1. ta = h + n - 1
      BY <2>1
    <3>2. at = h + n /\ h \in Nat /\ n \in Nat
      BY <1>1, <1>3
    <3>. QED BY <3>1, <3>2
  <2>3. Run(b, s) = Run(a, s) \cup {at} /\ at \notin Run(a, s)
    <3>1. h \in Nat /\ at \in Nat /\ ta \in Nat /\ ta = at - 1 /\ h <= at
      <4>1. at = h + n /\ n \in Nat
        BY <1>1, <1>3
      <4>. QED BY <1>3, <2>1, <2>2, <4>1
    <3>2. h .. at = (h .. ta) \cup {at} /\ at \notin h .. ta
      BY <3>1
    <3>. QED BY <1>3, <2>1, <3>2
  <2>4. ASSUME NEW i \in Run(a, s) PROVE Elem(b, F, i, s) = Elem(a, f, i, s)
    <3>1. i \in Nat /\ i >= h /\ i <= h + n - 1
      BY <1>1, <1>3, <2>1
    <3>2. PICK k \in 1 .. n : k = i - h + 1
      BY <1>1, <1>3, <3>1
    <3>3. Elem(b, F, i, s) = F[s][k]
      BY <1>0, <3>2 DEF Elem
    <3>4. Elem(a, f, i, s) = q[k]
      BY <1>0, <2>1, <3>2 DEF Elem
    <3>. QED BY <1>2, <3>3, <3>4
  <2>. QED BY <1>3, <1>4, <2>3, <2>4 DEF Lengthens
<1>. QED BY <1>5, <1>6

\* Only source s and the node at change.
Only(path, own, new, F, s, at, node) ==
    /\ at \in 1 .. Len(path.nodes) /\ node \in PathNode
    /\ new.nodes = [path.nodes EXCEPT ![at] = node]
    /\ new.heads \in [Source -> Nat] /\ new.tails \in [Source -> Nat]
    /\ \A t \in Source : t # s => /\ F[t] = own[t]
                                  /\ new.heads[t] = path.heads[t] /\ new.tails[t] = path.tails[t]

LEMMA OnlyIs ==
    ASSUME NEW path, NEW own, Shaped(path, own), NEW new, NEW F, NEW s \in Source, NEW at, NEW node,
           Only(path, own, new, F, s, at, node), F[s] \in Seq(Word), Window(new, F, s)
    PROVE  /\ Shaped(new, F) /\ Others(path, own, new, F, s, at)
           /\ new.nodes[at] = node /\ Len(new.nodes) = Len(path.nodes)
<1>. PICK n \in Nat : n = Len(path.nodes)
  BY DEF Shaped
<1>1. /\ new.nodes \in Seq(PathNode) /\ Len(new.nodes) = n /\ new.nodes[at] = node
      /\ \A i \in 1 .. n : i # at => new.nodes[i] = path.nodes[i]
  BY DEF Only, Shaped
<1>2. ASSUME NEW t \in Source PROVE F[t] \in Seq(Word) /\ Window(new, F, t)
  <2>1. CASE t # s
    <3>1. F[t] = own[t] /\ new.heads[t] = path.heads[t] /\ new.tails[t] = path.tails[t]
      BY <2>1 DEF Only
    <3>2. own[t] \in Seq(Word) /\ Window(path, own, t)
      BY DEF Shaped
    <3>. QED BY <1>1, <3>1, <3>2 DEF Window
  <2>. QED BY <2>1
<1>. QED BY <1>1, <1>2 DEF Shaped, Others, Only
-----------------------------------------------------------------------------
(* Adding an element                                                       *)

\* Every node but the one at counts an element.
CountedBut(path, at) == \A i \in 1 .. Len(path.nodes) : i # at => path.nodes[i].refCount > 0

LEMMA NodesTyped ==
    ASSUME NEW path, NEW own, Shaped(path, own), NEW i \in 1 .. Len(path.nodes)
    PROVE  /\ path.nodes[i] \in PathNode
           /\ path.nodes[i].value \in Word /\ path.nodes[i].refCount \in Nat
<1>1. path.nodes[i] \in PathNode
  BY DEF Shaped
<1>. QED BY <1>1 DEF PathNode

LEMMA JoinedTyped ==
    ASSUME NEW node \in PathNode, NEW v \in Word
    PROVE  Joined(node, v) \in PathNode /\ Joined(node, v).refCount > 0
<1>1. node.value \in Word /\ node.refCount \in Nat
  BY DEF PathNode
<1>2. Xor(node.value, v) \in Word
  BY <1>1, XorLaws
<1>. QED BY <1>1, <1>2 DEF Joined, PathNode

LEMMA JoinStep ==
    ASSUME NEW room, NEW own, Backs(room, own), NEW new, NEW F, NEW s \in Source, NEW at,
           NEW v \in Word,
           Only(room, own, new, F, s, at, Joined(room.nodes[at], v)), CountedBut(room, at),
           F[s] \in Seq(Word), Window(new, F, s),
           Shaped(new, F) /\ Len(new.nodes) = Len(room.nodes) => Lengthens(room, own, new, F, s, at, v)
    PROVE  Backs(new, F) /\ Counted(new)
<1>1. Shaped(room, own)
  BY DEF Backs
<1>2. /\ Shaped(new, F) /\ Others(room, own, new, F, s, at)
      /\ new.nodes[at] = Joined(room.nodes[at], v) /\ Len(new.nodes) = Len(room.nodes)
  BY <1>1, OnlyIs
<1>3. Backs(new, F)
  BY <1>2, JoinBacks
<1>4. ASSUME NEW i \in 1 .. Len(new.nodes) PROVE new.nodes[i].refCount > 0
  <2>1. CASE i = at
    <3>1. room.nodes[i] \in PathNode
      BY <1>1, <1>2, NodesTyped
    <3>. QED BY <1>2, <2>1, <3>1, JoinedTyped
  <2>2. CASE i # at
    <3>1. new.nodes[i] = room.nodes[i]
      BY <1>2, <2>2 DEF Others
    <3>. QED BY <1>2, <2>2, <3>1 DEF CountedBut
  <2>. QED BY <2>1, <2>2
<1>. QED BY <1>3, <1>4 DEF Counted

\* Source s gets the element v at its back, and at its front.
PushedBack(own, F, s, v) ==
    F[s] = Append(own[s], v) /\ \A t \in Source : t # s => F[t] = own[t]
PushedFront(own, F, s, v) ==
    F[s] = <<v>> \o own[s] /\ \A t \in Source : t # s => F[t] = own[t]

\* The list with room for an element at node at.
Room(path, at) ==
    [nodes |-> IF at > Len(path.nodes) THEN Append(path.nodes, FreshNode) ELSE path.nodes,
     heads |-> path.heads,
     tails |-> path.tails]

LEMMA RoomBacks ==
    ASSUME NEW path, NEW own, Backs(path, own), Counted(path), NEW at \in 1 .. Len(path.nodes) + 1
    PROVE  /\ Backs(Room(path, at), own) /\ at \in 1 .. Len(Room(path, at).nodes)
           /\ CountedBut(Room(path, at), at)
<1>. PICK n \in Nat : n = Len(path.nodes)
  BY DEF Backs, Shaped
<1>. PICK room : room = Room(path, at)
  OBVIOUS
<1>1. room.heads = path.heads /\ room.tails = path.tails
  BY DEF Room
<1>2. CASE at > n
  <2>1. room.nodes = Append(path.nodes, FreshNode)
    BY <1>2 DEF Room
  <2>2. Backs(room, own) /\ Len(room.nodes) = n + 1
    BY <1>1, <2>1, AppendBacks
  <2>3. \A i \in 1 .. n : room.nodes[i] = path.nodes[i]
    BY <2>1 DEF Backs, Shaped
  <2>4. at = n + 1
    BY <1>2
  <2>. QED BY <2>2, <2>3, <2>4 DEF Counted, CountedBut
<1>3. CASE ~(at > n)
  <2>1. room.nodes = path.nodes
    BY <1>3 DEF Room
  <2>2. Backs(room, own)
    <3>1. \A i, s : Elem(room, own, i, s) = Elem(path, own, i, s)
      BY <1>1 DEF Elem
    <3>2. \A s : Run(room, s) = Run(path, s) /\ (Window(room, own, s) <=> Window(path, own, s))
      BY <1>1, <2>1 DEF Run, Window
    <3>3. Shaped(room, own)
      BY <1>1, <2>1, <3>2 DEF Backs, Shaped
    <3>4. \A i : On(room, i) = On(path, i) /\ At(room, own, i) = At(path, own, i)
      BY <3>1, <3>2 DEF On, At
    <3>. QED BY <2>1, <3>3, <3>4 DEF Backs
  <2>. QED BY <1>3, <2>1, <2>2 DEF Counted, CountedBut
<1>. QED BY <1>2, <1>3

LEMMA AddBackKeeps ==
    ASSUME NEW path, NEW own, Backs(path, own), Counted(path), NEW s \in Source, NEW v \in Word,
           NEW F, PushedBack(own, F, s, v)
    PROVE  Backs(AddBack(path, s, v), F) /\ Counted(AddBack(path, s, v))
<1>. PICK n \in Nat : n = Len(path.nodes)
  BY DEF Backs, Shaped
<1>1. Shaped(path, own) /\ own[s] \in Seq(Word)
  BY DEF Backs, Shaped
<1>. PICK at : at = IF path.tails[s] = 0 THEN 1 ELSE path.tails[s] + 1
  OBVIOUS
<1>2. at \in 1 .. n + 1
  <2>1. path.tails[s] \in Nat /\ path.tails[s] <= n
    BY <1>1, RunIs
  <2>. QED BY <2>1
<1>. PICK room, new : room = Room(path, at) /\ new = AddBack(path, s, v)
  OBVIOUS
<1>3. Backs(room, own) /\ at \in 1 .. Len(room.nodes) /\ CountedBut(room, at)
  BY <1>2, RoomBacks
<1>4. Shaped(room, own) /\ room.heads = path.heads /\ room.tails = path.tails
  BY <1>3 DEF Backs, Room
<1>5. /\ new.nodes = [room.nodes EXCEPT ![at] = Joined(@, v)]
      /\ new.heads = [path.heads EXCEPT ![s] = IF path.tails[s] = 0 THEN at ELSE @]
      /\ new.tails = [path.tails EXCEPT ![s] = at]
  BY DEF AddBack, Room
<1>6. /\ path.heads \in [Source -> Nat] /\ path.tails \in [Source -> Nat] /\ at \in Nat
  BY <1>1, <1>2 DEF Shaped
<1>7. Only(room, own, new, F, s, at, Joined(room.nodes[at], v))
  <2>1. Joined(room.nodes[at], v) \in PathNode
    BY <1>3, <1>4, NodesTyped, JoinedTyped
  <2>2. new.heads \in [Source -> Nat] /\ new.tails \in [Source -> Nat]
    BY <1>5, <1>6
  <2>3. new.nodes = [room.nodes EXCEPT ![at] = Joined(room.nodes[at], v)]
    BY <1>5
  <2>4. \A t \in Source : t # s => new.heads[t] = room.heads[t] /\ new.tails[t] = room.tails[t]
    BY <1>4, <1>5, <1>6
  <2>. QED BY <1>3, <2>1, <2>2, <2>3, <2>4 DEF Only, PushedBack
<1>8. new.tails[s] = at /\ (own[s] # <<>> => new.heads[s] = path.heads[s])
      /\ (own[s] = <<>> => new.heads[s] = 1 /\ at = 1)
  <2>1. own[s] = <<>> <=> path.tails[s] = 0
    BY <1>1, RunIs
  <2>. QED BY <1>5, <1>6, <2>1
<1>9. Len(new.nodes) = Len(room.nodes)
  BY <1>5
<1>10. F[s] = Append(own[s], v) /\ F[s] \in Seq(Word) /\ F[s] # <<>>
  <2>. PICK q \in Seq(Word) : q = own[s]
    BY <1>1
  <2>1. F[s] = Append(q, v)
    BY DEF PushedBack
  <2>2. Append(q, v) \in Seq(Word) /\ Append(q, v) # <<>>
    <3>. PICK a : a = Append(q, v)
      OBVIOUS
    <3>1. a \in Seq(Word) /\ Len(a) = Len(q) + 1 /\ Len(q) \in Nat
      OBVIOUS
    <3>2. a # <<>>
      BY <3>1, EmptySeq
    <3>. QED BY <3>1, <3>2
  <2>. QED BY <2>1, <2>2
<1>11. Window(new, F, s)
  <2>1. PICK m, h : m = Len(own[s]) /\ h = new.heads[s]
    OBVIOUS
  <2>2. Len(F[s]) = m + 1 /\ m \in Nat
    BY <1>1, <1>10, <2>1
  <2>3. h >= 1 /\ at = h + m
    <3>1. CASE own[s] = <<>>
      <4>1. m = 0 /\ h = 1 /\ at = 1
        BY <1>8, <2>1, <3>1
      <4>. QED BY <4>1
    <3>2. CASE own[s] # <<>>
      <4>0. PICK g, t, k, size : Spans(path, own, s, g, t, k, size)
        BY <1>1, <3>2, RunSpans
      <4>1. g = h /\ k = m /\ Spans(path, own, s, h, t, m, size)
        BY <1>8, <2>1, <3>2, <4>0 DEF Spans
      <4>2. h \in Nat /\ t \in Nat /\ h >= 1 /\ t = h + m - 1 /\ h <= t
        BY <4>1 DEF Spans
      <4>3. at = t + 1
        <5>1. t = path.tails[s]
          BY <4>1 DEF Spans
        <5>. QED BY <4>2, <5>1
      <4>. QED BY <2>2, <4>2, <4>3
    <3>. QED BY <3>1, <3>2
  <2>4. at = h + Len(F[s]) - 1
    <3>1. PICK k : k = Len(F[s])
      OBVIOUS
    <3>2. h \in Nat
      BY <1>6, <1>7, <2>1 DEF Only
    <3>3. at = h + k - 1
      BY <2>2, <2>3, <3>1, <3>2
    <3>. QED BY <3>1, <3>3
  <2>5. at <= Len(new.nodes)
    BY <1>3, <1>9
  <2>. QED BY <1>8, <1>10, <2>1, <2>3, <2>4, <2>5 DEF Window
<1>12. Shaped(new, F) /\ Len(new.nodes) = Len(room.nodes) => Lengthens(room, own, new, F, s, at, v)
  BY <1>4, <1>8, <1>10, LengthensBack
<1>13. Backs(new, F) /\ Counted(new)
  BY <1>3, <1>7, <1>10, <1>11, <1>12, JoinStep
<1>. QED BY <1>13

LEMMA AddFrontKeeps ==
    ASSUME NEW path, NEW own, Backs(path, own), Counted(path), NEW s \in Source, NEW v \in Word,
           NEW F, PushedFront(own, F, s, v)
    PROVE  Backs(AddFront(path, s, v), F) /\ Counted(AddFront(path, s, v))
<1>. PICK n \in Nat : n = Len(path.nodes)
  BY DEF Backs, Shaped
<1>1. Shaped(path, own) /\ own[s] \in Seq(Word)
  BY DEF Backs, Shaped
<1>2. /\ path.heads[s] = 0 <=> own[s] = <<>>
      /\ path.heads[s] \in Nat /\ path.heads[s] <= n
  BY <1>1, RunIs
<1>. PICK before : before = IF path.heads[s] = 0 THEN n ELSE path.heads[s] - 1
  OBVIOUS
<1>3. before \in 0 .. n
  BY <1>2
<1>. PICK room : room = IF before = 0 THEN PrependNode(path) ELSE path
  OBVIOUS
<1>. PICK at : at = IF before = 0 THEN 1 ELSE before
  OBVIOUS
<1>. PICK new : new = AddFront(path, s, v)
  OBVIOUS
<1>4. /\ Backs(room, own) /\ at \in 1 .. Len(room.nodes) /\ CountedBut(room, at)
      /\ own[s] # <<>> => room.heads[s] = at + 1
      /\ own[s] = <<>> => room.heads[s] = 0
  <2>1. CASE before = 0
    <3>1. room = PrependNode(path) /\ at = 1
      BY <2>1
    <3>2. /\ Backs(room, own) /\ Len(room.nodes) = n + 1
          /\ \A i \in 1 .. n : room.nodes[i + 1] = path.nodes[i]
          /\ Displaced(path, room, own, 1)
      BY <3>1, PrependBacks
    <3>3. CountedBut(room, at)
      <4>1. ASSUME NEW i \in 1 .. n + 1, i # 1 PROVE room.nodes[i].refCount > 0
        <5>1. i - 1 \in 1 .. n /\ i - 1 + 1 = i
          BY <4>1
        <5>2. room.nodes[i] = path.nodes[i - 1]
          BY <3>2, <5>1
        <5>. QED BY <5>1, <5>2 DEF Counted
      <4>. QED BY <3>1, <3>2, <4>1 DEF CountedBut
    <3>4. own[s] # <<>> => room.heads[s] = at + 1
      <4>1. own[s] # <<>> => path.heads[s] = 1
        BY <1>2, <2>1
      <4>. QED BY <3>1, <3>2, <4>1 DEF Displaced
    <3>5. own[s] = <<>> => room.heads[s] = 0
      BY <3>2 DEF Displaced
    <3>. QED BY <3>1, <3>2, <3>3, <3>4, <3>5
  <2>2. CASE before # 0
    <3>1. room = path /\ at = before
      BY <2>2
    <3>2. own[s] # <<>> => path.heads[s] = at + 1
      BY <1>2, <3>1
    <3>. QED BY <1>2, <1>3, <2>2, <3>1, <3>2 DEF Counted, CountedBut
  <2>. QED BY <2>1, <2>2
<1>5. Shaped(room, own) /\ at \in Nat
  BY <1>3, <1>4 DEF Backs
<1>6. /\ new.nodes = [room.nodes EXCEPT ![at] = Joined(@, v)]
      /\ new.heads = [room.heads EXCEPT ![s] = at]
      /\ new.tails = [room.tails EXCEPT ![s] = IF path.heads[s] = 0 THEN at ELSE @]
  BY DEF AddFront
<1>7. room.heads \in [Source -> Nat] /\ room.tails \in [Source -> Nat]
  BY <1>5 DEF Shaped
<1>8. Only(room, own, new, F, s, at, Joined(room.nodes[at], v))
  <2>1. Joined(room.nodes[at], v) \in PathNode
    BY <1>4, <1>5, NodesTyped, JoinedTyped
  <2>2. new.heads \in [Source -> Nat] /\ new.tails \in [Source -> Nat]
    BY <1>5, <1>6, <1>7
  <2>3. new.nodes = [room.nodes EXCEPT ![at] = Joined(room.nodes[at], v)]
    BY <1>6
  <2>4. \A t \in Source : t # s => new.heads[t] = room.heads[t] /\ new.tails[t] = room.tails[t]
    BY <1>6, <1>7
  <2>. QED BY <1>4, <2>1, <2>2, <2>3, <2>4 DEF Only, PushedFront
<1>9. /\ new.heads[s] = at /\ (own[s] # <<>> => new.tails[s] = room.tails[s])
      /\ (own[s] = <<>> => new.tails[s] = at)
  BY <1>2, <1>6, <1>7
<1>10. Len(new.nodes) = Len(room.nodes)
  BY <1>6
<1>11. F[s] = <<v>> \o own[s] /\ F[s] \in Seq(Word) /\ F[s] # <<>>
       /\ Len(F[s]) = Len(own[s]) + 1 /\ Len(own[s]) \in Nat
  <2>1. F[s] = <<v>> \o own[s]
    BY DEF PushedFront
  <2>. QED BY <1>1, <2>1
<1>12. Window(new, F, s)
  <2>1. PICK m, t : m = Len(own[s]) /\ t = new.tails[s]
    OBVIOUS
  <2>2. Len(F[s]) = m + 1 /\ m \in Nat
    BY <1>11, <2>1
  <2>3. t = at + m /\ t <= Len(room.nodes)
    <3>1. CASE own[s] = <<>>
      <4>1. m = 0 /\ t = at
        BY <1>9, <2>1, <3>1
      <4>. QED BY <1>4, <1>5, <4>1
    <3>2. CASE own[s] # <<>>
      <4>0. PICK h, g, k, size : Spans(room, own, s, h, g, k, size)
        BY <1>5, <3>2, RunSpans
      <4>1. h = at + 1 /\ g = t /\ k = m /\ size = Len(room.nodes)
        <5>1. h = room.heads[s] /\ g = room.tails[s] /\ k = m /\ size = Len(room.nodes)
          BY <2>1, <4>0 DEF Spans
        <5>2. g = t
          BY <1>9, <2>1, <3>2, <5>1
        <5>3. h = at + 1
          BY <1>4, <3>2, <5>1
        <5>. QED BY <5>1, <5>2, <5>3
      <4>2. t = h + m - 1 /\ t <= size
        BY <4>0, <4>1 DEF Spans
      <4>3. h = at + 1 /\ t = h + m - 1 /\ at \in Nat /\ m \in Nat
        BY <1>5, <2>2, <4>1, <4>2
      <4>4. t = at + m
        BY ONLY <4>3
      <4>. QED BY <4>1, <4>2, <4>4
    <3>. QED BY <3>1, <3>2
  <2>4. t = at + Len(F[s]) - 1
    <3>1. PICK k : k = Len(F[s])
      OBVIOUS
    <3>2. t = at + k - 1
      BY <1>5, <2>2, <2>3, <3>1
    <3>. QED BY <3>1, <3>2
  <2>5. at >= 1 /\ t <= Len(new.nodes)
    BY <1>4, <1>10, <2>3
  <2>. QED BY <1>9, <1>11, <2>1, <2>4, <2>5 DEF Window
<1>13. Shaped(new, F) /\ Len(new.nodes) = Len(room.nodes) => Lengthens(room, own, new, F, s, at, v)
  BY <1>4, <1>5, <1>9, <1>11, LengthensFront
<1>14. Backs(new, F) /\ Counted(new)
  BY <1>4, <1>8, <1>11, <1>12, <1>13, JoinStep
<1>. QED BY <1>14

-----------------------------------------------------------------------------
(* Removing an element                                                     *)

LEMMA DropKeeps ==
    ASSUME NEW path, NEW own, Backs(path, own), NEW i \in 1 .. Len(path.nodes), CountedBut(path, i)
    PROVE  Backs(Drop(path, i), own) /\ Counted(Drop(path, i))
<1>. PICK n \in Nat : n = Len(path.nodes)
  BY DEF Backs, Shaped
<1>1. Shaped(path, own) /\ path.nodes \in Seq(PathNode)
  BY DEF Backs, Shaped
<1>2. /\ Bears(path.nodes[i], At(path, own, i), On(path, i))
      /\ path.nodes[i].refCount \in Nat
  BY <1>1, NodesTyped DEF Backs
<1>3. CASE path.nodes[i].refCount # 0
  <2>1. Drop(path, i) = path
    BY <1>3 DEF Drop
  <2>. QED BY <1>2, <1>3, <2>1 DEF Counted, CountedBut
<1>4. CASE path.nodes[i].refCount = 0
  <2>. PICK new : new = RemoveNode(path, i)
    OBVIOUS
  <2>1. Drop(path, i) = new
    BY <1>4 DEF Drop
  <2>2. On(path, i) = {}
    BY <1>2, <1>4, BearsFew
  <2>3. path.nodes[i].value = 0
    BY <1>2, <2>2, XorOverEmpty DEF Bears
  <2>4. /\ new.nodes \in Seq(PathNode) /\ Len(new.nodes) = n - 1
        /\ \A j \in 1 .. n - 1 : new.nodes[j] = IF j < i THEN path.nodes[j] ELSE path.nodes[j + 1]
    <3>1. new.nodes = RemoveAt(path.nodes, i)
      BY DEF RemoveNode
    <3>2. PICK q : q = path.nodes
      OBVIOUS
    <3>. QED BY <1>1, <3>1, <3>2, RemoveAtIs
  <2>5. /\ new.heads = [s \in Source |-> IF path.heads[s] > i THEN path.heads[s] - 1 ELSE path.heads[s]]
        /\ new.tails = [s \in Source |-> IF path.tails[s] > i THEN path.tails[s] - 1 ELSE path.tails[s]]
    BY DEF RemoveNode
  <2>6. new.heads \in [Source -> Nat] /\ new.tails \in [Source -> Nat]
    BY <1>1, <2>5 DEF Shaped
  <2>7. ASSUME i + 1 <= n PROVE Both(path.nodes[i], path.nodes[i + 1]) = path.nodes[i + 1]
    <3>. PICK b : b = path.nodes[i + 1]
      OBVIOUS
    <3>1. b \in PathNode /\ b.value \in Word /\ b.refCount \in Nat
      BY <1>1, <2>7, NodesTyped
    <3>2. Xor(0, b.value) = b.value /\ 0 + b.refCount = b.refCount
      <4>1. Xor(b.value, 0) = b.value /\ Xor(0, b.value) = Xor(b.value, 0)
        BY <3>1, XorLaws, XorAssumption
      <4>. QED BY <3>1, <4>1
    <3>3. b = [value |-> b.value, refCount |-> b.refCount]
      BY <3>1 DEF PathNode
    <3>4. Both(path.nodes[i], b) = [value |-> b.value, refCount |-> b.refCount]
      BY <1>4, <2>3, <3>2 DEF Both
    <3>. QED BY <3>3, <3>4
  <2>8. Collapsed(path, new, i)
    <3>1. ASSUME NEW j \in 1 .. n - 1
          PROVE  new.nodes[j] = IF j < i THEN path.nodes[j]
                                ELSE IF j = i THEN Both(path.nodes[i], path.nodes[i + 1])
                                ELSE path.nodes[j + 1]
      <4>1. CASE j = i
        <5>1. i + 1 <= n /\ ~(j < i)
          BY <4>1
        <5>. QED BY <2>4, <2>7, <4>1, <5>1
      <4>2. CASE j # i
        BY <2>4, <4>2
      <4>. QED BY <4>1, <4>2
    <3>. QED BY <2>4, <2>5, <2>6, <3>1 DEF Collapsed
  <2>9. Separate(path, i)
    BY <2>2 DEF Separate, On
  <2>10. Backs(new, own)
    BY <2>8, <2>9, CollapseBacks
  <2>11. ASSUME NEW j \in 1 .. n - 1 PROVE new.nodes[j].refCount > 0
    <3>1. CASE j < i
      BY <2>4, <3>1 DEF CountedBut
    <3>2. CASE ~(j < i)
      <4>1. j + 1 \in 1 .. n /\ j + 1 # i
        BY <3>2
      <4>. QED BY <2>4, <3>2, <4>1 DEF CountedBut
    <3>. QED BY <3>1, <3>2
  <2>. QED BY <2>1, <2>4, <2>10, <2>11 DEF Counted
<1>. QED BY <1>3, <1>4

LEMMA MergeKeepsPath ==
    ASSUME NEW path, NEW own, Backs(path, own), Counted(path), NEW i \in 1 .. Len(path.nodes) - 1,
           Separate(path, i)
    PROVE  Backs(Merge(path, i), own) /\ Counted(Merge(path, i))
<1>. PICK n \in Nat : n = Len(path.nodes)
  BY DEF Backs, Shaped
<1>1. Shaped(path, own) /\ path.nodes \in Seq(PathNode)
  BY DEF Backs, Shaped
<1>. PICK new : new = Merge(path, i)
  OBVIOUS
<1>. PICK both : both = Both(path.nodes[i], path.nodes[i + 1])
  OBVIOUS
<1>2. both \in PathNode /\ both.refCount > 0
  <2>. PICK a, b : a = path.nodes[i] /\ b = path.nodes[i + 1]
    OBVIOUS
  <2>1. a \in PathNode /\ b \in PathNode /\ a.refCount > 0
    BY <1>1 DEF Counted
  <2>2. a.value \in Word /\ b.value \in Word /\ a.refCount \in Nat /\ b.refCount \in Nat
    BY <2>1 DEF PathNode
  <2>3. both = [value |-> Xor(a.value, b.value), refCount |-> a.refCount + b.refCount]
    BY DEF Both
  <2>4. Xor(a.value, b.value) \in Word
    BY <2>2, XorLaws
  <2>. QED BY <2>1, <2>2, <2>3, <2>4 DEF PathNode
<1>. PICK q : q = [path.nodes EXCEPT ![i] = both]
  OBVIOUS
<1>3. q \in Seq(PathNode) /\ Len(q) = n /\ \A j \in 1 .. n : q[j] = IF j = i THEN both ELSE path.nodes[j]
  BY <1>1, <1>2
<1>4. /\ new.nodes = RemoveAt(q, i + 1)
      /\ new.heads = [s \in Source |->
            IF [t \in Source |-> IF path.heads[t] = i + 1 THEN i ELSE path.heads[t]][s] > i + 1
            THEN [t \in Source |-> IF path.heads[t] = i + 1 THEN i ELSE path.heads[t]][s] - 1
            ELSE [t \in Source |-> IF path.heads[t] = i + 1 THEN i ELSE path.heads[t]][s]]
      /\ new.tails = [s \in Source |->
            IF [t \in Source |-> IF path.tails[t] = i + 1 THEN i ELSE path.tails[t]][s] > i + 1
            THEN [t \in Source |-> IF path.tails[t] = i + 1 THEN i ELSE path.tails[t]][s] - 1
            ELSE [t \in Source |-> IF path.tails[t] = i + 1 THEN i ELSE path.tails[t]][s]]
  BY DEF Merge, RemoveNode, Both
<1>5. /\ new.nodes \in Seq(PathNode) /\ Len(new.nodes) = n - 1
      /\ \A j \in 1 .. n - 1 : new.nodes[j] = IF j < i + 1 THEN q[j] ELSE q[j + 1]
  <2>. PICK c : c = i + 1
    OBVIOUS
  <2>1. Len(q) = n /\ q \in Seq(PathNode)
    BY <1>3
  <2>2. c \in 1 .. Len(q)
    <3>1. i \in 1 .. n - 1
      OBVIOUS
    <3>2. c \in 1 .. n
      BY <3>1
    <3>. QED BY <2>1, <3>2
  <2>3. /\ RemoveAt(q, c) \in Seq(PathNode) /\ Len(RemoveAt(q, c)) = Len(q) - 1
        /\ \A j \in 1 .. Len(q) - 1 : RemoveAt(q, c)[j] = IF j < c THEN q[j] ELSE q[j + 1]
    BY ZenonT(60), <2>1, <2>2, RemoveAtIs
  <2>4. new.nodes = RemoveAt(q, c)
    BY <1>4
  <2>. QED BY <2>1, <2>3, <2>4
<1>6. ASSUME NEW j \in 1 .. n - 1
      PROVE  new.nodes[j] = IF j < i THEN path.nodes[j] ELSE IF j = i THEN both ELSE path.nodes[j + 1]
  <2>1. CASE j < i
    <3>1. j \in 1 .. n - 1 /\ j < i + 1 /\ j # i /\ j \in 1 .. n
      BY <2>1
    <3>2. new.nodes[j] = q[j] /\ q[j] = path.nodes[j]
      BY <1>3, <1>5, <3>1
    <3>. QED BY <2>1, <3>2
  <2>2. CASE j = i
    BY <1>3, <1>5, <2>2
  <2>3. CASE j > i
    <3>1. new.nodes[j] = q[j + 1] /\ q[j + 1] = path.nodes[j + 1]
      BY <1>3, <1>5, <2>3
    <3>. QED BY <2>3, <3>1
  <2>. QED BY <2>1, <2>2, <2>3
<1>7. ASSUME NEW s \in Source
      PROVE  /\ path.heads[s] \in Nat /\ path.tails[s] \in Nat
             /\ new.heads[s] = IF path.heads[s] > i THEN path.heads[s] - 1 ELSE path.heads[s]
             /\ new.tails[s] = IF path.tails[s] > i THEN path.tails[s] - 1 ELSE path.tails[s]
  <2>1. path.heads[s] \in Nat /\ path.tails[s] \in Nat
    BY <1>1 DEF Shaped
  <2>. PICK h, t : h = path.heads[s] /\ t = path.tails[s]
    OBVIOUS
  <2>2. new.heads[s] = IF (IF h = i + 1 THEN i ELSE h) > i + 1 THEN (IF h = i + 1 THEN i ELSE h) - 1
                       ELSE (IF h = i + 1 THEN i ELSE h)
    BY <1>4
  <2>3. new.tails[s] = IF (IF t = i + 1 THEN i ELSE t) > i + 1 THEN (IF t = i + 1 THEN i ELSE t) - 1
                       ELSE (IF t = i + 1 THEN i ELSE t)
    BY <1>4
  <2>4. new.heads[s] = IF h > i THEN h - 1 ELSE h
    BY <2>1, <2>2
  <2>5. new.tails[s] = IF t > i THEN t - 1 ELSE t
    BY <2>1, <2>3
  <2>. QED BY <2>1, <2>4, <2>5
<1>8. new.heads \in [Source -> Nat] /\ new.tails \in [Source -> Nat]
  <2>1. \A s \in Source : new.heads[s] \in Nat /\ new.tails[s] \in Nat
    BY <1>7
  <2>2. /\ new.heads = [s \in Source |-> new.heads[s]]
        /\ new.tails = [s \in Source |-> new.tails[s]]
    BY <1>4
  <2>. QED BY <2>1, <2>2
<1>9. Collapsed(path, new, i)
  BY <1>5, <1>6, <1>7, <1>8 DEF Collapsed
<1>10. Backs(new, own)
  BY <1>9, CollapseBacks
<1>11. ASSUME NEW j \in 1 .. n - 1 PROVE new.nodes[j].refCount > 0
  <2>1. CASE j = i
    BY <1>2, <1>6, <2>1
  <2>2. CASE j < i
    BY <1>6, <2>2 DEF Counted
  <2>3. CASE j > i
    <3>1. new.nodes[j] = path.nodes[j + 1] /\ j + 1 \in 1 .. n
      BY <1>6, <2>3
    <3>. QED BY <3>1 DEF Counted
  <2>. QED BY <2>1, <2>2, <2>3
<1>. QED BY <1>5, <1>10, <1>11 DEF Counted

\* Of two nodes that hold one element each, a source has one only: they are
\* apart, if one is the source's and the other is not.
LEMMA SingleSeparate ==
    ASSUME NEW path, NEW own, Backs(path, own), NEW i, Single(path, i), NEW s \in Source,
           i \in Run(path, s) <=> i + 1 \notin Run(path, s)
    PROVE  Separate(path, i) /\ i \in 1 .. Len(path.nodes) - 1
<1>. PICK n \in Nat : n = Len(path.nodes)
  BY DEF Backs, Shaped
<1>1. i \in 1 .. n - 1 /\ path.nodes[i].refCount = 1 /\ path.nodes[i + 1].refCount = 1
  BY DEF Single
<1>2. i \in 1 .. n /\ i + 1 \in 1 .. n /\ i # n
  BY <1>1
<1>3. /\ Bears(path.nodes[i], At(path, own, i), On(path, i))
      /\ Bears(path.nodes[i + 1], At(path, own, i + 1), On(path, i + 1))
  BY <1>2 DEF Backs
<1>4. /\ \A e \in On(path, i) : On(path, i) = {e}
      /\ \A e \in On(path, i + 1) : On(path, i + 1) = {e}
  BY <1>1, <1>3, BearsFew
<1>5. ASSUME NEW t \in Source, i \in Run(path, t), i + 1 \in Run(path, t) PROVE FALSE
  <2>1. t \in On(path, i) /\ t \in On(path, i + 1)
    BY <1>5 DEF On
  <2>2. On(path, i) = {t} /\ On(path, i + 1) = {t}
    BY <1>4, <2>1
  <2>3. s \in On(path, i) \/ s \in On(path, i + 1)
    BY DEF On
  <2>4. s = t
    BY <2>2, <2>3
  <2>. QED BY <1>5, <2>4
<1>. QED BY <1>1, <1>2, <1>5 DEF Separate

\* Only source s and the node at change: the node gives v up.
Gives(path, own, new, F, s, at, v) ==
    /\ at \in 1 .. Len(path.nodes)
    /\ new.nodes = [path.nodes EXCEPT ![at] = Parted(@, v)]
    /\ new.heads \in [Source -> Nat] /\ new.tails \in [Source -> Nat]
    /\ \A t \in Source : t # s => /\ F[t] = own[t]
                                  /\ new.heads[t] = path.heads[t] /\ new.tails[t] = path.tails[t]

LEMMA PartStep ==
    ASSUME NEW path, NEW own, Backs(path, own), Counted(path), NEW new, NEW F, NEW s \in Source,
           NEW at, NEW v \in Word, Gives(path, own, new, F, s, at, v),
           F[s] \in Seq(Word), Window(new, F, s),
           Shaped(new, F) /\ Len(new.nodes) = Len(path.nodes) => Lengthens(new, F, path, own, s, at, v)
    PROVE  Backs(new, F) /\ CountedBut(new, at) /\ Len(new.nodes) = Len(path.nodes)
<1>1. Shaped(path, own)
  BY DEF Backs
<1>. PICK node : node = path.nodes[at]
  OBVIOUS
<1>2. node.value \in Word /\ node.refCount \in Nat /\ node.refCount > 0
  BY <1>1, NodesTyped DEF Counted, Gives
<1>3. Parted(node, v) \in PathNode
  <2>1. Xor(node.value, v) \in Word /\ node.refCount - 1 \in Nat
    BY <1>2, XorLaws
  <2>. QED BY <2>1 DEF Parted, PathNode
<1>4. Only(path, own, new, F, s, at, Parted(node, v))
  BY <1>3 DEF Only, Gives
<1>5. /\ Shaped(new, F) /\ Others(path, own, new, F, s, at)
      /\ new.nodes[at] = Parted(node, v) /\ Len(new.nodes) = Len(path.nodes)
  BY <1>1, <1>4, OnlyIs
<1>6. Backs(new, F)
  BY <1>5, PartBacks
<1>7. CountedBut(new, at)
  BY <1>5 DEF Counted, CountedBut, Others
<1>. QED BY <1>5, <1>6, <1>7

\* Source s loses its first element, and its last one.
PoppedFront(own, F, s, v) ==
    /\ F[s] \in Seq(Word) /\ own[s] = <<v>> \o F[s] /\ v \in Word
    /\ \A t \in Source : t # s => F[t] = own[t]
PoppedBack(own, F, s, v) ==
    /\ F[s] \in Seq(Word) /\ own[s] = Append(F[s], v) /\ v \in Word
    /\ \A t \in Source : t # s => F[t] = own[t]

LEMMA TakeFrontKeeps ==
    ASSUME NEW path, NEW own, Backs(path, own), Counted(path), NEW s \in Source, NEW v,
           NEW F, PoppedFront(own, F, s, v), NEW last \in BOOLEAN, last <=> F[s] = <<>>
    PROVE  Backs(TakeFront(path, s, v, last), F) /\ Counted(TakeFront(path, s, v, last))
<1>1. Shaped(path, own) /\ F[s] \in Seq(Word) /\ own[s] = <<v>> \o F[s] /\ v \in Word
  BY DEF Backs, PoppedFront
<1>. PICK h, t, n, size : Spans(path, own, s, h, t, n, size)
  <2>1. own[s] # <<>>
    BY <1>1
  <2>. QED BY <1>1, <2>1, RunSpans
<1>2. /\ h = path.heads[s] /\ t = path.tails[s] /\ size = Len(path.nodes) /\ n = Len(own[s])
      /\ h \in Nat /\ t \in Nat /\ n \in Nat /\ size \in Nat /\ h >= 1 /\ h <= t /\ t <= size
      /\ t = h + n - 1
  BY DEF Spans
<1>3. Len(F[s]) = n - 1 /\ (F[s] = <<>> <=> n = 1)
  <2>1. PICK q : q = F[s]
    OBVIOUS
  <2>2. n = Len(<<v>> \o q) /\ q \in Seq(Word)
    BY <1>1, <1>2, <2>1
  <2>3. n = Len(q) + 1 /\ (q = <<>> <=> Len(q) = 0) /\ Len(q) \in Nat
    BY <2>2
  <2>. QED BY <2>1, <2>3
<1>. PICK parted :
        parted = [nodes |-> [path.nodes EXCEPT ![h] = Parted(@, v)],
                  heads |-> [path.heads EXCEPT ![s] = IF last THEN 0 ELSE h + 1],
                  tails |-> [path.tails EXCEPT ![s] = IF last THEN 0 ELSE @]]
  OBVIOUS
<1>. PICK dropped : dropped = Drop(parted, h)
  OBVIOUS
<1>. PICK before : before = dropped.heads[s] - 1
  OBVIOUS
<1>4. TakeFront(path, s, v, last) =
        IF ~last /\ Single(dropped, before) THEN Merge(dropped, before) ELSE dropped
  BY <1>2 DEF TakeFront
<1>5. /\ parted.nodes = [path.nodes EXCEPT ![h] = Parted(@, v)]
      /\ parted.heads \in [Source -> Nat] /\ parted.tails \in [Source -> Nat]
      /\ parted.heads[s] = (IF last THEN 0 ELSE h + 1) /\ parted.tails[s] = (IF last THEN 0 ELSE t)
      /\ \A r \in Source : r # s => /\ parted.heads[r] = path.heads[r]
                                    /\ parted.tails[r] = path.tails[r]
  <2>1. path.heads \in [Source -> Nat] /\ path.tails \in [Source -> Nat]
    BY <1>1 DEF Shaped
  <2>2. /\ parted.nodes = [path.nodes EXCEPT ![h] = Parted(@, v)]
        /\ parted.heads = [path.heads EXCEPT ![s] = IF last THEN 0 ELSE h + 1]
        /\ parted.tails = [path.tails EXCEPT ![s] = IF last THEN 0 ELSE path.tails[s]]
    OBVIOUS
  <2>3. /\ parted.heads \in [Source -> Nat]
        /\ parted.heads[s] = (IF last THEN 0 ELSE h + 1)
        /\ \A r \in Source : r # s => parted.heads[r] = path.heads[r]
    BY SMTT(30), <1>2, <2>1, <2>2
  <2>4. /\ parted.tails \in [Source -> Nat]
        /\ parted.tails[s] = (IF last THEN 0 ELSE t)
        /\ \A r \in Source : r # s => parted.tails[r] = path.tails[r]
    BY SMTT(30), <1>2, <2>1, <2>2
  <2>. QED BY <2>2, <2>3, <2>4
<1>6. Window(parted, F, s)
  <2>1. CASE last
    BY <1>5, <2>1 DEF Window
  <2>2. CASE ~last
    <3>1. parted.heads[s] = h + 1 /\ parted.tails[s] = t /\ F[s] # <<>>
      BY <1>5, <2>2
    <3>2. h + 1 >= 1 /\ t <= Len(parted.nodes)
      <4>1. Len(parted.nodes) = size
        <5>1. path.nodes \in Seq(PathNode)
          BY <1>1 DEF Shaped
        <5>. QED BY <1>2, <1>5, <5>1
      <4>. QED BY <1>2, <4>1
    <3>3. t = h + 1 + (n - 1) - 1
      <4>1. h \in Nat /\ n \in Nat /\ t = h + n - 1
        BY <1>2
      <4>. QED BY <4>1
    <3>4. t = h + 1 + Len(F[s]) - 1
      BY <1>3, <3>3
    <3>. QED BY <3>1, <3>2, <3>4 DEF Window
  <2>. QED BY <2>1, <2>2
<1>7. Shaped(parted, F) /\ Len(parted.nodes) = Len(path.nodes) => Lengthens(parted, F, path, own, s, h, v)
  <2>1. F[s] # <<>> => parted.heads[s] = h + 1
    BY <1>5
  <2>. QED BY <1>1, <1>2, <2>1, LengthensFront
<1>8. Backs(parted, F) /\ CountedBut(parted, h) /\ h \in 1 .. Len(parted.nodes)
  <2>1. h \in 1 .. Len(path.nodes)
    BY <1>2
  <2>2. Gives(path, own, parted, F, s, h, v)
    BY <1>5, <2>1 DEF Gives, PoppedFront
  <2>3. Backs(parted, F) /\ CountedBut(parted, h) /\ Len(parted.nodes) = Len(path.nodes)
    BY <1>1, <1>6, <1>7, <2>2, PartStep
  <2>. QED BY <2>1, <2>3
<1>9. Backs(dropped, F) /\ Counted(dropped)
  BY <1>8, DropKeeps
<1>10. ASSUME ~last, Single(dropped, before)
       PROVE  Backs(Merge(dropped, before), F) /\ Counted(Merge(dropped, before))
  <2>1. Shaped(dropped, F) /\ F[s] # <<>>
    BY <1>9, <1>10 DEF Backs
  <2>2. PICK g, u, m, sz : Spans(dropped, F, s, g, u, m, sz)
    BY <2>1, RunSpans
  <2>3. Run(dropped, s) = g .. u /\ g \in Nat /\ u \in Nat /\ g <= u /\ g >= 1 /\ before = g - 1
    BY <2>2 DEF Spans
  <2>4. before \in Run(dropped, s) <=> before + 1 \notin Run(dropped, s)
    BY <2>3
  <2>5. Separate(dropped, before) /\ before \in 1 .. Len(dropped.nodes) - 1
    BY <1>9, <1>10, <2>4, SingleSeparate
  <2>. QED BY <1>9, <2>5, MergeKeepsPath
<1>. QED BY <1>4, <1>9, <1>10

LEMMA TakeBackKeeps ==
    ASSUME NEW path, NEW own, Backs(path, own), Counted(path), NEW s \in Source, NEW v,
           NEW F, PoppedBack(own, F, s, v), NEW last \in BOOLEAN, last <=> F[s] = <<>>
    PROVE  Backs(TakeBack(path, s, v, last), F) /\ Counted(TakeBack(path, s, v, last))
<1>1. Shaped(path, own) /\ F[s] \in Seq(Word) /\ own[s] = Append(F[s], v) /\ v \in Word
  <2>1. Shaped(path, own)
    BY DEF Backs
  <2>2. F[s] \in Seq(Word) /\ own[s] = Append(F[s], v) /\ v \in Word
    BY DEF PoppedBack
  <2>. QED BY <2>1, <2>2
<1>. PICK h, t, n, size : Spans(path, own, s, h, t, n, size)
  <2>1. own[s] # <<>>
    <3>1. PICK q : q = F[s]
      OBVIOUS
    <3>2. q \in Seq(Word) /\ v \in Word /\ own[s] = Append(q, v)
      BY <1>1, <3>1
    <3>. QED BY <3>2
  <2>. QED BY <1>1, <2>1, RunSpans
<1>2. /\ h = path.heads[s] /\ t = path.tails[s] /\ size = Len(path.nodes) /\ n = Len(own[s])
      /\ h \in Nat /\ t \in Nat /\ n \in Nat /\ size \in Nat /\ h >= 1 /\ h <= t /\ t <= size
      /\ t = h + n - 1
  BY DEF Spans
<1>3. Len(F[s]) = n - 1 /\ (F[s] = <<>> <=> n = 1) /\ n >= 1
  <2>1. PICK q : q = F[s]
    OBVIOUS
  <2>2. n = Len(Append(q, v)) /\ q \in Seq(Word)
    BY <1>1, <1>2, <2>1
  <2>3. n = Len(q) + 1 /\ (q = <<>> <=> Len(q) = 0) /\ Len(q) \in Nat
    BY <2>2
  <2>. QED BY <2>1, <2>3
<1>. PICK parted :
        parted = [nodes |-> [path.nodes EXCEPT ![t] = Parted(@, v)],
                  heads |-> [path.heads EXCEPT ![s] = IF last THEN 0 ELSE @],
                  tails |-> [path.tails EXCEPT ![s] = IF last THEN 0 ELSE t - 1]]
  OBVIOUS
<1>. PICK dropped : dropped = Drop(parted, t)
  OBVIOUS
<1>. PICK tail : tail = dropped.tails[s]
  OBVIOUS
<1>4. TakeBack(path, s, v, last) =
        IF ~last /\ Single(dropped, tail) THEN Merge(dropped, tail) ELSE dropped
  BY <1>2 DEF TakeBack
<1>5. /\ parted.nodes = [path.nodes EXCEPT ![t] = Parted(@, v)]
      /\ parted.heads \in [Source -> Nat] /\ parted.tails \in [Source -> Nat]
      /\ parted.heads[s] = (IF last THEN 0 ELSE h) /\ parted.tails[s] = (IF last THEN 0 ELSE t - 1)
      /\ \A r \in Source : r # s => /\ parted.heads[r] = path.heads[r]
                                    /\ parted.tails[r] = path.tails[r]
  <2>1. path.heads \in [Source -> Nat] /\ path.tails \in [Source -> Nat] /\ t - 1 \in Nat
    BY SMTT(30), <1>1, <1>2 DEF Shaped
  <2>. QED BY <1>2, <2>1
<1>6. Window(parted, F, s)
  <2>1. CASE last
    BY <1>5, <2>1 DEF Window
  <2>2. CASE ~last
    <3>1. parted.heads[s] = h /\ parted.tails[s] = t - 1 /\ F[s] # <<>>
      BY <1>5, <2>2
    <3>2. h >= 1 /\ t - 1 <= Len(parted.nodes)
      <4>1. Len(parted.nodes) = size
        <5>1. path.nodes \in Seq(PathNode)
          BY <1>1 DEF Shaped
        <5>. QED BY <1>2, <1>5, <5>1
      <4>. QED BY <1>2, <4>1
    <3>3. t - 1 = h + (n - 1) - 1
      <4>1. h \in Nat /\ n \in Nat /\ t = h + n - 1
        BY <1>2
      <4>. QED BY <4>1
    <3>4. t - 1 = h + Len(F[s]) - 1
      BY <1>3, <3>3
    <3>. QED BY <3>1, <3>2, <3>4 DEF Window
  <2>. QED BY <2>1, <2>2
<1>7. Shaped(parted, F) /\ Len(parted.nodes) = Len(path.nodes) => Lengthens(parted, F, path, own, s, t, v)
  <2>1. F[s] # <<>> => parted.heads[s] = path.heads[s]
    BY <1>2, <1>5
  <2>. QED BY <1>1, <1>2, <2>1, LengthensBack
<1>8. Backs(parted, F) /\ CountedBut(parted, t) /\ t \in 1 .. Len(parted.nodes)
  <2>1. t \in 1 .. Len(path.nodes)
    BY <1>2
  <2>2. Gives(path, own, parted, F, s, t, v)
    BY <1>5, <2>1 DEF Gives, PoppedBack
  <2>3. Backs(parted, F) /\ CountedBut(parted, t) /\ Len(parted.nodes) = Len(path.nodes)
    BY <1>1, <1>6, <1>7, <2>2, PartStep
  <2>. QED BY <2>1, <2>3
<1>9. Backs(dropped, F) /\ Counted(dropped)
  BY <1>8, DropKeeps
<1>10. ASSUME ~last, Single(dropped, tail)
       PROVE  Backs(Merge(dropped, tail), F) /\ Counted(Merge(dropped, tail))
  <2>1. Shaped(dropped, F) /\ F[s] # <<>>
    BY <1>9, <1>10 DEF Backs
  <2>2. PICK g, u, m, sz : Spans(dropped, F, s, g, u, m, sz)
    BY <2>1, RunSpans
  <2>3. Run(dropped, s) = g .. u /\ g \in Nat /\ u \in Nat /\ g <= u /\ tail = u
    BY <2>2 DEF Spans
  <2>4. tail \in Run(dropped, s) <=> tail + 1 \notin Run(dropped, s)
    BY <2>3
  <2>5. Separate(dropped, tail) /\ tail \in 1 .. Len(dropped.nodes) - 1
    BY <1>9, <1>10, <2>4, SingleSeparate
  <2>. QED BY <1>9, <2>5, MergeKeepsPath
<1>. QED BY <1>4, <1>9, <1>10

-----------------------------------------------------------------------------
(* The whole list                                                          *)

\* The list backs up the sources, and has no node for nothing.
PathInv(path, own) == own \in [Source -> Seq(Word)] /\ Backs(path, own) /\ Counted(path)

LEMMA EmptyPath == PathInv(EmptyList, [s \in Source |-> <<>>])
<1>. PICK path, own : path = EmptyList /\ own = [s \in Source |-> <<>>]
  OBVIOUS
<1>1. /\ path.nodes = <<>> /\ path.heads = [s \in Source |-> 0] /\ path.tails = [s \in Source |-> 0]
      /\ own \in [Source -> Seq(Word)] /\ \A s \in Source : own[s] = <<>>
  BY DEF EmptyList
<1>2. Shaped(path, own)
  BY <1>1 DEF Shaped, Window
<1>3. 1 .. Len(path.nodes) = {}
  BY <1>1
<1>. QED BY <1>1, <1>2, <1>3 DEF PathInv, Backs, Counted

LEMMA BackKeepsPath ==
    ASSUME NEW path, NEW own, PathInv(path, own), NEW s \in Source, NEW value \in Word
    PROVE  PathInv(AddBack(path, s, value), [own EXCEPT ![s] = Append(@, value)])
<1>. PICK F : F = [own EXCEPT ![s] = Append(@, value)]
  OBVIOUS
<1>1. own \in [Source -> Seq(Word)] /\ Backs(path, own) /\ Counted(path)
  BY DEF PathInv
<1>2. F \in [Source -> Seq(Word)] /\ PushedBack(own, F, s, value)
  BY <1>1 DEF PushedBack
<1>3. Backs(AddBack(path, s, value), F) /\ Counted(AddBack(path, s, value))
  BY <1>1, <1>2, AddBackKeeps
<1>. QED BY <1>2, <1>3 DEF PathInv

LEMMA FrontKeepsPath ==
    ASSUME NEW path, NEW own, PathInv(path, own), NEW s \in Source, NEW value \in Word
    PROVE  PathInv(AddFront(path, s, value), [own EXCEPT ![s] = <<value>> \o @])
<1>. PICK F : F = [own EXCEPT ![s] = <<value>> \o @]
  OBVIOUS
<1>1. own \in [Source -> Seq(Word)] /\ Backs(path, own) /\ Counted(path)
  BY DEF PathInv
<1>2. F \in [Source -> Seq(Word)] /\ PushedFront(own, F, s, value)
  BY <1>1 DEF PushedFront
<1>3. Backs(AddFront(path, s, value), F) /\ Counted(AddFront(path, s, value))
  BY <1>1, <1>2, AddFrontKeeps
<1>. QED BY <1>2, <1>3 DEF PathInv

LEMMA HeadKeepsPath ==
    ASSUME NEW path, NEW own, PathInv(path, own), NEW s \in Source, own[s] # <<>>
    PROVE  PathInv(TakeFront(path, s, Head(own[s]), Len(own[s]) = 1), [own EXCEPT ![s] = Tail(@)])
<1>. PICK q, F : q = own[s] /\ F = [own EXCEPT ![s] = Tail(q)]
  OBVIOUS
<1>1. own \in [Source -> Seq(Word)] /\ Backs(path, own) /\ Counted(path)
      /\ q # <<>> /\ q \in Seq(Word)
  BY DEF PathInv
<1>2. /\ Tail(q) \in Seq(Word) /\ q = <<Head(q)>> \o Tail(q) /\ Head(q) \in Word
      /\ (Len(q) = 1) <=> Tail(q) = <<>>
  <2>1. Tail(q) \in Seq(Word) /\ Head(q) \in Word /\ Len(Tail(q)) = Len(q) - 1
        /\ Len(q) \in Nat /\ Head(q) = q[1] /\ \A i \in 1 .. Len(q) - 1 : Tail(q)[i] = q[i + 1]
    BY <1>1
  <2>. PICK e, r : e = Head(q) /\ r = Tail(q)
    OBVIOUS
  <2>2. /\ <<e>> \o r \in Seq(Word) /\ Len(<<e>> \o r) = Len(q)
        /\ \A i \in 1 .. Len(q) : (<<e>> \o r)[i] = q[i]
    BY <2>1
  <2>3. q = <<e>> \o r
    BY <1>1, <2>2, SeqEqual
  <2>4. (Len(q) = 1) <=> r = <<>>
    <3>1. r \in Seq(Word) /\ Len(r) = Len(q) - 1 /\ Len(q) \in Nat
      BY <2>1
    <3>2. Len(r) = 0 <=> r = <<>>
      BY <3>1, EmptySeq
    <3>. QED BY <3>1, <3>2
  <2>. QED BY <2>1, <2>3, <2>4
<1>3. F \in [Source -> Seq(Word)] /\ F[s] = Tail(q) /\ PoppedFront(own, F, s, Head(q))
  BY <1>1, <1>2 DEF PoppedFront
<1>. PICK last \in BOOLEAN : last <=> Len(q) = 1
  OBVIOUS
<1>4. last <=> F[s] = <<>>
  BY <1>2, <1>3
<1>5. Backs(TakeFront(path, s, Head(q), last), F) /\ Counted(TakeFront(path, s, Head(q), last))
  BY <1>1, <1>3, <1>4, TakeFrontKeeps
<1>6. TakeFront(path, s, Head(q), last) = TakeFront(path, s, Head(own[s]), Len(own[s]) = 1)
  OBVIOUS
<1>. QED BY <1>3, <1>5, <1>6 DEF PathInv

LEMMA LastKeepsPath ==
    ASSUME NEW path, NEW own, PathInv(path, own), NEW s \in Source, own[s] # <<>>
    PROVE  PathInv(TakeBack(path, s, Last(own[s]), Len(own[s]) = 1), [own EXCEPT ![s] = Front(@)])
<1>. PICK q, F : q = own[s] /\ F = [own EXCEPT ![s] = Front(q)]
  OBVIOUS
<1>1. own \in [Source -> Seq(Word)] /\ Backs(path, own) /\ Counted(path)
      /\ q # <<>> /\ q \in Seq(Word)
  BY DEF PathInv
<1>2. /\ Front(q) \in Seq(Word) /\ q = Append(Front(q), Last(q)) /\ Last(q) \in Word
      /\ (Len(q) = 1) <=> Front(q) = <<>>
  <2>1. /\ Front(q) \in Seq(Word) /\ Len(Front(q)) = Len(q) - 1
        /\ \A i \in 1 .. Len(q) - 1 : Front(q)[i] = q[i]
        /\ Last(q) \in Word /\ Last(q) = q[Len(q)]
        /\ Len(q) \in Nat /\ Len(q) >= 1
    BY <1>1, FrontProperties
  <2>. PICK p, e : p = Front(q) /\ e = Last(q)
    OBVIOUS
  <2>2. Append(p, e) = q
    <3>1. /\ Append(p, e) \in Seq(Word) /\ Len(Append(p, e)) = Len(q)
          /\ \A i \in 1 .. Len(q) : Append(p, e)[i] = q[i]
      BY <2>1
    <3>. QED BY <1>1, <3>1, SeqEqual
  <2>3. (Len(q) = 1) <=> p = <<>>
    <3>1. p \in Seq(Word) /\ Len(p) = Len(q) - 1 /\ Len(q) \in Nat
      BY <2>1
    <3>2. Len(p) = 0 <=> p = <<>>
      BY <3>1, EmptySeq
    <3>. QED BY <3>1, <3>2
  <2>. QED BY <2>1, <2>2, <2>3
<1>3. F \in [Source -> Seq(Word)] /\ F[s] = Front(q) /\ PoppedBack(own, F, s, Last(q))
  BY <1>1, <1>2 DEF PoppedBack
<1>. PICK last \in BOOLEAN : last <=> Len(q) = 1
  OBVIOUS
<1>4. last <=> F[s] = <<>>
  BY <1>2, <1>3
<1>5. Backs(TakeBack(path, s, Last(q), last), F) /\ Counted(TakeBack(path, s, Last(q), last))
  BY <1>1, <1>3, <1>4, TakeBackKeeps
<1>6. TakeBack(path, s, Last(q), last) = TakeBack(path, s, Last(own[s]), Len(own[s]) = 1)
  OBVIOUS
<1>. QED BY <1>3, <1>5, <1>6 DEF PathInv

\* The run of a source has a node for each of its elements.
LEMMA RunCounted ==
    ASSUME NEW path, NEW own, Shaped(path, own), NEW s \in Source
    PROVE  /\ Cardinality(Run(path, s)) = Len(own[s]) /\ IsFiniteSet(Run(path, s))
           /\ path.heads[s] = 0 <=> path.tails[s] = 0
<1>1. CASE own[s] = <<>>
  <2>1. Run(path, s) = {} /\ path.heads[s] = 0 /\ path.tails[s] = 0 /\ Len(own[s]) = 0
    BY <1>1, RunIs
  <2>. QED BY <2>1, FS_EmptySet
<1>2. CASE own[s] # <<>>
  <2>1. PICK h, t, n, size : Spans(path, own, s, h, t, n, size)
    BY <1>2, RunSpans
  <2>2. /\ Run(path, s) = h .. t /\ h \in Int /\ t \in Int /\ h <= t /\ h >= 1 /\ t >= 1
        /\ path.heads[s] = h /\ path.tails[s] = t
    BY <2>1 DEF Spans
  <2>3. Cardinality(h .. t) = t - h + 1 /\ IsFiniteSet(h .. t)
    BY <2>2, FS_Interval
  <2>4. n = t - h + 1 /\ Len(own[s]) = n
    <3>1. h \in Nat /\ t \in Nat /\ n \in Nat /\ t = h + n - 1 /\ Len(own[s]) = n
      BY <2>1 DEF Spans
    <3>. QED BY <3>1
  <2>. QED BY <2>2, <2>3, <2>4
<1>. QED BY <1>1, <1>2

\* A node counts the runs it is on, which are not none.
LEMMA NodeCounted ==
    ASSUME NEW path, NEW own, PathInv(path, own), NEW i \in DOMAIN path.nodes
    PROVE  /\ path.nodes[i].refCount > 0
           /\ path.nodes[i].refCount = Cardinality({s \in Source : i \in Run(path, s)})
<1>1. i \in 1 .. Len(path.nodes)
  BY DEF PathInv, Backs, Shaped
<1>2. Bears(path.nodes[i], At(path, own, i), On(path, i)) /\ path.nodes[i].refCount > 0
  BY <1>1 DEF PathInv, Backs, Counted
<1>. QED BY <1>2 DEF Bears, On

\* The list is covered by the runs, as long as their sources.
LEMMA PathCovers ==
    ASSUME NEW path, NEW own, PathInv(path, own)
    PROVE  \E runs : Covers(runs, own, Len(path.nodes))
<1>. DEFINE runs == [s \in Source |-> Run(path, s)]
<1>1. Shaped(path, own)
  BY DEF PathInv, Backs
<1>2. ASSUME NEW s \in Source
      PROVE  runs[s] \in SUBSET (1 .. Len(path.nodes)) /\ Cardinality(runs[s]) = Len(own[s])
  BY <1>1, RunIs, RunCounted
<1>3. ASSUME NEW i \in 1 .. Len(path.nodes) PROVE \E s \in Source : i \in runs[s]
  <2>1. path.nodes[i].refCount > 0 /\ i \in DOMAIN path.nodes
    BY <1>1 DEF PathInv, Counted, Shaped
  <2>2. Cardinality({s \in Source : i \in Run(path, s)}) > 0
    BY <2>1, NodeCounted
  <2>3. {s \in Source : i \in Run(path, s)} # {}
    BY <2>2, FS_EmptySet
  <2>. QED BY <2>3
<1>4. Len(path.nodes) \in Nat /\ DOMAIN own = Source
  BY <1>1 DEF Shaped, PathInv
<1>. HIDE DEF runs
<1>5. Covers(runs, own, Len(path.nodes))
  BY <1>2, <1>3, <1>4 DEF Covers
<1>. QED BY <1>5
\* PathNode i with the elements of the other sources XORed out of it is the
\* element of the missing one.
LEMMA ElementRecovered ==
    ASSUME NEW path, NEW own, Backs(path, own), NEW missing \in Source,
           NEW i \in Run(path, missing),
           NEW survivors, DOMAIN survivors = Source \ {missing},
           \A s \in Source \ {missing} : survivors[s] = own[s]
    PROVE  RecoverElement(path, i, survivors) = Elem(path, own, i, missing)
<1>1. Shaped(path, own)
  BY DEF Backs
<1>2. i \in 1 .. Len(path.nodes)
  BY <1>1, RunIs
<1>. PICK f, S, node : f = At(path, own, i) /\ S = On(path, i) /\ node = path.nodes[i]
  OBVIOUS
<1>3. /\ IsFiniteSet(S) /\ WordsOn(f, S) /\ missing \in S
      /\ node.value = XorOver(f, S)
  <2>1. Bears(node, f, S)
    BY <1>2 DEF Backs
  <2>2. missing \in S
    BY DEF On
  <2>. QED BY <2>1, <2>2 DEF Bears
<1>. PICK here : here = {s \in DOMAIN survivors : i \in Run(path, s)}
  OBVIOUS
<1>. PICK g : g = [s \in here |-> survivors[s][i - path.heads[s] + 1]]
  OBVIOUS
<1>4. here = S \ {missing}
  BY DEF On
<1>5. \A s \in here : g[s] = f[s]
  <2>1. ASSUME NEW s \in here PROVE g[s] = f[s]
    <3>1. s \in Source /\ survivors[s] = own[s]
      OBVIOUS
    <3>2. f[s] = own[s][i - path.heads[s] + 1]
      BY <3>1 DEF At, Elem
    <3>3. g[s] = survivors[s][i - path.heads[s] + 1]
      OBVIOUS
    <3>. QED BY <3>1, <3>2, <3>3
  <2>. QED BY <2>1
<1>6. IsFiniteSet(here) /\ WordsOn(f, here)
  BY <1>3, <1>4, FS_Subset DEF WordsOn
<1>7. XorOver(g, here) = XorOver(f, here) /\ XorOver(f, here) \in Word
  BY <1>5, <1>6, XorOverSame, XorOverTyped
<1>8. node.value = Xor(f[missing], XorOver(f, here)) /\ f[missing] \in Word
  BY <1>3, <1>4, XorOverRemove DEF WordsOn
<1>9. Xor(node.value, XorOver(g, here)) = f[missing]
  BY <1>7, <1>8, XorLaws
<1>10. RecoverElement(path, i, survivors) = Xor(node.value, XorOver(g, here))
  BY DEF RecoverElement
<1>. QED BY <1>9, <1>10 DEF At

\* Whichever source is lost, the others and the list give it back in its order.
LEMMA PathRecovers ==
    ASSUME NEW path, NEW own, PathInv(path, own), NEW missing \in Source,
           NEW survivors, DOMAIN survivors = Source \ {missing},
           \A s \in Source \ {missing} : survivors[s] = own[s]
    PROVE  /\ PathSurvivorsFit(path, missing, survivors)
           /\ RecoverRun(path, missing, survivors) = own[missing]
<1>1. Backs(path, own) /\ Shaped(path, own) /\ own[missing] \in Seq(Word)
  BY DEF PathInv, Backs
<1>2. \A s \in Source : Cardinality(Run(path, s)) = Len(own[s])
  BY <1>1, RunCounted
<1>3. PathSurvivorsFit(path, missing, survivors)
  BY <1>2 DEF PathSurvivorsFit
<1>. PICK n \in Nat : n = Len(own[missing])
  BY <1>1
<1>4. RecoverRun(path, missing, survivors) =
          [k \in 1 .. n |-> RecoverElement(path, path.heads[missing] + k - 1, survivors)]
  BY <1>2 DEF RecoverRun
<1>5. ASSUME NEW k \in 1 .. n
      PROVE  RecoverElement(path, path.heads[missing] + k - 1, survivors) = own[missing][k]
  <2>1. own[missing] # <<>>
    BY <1>1
  <2>2. PICK h, t, m, size : Spans(path, own, missing, h, t, m, size)
    BY <1>1, <2>1, RunSpans
  <2>3. /\ Run(path, missing) = h .. t /\ h \in Nat /\ t \in Nat /\ h = path.heads[missing]
        /\ t = h + n - 1
    BY <2>2 DEF Spans
  <2>. PICK i : i = h + k - 1
    OBVIOUS
  <2>4. i \in Run(path, missing) /\ i - h + 1 = k
    <3>1. n \in Nat /\ k \in 1 .. n /\ i = h + k - 1
      OBVIOUS
    <3>2. h \in Nat /\ t = h + n - 1
      BY ONLY <2>3
    <3>3. i \in h .. t /\ i - h + 1 = k
      BY ONLY SMTT(30), <3>1, <3>2
    <3>. QED BY ONLY <2>3, <3>3
  <2>5. RecoverElement(path, i, survivors) = Elem(path, own, i, missing)
    BY <1>1, <2>4, ElementRecovered
  <2>6. Elem(path, own, i, missing) = own[missing][k]
    BY <2>3, <2>4 DEF Elem
  <2>. QED BY <2>3, <2>5, <2>6
<1>6. own[missing] = [k \in 1 .. n |-> own[missing][k]]
  BY <1>1
<1>7. RecoverRun(path, missing, survivors) = own[missing]
  BY <1>4, <1>5, <1>6
<1>. QED BY <1>3, <1>7

-----------------------------------------------------------------------------
(* Sources in order, and sources without repetition                        *)

Ascending(q) == \A i, j \in 1 .. Len(q) : i < j => q[i] <= q[j]
Distinct(q) == \A i, j \in 1 .. Len(q) : q[i] = q[j] => i = j

LEMMA SourceNats ==
    ASSUME NEW q \in Seq(Word), NEW v \in Word
    PROVE  v \in Nat /\ \A i \in 1 .. Len(q) : q[i] \in Nat
<1>1. \A i \in 1 .. Len(q) : q[i] \in Word
  OBVIOUS
<1>. QED BY <1>1, XorAssumption

\* The search divides a source into what is below the value and what is not.
LEMMA SearchIs ==
    ASSUME NEW q \in Seq(Word), Ascending(q), NEW v \in Word
    PROVE  /\ Search(q, v) \in 0 .. Len(q)
           /\ \A i \in 1 .. Len(q) : i <= Search(q, v) <=> q[i] < v
<1>. PICK n \in Nat : n = Len(q)
  OBVIOUS
<1>. PICK T : T = {i \in 1 .. n : q[i] < v}
  OBVIOUS
<1>0. v \in Nat /\ \A i \in 1 .. n : q[i] \in Nat
  BY SourceNats
<1>1. Search(q, v) = Cardinality(T)
  <2>1. DOMAIN q = 1 .. n
    OBVIOUS
  <2>2. {i \in DOMAIN q : q[i] < v} = T
    BY <2>1
  <2>. QED BY Zenon, <2>2 DEF Search
<1>2. \E m \in 0 .. n : T = 1 .. m
  <2>1. CASE T = {}
    <3>1. 1 .. 0 = {} /\ 0 \in 0 .. n
      OBVIOUS
    <3>. QED BY <2>1, <3>1
  <2>2. CASE T # {}
    <3>1. T \in SUBSET Nat /\ \A i \in T : i <= n
      OBVIOUS
    <3>2. PICK m \in T : \A i \in T : i <= m
      <4>1. 0 \in Int /\ n \in Int /\ 1 \in Int
        OBVIOUS
      <4>2. IsFiniteSet(1 .. n)
        BY <4>1, FS_Interval
      <4>3. T \in SUBSET (1 .. n)
        OBVIOUS
      <4>4. IsFiniteSet(T)
        BY <4>2, <4>3, FS_Subset
      <4>. PICK m : m = Max(T)
        OBVIOUS
      <4>5. m \in T /\ \A i \in T : i <= m
        BY <2>2, <3>1, <4>4, LargestNumber
      <4>. QED BY <4>5
    <3>3. m \in 1 .. n /\ q[m] < v
      OBVIOUS
    <3>4. ASSUME NEW i \in 1 .. m PROVE i \in T
      <4>1. i \in 1 .. n /\ i <= m
        BY <3>3
      <4>2. q[i] <= q[m]
        <5>1. CASE i = m
          BY <1>0, <4>1, <5>1
        <5>2. CASE i < m
          BY <3>3, <4>1, <5>2 DEF Ascending
        <5>. QED BY <3>3, <4>1, <5>1, <5>2
      <4>. QED BY <1>0, <3>3, <4>1, <4>2
    <3>5. ASSUME NEW i \in T PROVE i \in 1 .. m
      BY <3>2, <3>3
    <3>6. T = 1 .. m
      BY <3>4, <3>5
    <3>. QED BY <3>3, <3>6
  <2>. QED BY <2>1, <2>2
<1>3. PICK m \in 0 .. n : T = 1 .. m
  BY <1>2
<1>4. Cardinality(T) = m
  <2>1. \A a, b \in Int : Cardinality(a .. b) = IF a > b THEN 0 ELSE b - a + 1
    BY FS_Interval
  <2>2. 1 \in Int /\ m \in Int /\ m \in Nat
    OBVIOUS
  <2>3. Cardinality(1 .. m) = IF 1 > m THEN 0 ELSE m - 1 + 1
    BY Zenon, <2>1, <2>2
  <2>4. (IF 1 > m THEN 0 ELSE m - 1 + 1) = m
    BY <2>2
  <2>. QED BY <1>3, <2>3, <2>4
<1>5. ASSUME NEW i \in 1 .. n PROVE i <= m <=> q[i] < v
  <2>1. i \in T <=> q[i] < v
    OBVIOUS
  <2>2. i \in 1 .. m <=> i <= m
    OBVIOUS
  <2>. QED BY <1>3, <2>1, <2>2
<1>. QED BY <1>1, <1>4, <1>5

\* A value that is there is found, if there is only one of it.
LEMMA SearchFinds ==
    ASSUME NEW q \in Seq(Word), Ascending(q), Distinct(q), NEW i \in 1 .. Len(q)
    PROVE  Search(q, q[i]) = i - 1
<1>. PICK v \in Word : v = q[i]
  OBVIOUS
<1>. PICK c : c = Search(q, v)
  OBVIOUS
<1>1. c \in 0 .. Len(q) /\ \A j \in 1 .. Len(q) : j <= c <=> q[j] < v
  BY SearchIs
<1>2. \A j \in 1 .. Len(q) : q[j] \in Nat
  BY SourceNats
<1>3. ~(i <= c)
  BY <1>1, <1>2
<1>4. ASSUME NEW j \in 1 .. Len(q), j < i PROVE q[j] < v
  <2>1. q[j] <= q[i]
    BY <1>4 DEF Ascending
  <2>2. q[j] # q[i]
    BY <1>4 DEF Distinct
  <2>. QED BY <1>2, <2>1, <2>2
<1>5. \A j \in 1 .. Len(q) : j < i => j <= c
  BY <1>1, <1>4
<1>6. ~(c < i - 1)
  <2>. SUFFICES ASSUME c < i - 1 PROVE FALSE
    OBVIOUS
  <2>1. c + 1 \in 1 .. Len(q) /\ c + 1 < i
    BY <1>1
  <2>2. c + 1 <= c
    BY <1>5, <2>1
  <2>. QED BY <1>1, <2>2
<1>. QED BY <1>1, <1>3, <1>6

\* An insertion between what is below and what is not keeps the order.
LEMMA InsertBetween ==
    ASSUME NEW q \in Seq(Word), Ascending(q), NEW v \in Word, NEW c \in 1 .. Len(q) + 1,
           \A i \in 1 .. Len(q) : i < c <=> q[i] < v
    PROVE  Ascending(InsertAt(q, c, v))
<1>. PICK new : new = InsertAt(q, c, v)
  OBVIOUS
<1>1. \A i \in 1 .. Len(q) : i < c <=> q[i] < v
  OBVIOUS
<1>2. /\ Len(new) = Len(q) + 1
      /\ \A j \in 1 .. Len(q) + 1 :
            new[j] = IF j < c THEN q[j] ELSE IF j = c THEN v ELSE q[j - 1]
  BY InsertAtIs
<1>3. v \in Nat /\ \A i \in 1 .. Len(q) : q[i] \in Nat
  BY SourceNats
<1>4. ASSUME NEW i \in 1 .. Len(q) + 1, NEW j \in 1 .. Len(q) + 1, i < j PROVE new[i] <= new[j]
  <2>1. CASE j < c
    <3>1. i \in 1 .. Len(q) /\ j \in 1 .. Len(q) /\ i < c
      BY <1>1, <1>4, <2>1
    <3>2. new[i] = q[i] /\ new[j] = q[j]
      BY <1>2, <2>1, <3>1
    <3>. QED BY <1>4, <3>1, <3>2 DEF Ascending
  <2>2. CASE j = c
    <3>1. i \in 1 .. Len(q) /\ i < c
      BY <1>1, <1>4, <2>2
    <3>2. new[i] = q[i] /\ new[j] = v /\ q[i] < v
      BY <1>1, <1>2, <2>2, <3>1
    <3>. QED BY <1>3, <3>1, <3>2
  <2>3. CASE j > c
    <3>. PICK k : k = j - 1
      OBVIOUS
    <3>1. k \in 1 .. Len(q) /\ ~(k < c) /\ ~(j < c) /\ j # c
      BY <1>1, <2>3
    <3>2. new[j] = q[k] /\ v <= q[k]
      <4>1. new[j] = q[k]
        BY <1>2, <3>1
      <4>2. ~(q[k] < v)
        BY <1>1, <3>1
      <4>. QED BY <1>3, <3>1, <4>1, <4>2
    <3>3. CASE i < c
      <4>1. i \in 1 .. Len(q) /\ i < k
        BY <1>1, <1>4, <3>1, <3>3
      <4>2. new[i] = q[i] /\ q[i] <= q[k]
        BY <1>2, <3>1, <3>3, <4>1 DEF Ascending
      <4>. QED BY <3>2, <4>2
    <3>4. CASE i = c
      BY <1>2, <3>2, <3>4
    <3>5. CASE i > c
      <4>. PICK m : m = i - 1
        OBVIOUS
      <4>1. m \in 1 .. Len(q) /\ m < k /\ ~(i < c) /\ i # c
        BY <1>1, <1>4, <3>5
      <4>2. new[i] = q[m] /\ q[m] <= q[k]
        BY <1>2, <3>1, <4>1 DEF Ascending
      <4>. QED BY <3>2, <4>2
    <3>. QED BY <1>1, <3>3, <3>4, <3>5
  <2>. QED BY <1>1, <2>1, <2>2, <2>3
<1>. QED BY <1>2, <1>4 DEF Ascending

\* That is where the search ends.
LEMMA InsertKeepsOrder ==
    ASSUME NEW q \in Seq(Word), Ascending(q), NEW v \in Word
    PROVE  /\ Search(q, v) + 1 \in 1 .. Len(q) + 1
           /\ Ascending(InsertAt(q, Search(q, v) + 1, v))
<1>. PICK m : m = Search(q, v)
  OBVIOUS
<1>1. m \in 0 .. Len(q) /\ \A i \in 1 .. Len(q) : i <= m <=> q[i] < v
  BY SearchIs
<1>. PICK c : c = m + 1
  OBVIOUS
<1>2. c \in 1 .. Len(q) + 1
  BY <1>1
<1>3. \A i \in 1 .. Len(q) : i < c <=> i <= m
  BY <1>1
<1>4. Ascending(InsertAt(q, c, v))
  <2>1. \A i \in 1 .. Len(q) : i < c <=> q[i] < v
    BY <1>1, <1>3
  <2>. QED BY <1>2, <2>1, InsertBetween
<1>. QED BY <1>2, <1>4

\* A removal keeps the order and brings no repetition.
LEMMA RemoveKeepsOrder ==
    ASSUME NEW q \in Seq(Word), NEW c \in 1 .. Len(q)
    PROVE  /\ Ascending(q) => Ascending(RemoveAt(q, c))
           /\ Distinct(q) => Distinct(RemoveAt(q, c))
<1>. PICK new : new = RemoveAt(q, c)
  OBVIOUS
<1>1. /\ Len(new) = Len(q) - 1
      /\ \A j \in 1 .. Len(q) - 1 : new[j] = IF j < c THEN q[j] ELSE q[j + 1]
  BY RemoveAtIs
<1>2. ASSUME NEW i \in 1 .. Len(q) - 1, NEW j \in 1 .. Len(q) - 1
      PROVE  \E m, k \in 1 .. Len(q) : /\ new[i] = q[m] /\ new[j] = q[k]
                                       /\ (i < j => m < k) /\ (m = k => i = j)
  <2>1. PICK m \in 1 .. Len(q) : m = IF i < c THEN i ELSE i + 1
    OBVIOUS
  <2>2. PICK k \in 1 .. Len(q) : k = IF j < c THEN j ELSE j + 1
    OBVIOUS
  <2>3. new[i] = q[m] /\ new[j] = q[k]
    BY <1>1, <2>1, <2>2
  <2>4. (i < j => m < k) /\ (m = k => i = j)
    BY <2>1, <2>2
  <2>. QED BY <2>3, <2>4
<1>3. Ascending(q) => Ascending(new)
  <2>. SUFFICES ASSUME Ascending(q), NEW i \in 1 .. Len(q) - 1, NEW j \in 1 .. Len(q) - 1, i < j
                PROVE  new[i] <= new[j]
    BY <1>1 DEF Ascending
  <2>1. PICK m, k \in 1 .. Len(q) : new[i] = q[m] /\ new[j] = q[k] /\ m < k
    BY <1>2
  <2>. QED BY <2>1 DEF Ascending
<1>4. Distinct(q) => Distinct(new)
  <2>. SUFFICES ASSUME Distinct(q), NEW i \in 1 .. Len(q) - 1, NEW j \in 1 .. Len(q) - 1,
                       new[i] = new[j]
                PROVE  i = j
    BY <1>1 DEF Distinct
  <2>1. PICK m, k \in 1 .. Len(q) : new[i] = q[m] /\ new[j] = q[k] /\ (m = k => i = j)
    BY <1>2
  <2>. QED BY <2>1 DEF Distinct
<1>. QED BY <1>3, <1>4

\* A new value at any place brings no repetition.
LEMMA InsertKeepsDistinct ==
    ASSUME NEW q \in Seq(Word), Distinct(q), NEW c \in 1 .. Len(q) + 1, NEW v \in Word,
           \A i \in 1 .. Len(q) : q[i] # v
    PROVE  Distinct(InsertAt(q, c, v))
<1>. PICK new : new = InsertAt(q, c, v)
  OBVIOUS
<1>1. /\ Len(new) = Len(q) + 1
      /\ \A j \in 1 .. Len(q) + 1 :
            new[j] = IF j < c THEN q[j] ELSE IF j = c THEN v ELSE q[j - 1]
  BY InsertAtIs
<1>2. ASSUME NEW i \in 1 .. Len(q) + 1, NEW j \in 1 .. Len(q) + 1, i < j PROVE new[i] # new[j]
  <2>1. CASE i = c
    <3>. PICK k : k = j - 1
      OBVIOUS
    <3>1. k \in 1 .. Len(q) /\ ~(j < c) /\ j # c
      BY <1>2, <2>1
    <3>2. new[i] = v /\ new[j] = q[k]
      BY <1>1, <2>1, <3>1
    <3>. QED BY <3>1, <3>2
  <2>2. CASE j = c
    <3>1. i \in 1 .. Len(q) /\ i < c
      BY <1>2, <2>2
    <3>2. new[i] = q[i] /\ new[j] = v
      BY <1>1, <2>2, <3>1
    <3>. QED BY <3>1, <3>2
  <2>3. CASE i # c /\ j # c
    <3>1. PICK m \in 1 .. Len(q) : m = IF i < c THEN i ELSE i - 1
      BY <2>3
    <3>2. PICK k \in 1 .. Len(q) : k = IF j < c THEN j ELSE j - 1
      BY <2>3
    <3>3. new[i] = q[m] /\ new[j] = q[k]
      BY <1>1, <2>3, <3>1, <3>2
    <3>4. m # k
      BY <1>2, <2>3, <3>1, <3>2
    <3>. QED BY <3>3, <3>4 DEF Distinct
  <2>. QED BY <2>1, <2>2, <2>3
<1>3. ASSUME NEW i \in 1 .. Len(q) + 1, NEW j \in 1 .. Len(q) + 1, new[i] = new[j] PROVE i = j
  <2>1. ~(i < j) /\ ~(j < i)
    BY <1>2, <1>3
  <2>. QED BY <2>1
<1>. QED BY <1>1, <1>3 DEF Distinct

\* Without its first element a sequence is its tail.
LEMMA HeadRemoved ==
    ASSUME NEW q \in Seq(Word), q # <<>>
    PROVE  RemoveAt(q, 1) = Tail(q)
<1>1. 1 \in 1 .. Len(q) /\ Len(q) \in Nat
  OBVIOUS
<1>2. /\ RemoveAt(q, 1) \in Seq(Word) /\ Len(RemoveAt(q, 1)) = Len(q) - 1
      /\ \A j \in 1 .. Len(q) - 1 : RemoveAt(q, 1)[j] = IF j < 1 THEN q[j] ELSE q[j + 1]
  BY <1>1, RemoveAtIs
<1>3. /\ Tail(q) \in Seq(Word) /\ Len(Tail(q)) = Len(q) - 1
      /\ \A j \in 1 .. Len(q) - 1 : Tail(q)[j] = q[j + 1]
  BY HeadTailProperties
<1>4. \A j \in 1 .. Len(q) - 1 : RemoveAt(q, 1)[j] = Tail(q)[j]
  BY <1>2, <1>3
<1>. QED BY <1>2, <1>3, <1>4, SeqEqual
=============================================================================
