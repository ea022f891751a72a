---------------------------- MODULE SharedLemmas ----------------------------
(***************************************************************************)
(* What the proofs about several components rest on: least numbers,        *)
(* sequences and what they list, sums over finite sets whatever the order  *)
(* they are taken in, measures that add up over disjoint sets, and lists in*)
(* the order of a relation.                                                *)
(***************************************************************************)
EXTENDS Integers, Sequences, FiniteSets, SequencesExt, FiniteSetTheorems, SequenceTheorems,
        WellFoundedInduction, NaturalsInduction, TLAPS

NumberOrder == {p \in Nat \X Nat : p[1] < p[2]}

\* Every set of numbers has a least one.
LEMMA LeastNumber ==
    ASSUME NEW S \in SUBSET Nat, S # {}
    PROVE  \E m \in S : \A n \in S : m <= n
  <1>1. IsWellFoundedOn(NumberOrder, Nat)
    BY NatLessThanWellFounded DEF OpToRel, NumberOrder
  <1>2. PICK m \in S : \A n \in S : ~ (<<n, m>> \in NumberOrder)
    BY <1>1, WFMin
  <1>3. \A n \in S : ~ (n < m)
    BY <1>2 DEF NumberOrder
  <1> QED BY <1>3

\* The equation of the recursion in FlattenSeq, on the first n sequences.
Flattens(g, seqs, n) ==
    g = [i \in 1..n |-> IF i = 1 THEN seqs[i] ELSE g[i - 1] \o seqs[i]]

\* The recursion defines a function: one on n - 1 sequences extends to n.
LEMMA FlattenExists ==
    ASSUME NEW seqs, NEW n \in Nat
    PROVE  \E g : Flattens(g, seqs, n)
  <1> DEFINE Bad == {k \in Nat : ~ \E g : Flattens(g, seqs, k)}
  <1>1. SUFFICES ASSUME Bad # {} PROVE FALSE
    OBVIOUS
  <1>2. PICK k \in Bad : \A l \in Bad : k <= l
    <2>1. Bad \in SUBSET Nat
      OBVIOUS
    <2> HIDE DEF Bad
    <2> QED BY <1>1, <2>1, LeastNumber
  <1>3. k \in Nat /\ ~ \E g : Flattens(g, seqs, k)
    OBVIOUS
  <1>4. CASE k = 0
    <2>1. Flattens([i \in 1..0 |-> 0], seqs, 0)
      BY DEF Flattens
    <2> QED BY <1>3, <1>4, <2>1
  <1>5. CASE k # 0
    <2>1. k - 1 \in Nat /\ k - 1 \notin Bad
      <3>1. k - 1 \in Nat /\ ~ (k <= k - 1)
        BY <1>3, <1>5
      <3> HIDE DEF Bad
      <3> QED BY <1>2, <3>1
    <2>2. PICK h : Flattens(h, seqs, k - 1)
      BY <2>1
    <2> DEFINE g == [i \in 1..k |-> IF i = 1 THEN seqs[i] ELSE h[i - 1] \o seqs[i]]
    <2>3. ASSUME NEW i \in 1..(k - 1) PROVE g[i] = h[i]
      <3>1. h[i] = IF i = 1 THEN seqs[i] ELSE h[i - 1] \o seqs[i]
        BY <2>2 DEF Flattens
      <3>2. i \in 1..k
        BY <1>3
      <3> QED BY <3>1, <3>2
    <2>4. ASSUME NEW i \in 1..k
          PROVE  g[i] = IF i = 1 THEN seqs[i] ELSE g[i - 1] \o seqs[i]
      <3>1. CASE i = 1
        BY <3>1
      <3>2. CASE i # 1
        <4>1. i - 1 \in 1..(k - 1)
          BY <1>3, <3>2
        <4>2. g[i - 1] = h[i - 1]
          BY <2>3, <4>1
        <4> QED BY <3>2, <4>2
      <3> QED BY <3>1, <3>2
    <2>5. DOMAIN g = 1..k
      OBVIOUS
    <2>6. g = [i \in DOMAIN g |-> g[i]]
      OBVIOUS
    <2>7. Flattens(g, seqs, k)
      <3> HIDE DEF g
      <3> QED BY <2>4, <2>5, <2>6 DEF Flattens
    <2> QED BY <1>3, <2>7
  <1> QED BY <1>4, <1>5

\* What is flattened is a sequence of the items there are.
LEMMA FlattenLists ==
    ASSUME NEW S, NEW seqs \in Seq(Seq(S))
    PROVE  FlattenSeq(seqs) \in Seq(S)
  <1>1. CASE Len(seqs) = 0
    <2>1. seqs = <<>>
      BY <1>1
    <2> QED BY <1>1, <2>1 DEF FlattenSeq
  <1>2. CASE Len(seqs) # 0
    <2> DEFINE n == Len(seqs)
               f == CHOOSE g : Flattens(g, seqs, n)
               Bad == {k \in 1..n : f[k] \notin Seq(S)}
    <2>1. n \in Nat /\ n # 0
      BY <1>2
    <2>2. FlattenSeq(seqs) = f[n]
      BY <1>2 DEF FlattenSeq, Flattens
    <2>3. Flattens(f, seqs, n)
      BY <2>1, FlattenExists
    <2>4. \A k \in 1..n : f[k] = IF k = 1 THEN seqs[k] ELSE f[k - 1] \o seqs[k]
      <3> HIDE DEF f, n
      <3> QED BY <2>3 DEF Flattens
    <2>5. \A k \in 1..n : seqs[k] \in Seq(S)
      OBVIOUS
    <2> HIDE DEF f, n
    <2>6. ASSUME Bad # {} PROVE FALSE
      <3>1. PICK k \in Bad : \A l \in Bad : k <= l
        <4>1. Bad \in SUBSET Nat
          OBVIOUS
        <4> HIDE DEF Bad
        <4> QED BY <2>6, <4>1, LeastNumber
      <3>2. k # 1
        BY <2>4, <2>5
      <3>3. k - 1 \in 1..n /\ ~ (k <= k - 1)
        BY <2>1, <3>2
      <3>4. f[k - 1] \in Seq(S)
        BY <3>1, <3>3
      <3>5. f[k] = f[k - 1] \o seqs[k] /\ seqs[k] \in Seq(S)
        BY <2>4, <2>5, <3>2
      <3>6. f[k] \in Seq(S)
        BY <3>4, <3>5
      <3> QED BY <3>6
    <2>7. n \in 1..n
      BY <2>1
    <2> QED BY <2>2, <2>6, <2>7
  <1> QED BY <1>1, <1>2

\* Two neighbouring cuts make one.
LEMMA CutJoins ==
    ASSUME NEW S, NEW items \in Seq(S), NEW a \in Nat, NEW b \in Nat,
           a <= b, b <= Len(items)
    PROVE  SubSeq(items, 1, a) \o SubSeq(items, a + 1, b) = SubSeq(items, 1, b)
  <1> DEFINE s == SubSeq(items, 1, a)
             t == SubSeq(items, a + 1, b)
             u == SubSeq(items, 1, b)
             v == s \o t
  <1>1. \A i \in 1..b : items[i] \in S
    OBVIOUS
  <1>2. PICK d \in Nat : b = a + d
    <2>1. b - a \in Nat /\ b = a + (b - a)
      OBVIOUS
    <2> QED BY <2>1
  <1>3. s \in Seq(S) /\ Len(s) = a /\ \A i \in 1..a : s[i] = items[i]
    BY <1>1
  <1>4. u \in Seq(S) /\ Len(u) = b /\ \A i \in 1..b : u[i] = items[i]
    BY <1>1
  <1>5. t \in Seq(S) /\ Len(t) = d /\ \A i \in 1..d : t[i] = items[a + i]
    <2>1. b - (a + 1) + 1 = d
      BY <1>2
    <2>2. \A i \in 1..d : a + 1 + i - 1 = a + i /\ a + i \in 1..b
      BY <1>2
    <2> QED BY <1>1, <1>2, <2>1, <2>2
  <1> HIDE DEF s, t, u
  <1>6. /\ v \in Seq(S) /\ Len(v) = a + d
        /\ \A i \in 1..(a + d) : v[i] = IF i <= a THEN s[i] ELSE t[i - a]
    <2>1. s \in Seq(S) /\ t \in Seq(S) /\ Len(s) = a /\ Len(t) = d
      BY <1>3, <1>5
    <2> QED BY <2>1, ConcatProperties
  <1> HIDE DEF v
  <1>7. ASSUME NEW i \in 1..b PROVE v[i] = u[i]
    <2>1. CASE i <= a
      BY <1>2, <1>3, <1>4, <1>6, <2>1
    <2>2. CASE ~ (i <= a)
      <3>1. i - a \in 1..d /\ a + (i - a) = i
        BY <1>2, <2>2
      <3> QED BY <1>2, <1>4, <1>5, <1>6, <2>2, <3>1
    <2> QED BY <2>1, <2>2
  <1>8. v = u
    BY <1>2, <1>4, <1>6, <1>7, SeqEqual
  <1> QED BY <1>8 DEF v, s, t, u

\* A sequence that was cut at places c[1], c[2], ... is put together again.
LEMMA FlattenCuts ==
    ASSUME NEW S, NEW items \in Seq(S), NEW m \in Nat \ {0},
           NEW c \in [0..m -> 0..Len(items)], c[0] = 0, c[m] = Len(items),
           \A i \in 1..m : c[i - 1] <= c[i],
           NEW seqs, DOMAIN seqs = 1..m, Len(seqs) = m,
           \A i \in 1..m : seqs[i] = SubSeq(items, c[i - 1] + 1, c[i])
    PROVE  FlattenSeq(seqs) = items
  <1> DEFINE f == CHOOSE g : Flattens(g, seqs, m)
             Cut(a, b) == SubSeq(items, a, b)
             Bad == {k \in 1..m : f[k] # Cut(1, c[k])}
  <1>1. FlattenSeq(seqs) = f[m]
    BY DEF FlattenSeq, Flattens
  <1>2. Flattens(f, seqs, m)
    BY FlattenExists
  <1>3. \A i \in 1..m : seqs[i] = Cut(c[i - 1] + 1, c[i])
    OBVIOUS
  <1>4. \A a, b \in Nat : a <= b /\ b <= Len(items) => Cut(1, a) \o Cut(a + 1, b) = Cut(1, b)
    BY CutJoins
  <1>5. Cut(1, Len(items)) = items
    BY SubSeqFull
  <1>6. \A i \in 0..m : c[i] \in Nat /\ c[i] <= Len(items)
    <2> SUFFICES ASSUME NEW i \in 0..m PROVE c[i] \in Nat /\ c[i] <= Len(items)
      OBVIOUS
    <2>1. c[i] \in 0..Len(items) /\ Len(items) \in Nat
      OBVIOUS
    <2> QED BY <2>1
  <1> HIDE DEF f, Cut
  <1>7. \A k \in 1..m : f[k] = IF k = 1 THEN seqs[k] ELSE f[k - 1] \o seqs[k]
    BY <1>2 DEF Flattens
  <1>8. ASSUME Bad # {} PROVE FALSE
    <2>1. PICK k \in Bad : \A l \in Bad : k <= l
      <3>1. Bad \in SUBSET Nat
        OBVIOUS
      <3> HIDE DEF Bad
      <3> QED BY <1>8, <3>1, LeastNumber
    <2>2. k \in 1..m /\ f[k] # Cut(1, c[k])
      OBVIOUS
    <2>3. \A l \in 1..m : l < k => f[l] = Cut(1, c[l])
      <3>1. \A l \in 1..m : l < k => ~ (k <= l)
        BY <2>2
      <3> QED BY <2>1, <3>1
    <2> HIDE DEF Bad
    <2>4. seqs[k] = Cut(c[k - 1] + 1, c[k])
      BY <1>3, <2>2
    <2>5. k # 1
      <3>1. k = 1 => c[k - 1] + 1 = 1
        OBVIOUS
      <3> QED BY <1>7, <2>2, <2>4, <3>1
    <2>6. k - 1 \in 1..m /\ k - 1 \in 0..m /\ k \in 0..m /\ k - 1 < k
      BY <2>2, <2>5
    <2>7. f[k - 1] = Cut(1, c[k - 1])
      BY <2>3, <2>6
    <2>8. f[k] = Cut(1, c[k - 1]) \o Cut(c[k - 1] + 1, c[k])
      BY <1>7, <2>2, <2>4, <2>5, <2>7
    <2>9. c[k - 1] \in Nat /\ c[k] \in Nat /\ c[k - 1] <= c[k] /\ c[k] <= Len(items)
      BY <1>6, <2>2, <2>6
    <2> QED BY <1>4, <2>2, <2>8, <2>9
  <1>9. m \in 1..m
    OBVIOUS
  <1>10. f[m] = Cut(1, c[m])
    BY <1>8, <1>9
  <1> QED BY <1>1, <1>5, <1>10

\* A sequence as long as its set is large repeats nothing, and the other way
\* round.
LEMMA DistinctCount ==
    ASSUME NEW n \in Nat, NEW f, DOMAIN f = 1..n
    PROVE  /\ IsFiniteSet(ToSet(f))
           /\ (Cardinality(ToSet(f)) = n) <=> IsInjective(f)
  <1> DEFINE g == [i \in 1..n |-> f[i]]
  <1>1. IsFiniteSet(1..n) /\ Cardinality(1..n) = n
    BY FS_Interval
  <1>2. g \in Surjection(1..n, ToSet(f))
    BY DEF Surjection, ToSet
  <1>3. g \in Injection(1..n, ToSet(f)) <=> IsInjective(f)
    BY <1>2 DEF Injection, Surjection, IsInjective
  <1> HIDE DEF g
  <1> QED BY <1>1, <1>2, <1>3, FS_Surjection

\* A finite set is listed without repetition.
LEMMA SetToSeqLists ==
    ASSUME NEW S, IsFiniteSet(S)
    PROVE  /\ SetToSeq(S) \in Seq(S) /\ IsInjective(SetToSeq(S))
           /\ Len(SetToSeq(S)) = Cardinality(S) /\ ToSet(SetToSeq(S)) = S
  <1> DEFINE n == Cardinality(S)
  <1>1. n \in Nat
    BY FS_CardinalityType
  <1>2. PICK f : f \in Bijection(1..n, S)
    BY FS_CardinalityType DEF ExistsBijection
  <1>3. f \in [1..n -> S] /\ \A a, b \in DOMAIN f : f[a] = f[b] => a = b
    BY <1>2 DEF Bijection, Injection, IsInjective
  <1>4. SetToSeq(S) \in [1..n -> S] /\ IsInjective(SetToSeq(S))
    BY <1>3 DEF SetToSeq, IsInjective
  <1> DEFINE t == SetToSeq(S)
  <1> HIDE DEF t
  <1>5. t \in [1..n -> S] /\ IsInjective(t)
    BY <1>4 DEF t
  <1>6. t \in Seq(S) /\ Len(t) = n
    BY <1>1, <1>5
  <1>7. ToSet(t) = S
    <2>1. ToSet(t) \in SUBSET S
      BY <1>5 DEF ToSet
    <2>2. Cardinality(ToSet(t)) = n
      BY <1>1, <1>5, DistinctCount
    <2> QED BY <2>1, <2>2, FS_Subset
  <1> QED BY <1>5, <1>6, <1>7 DEF t

\* The image of a finite set is finite.
LEMMA FiniteImage ==
    ASSUME NEW S, NEW f, IsFiniteSet(S)
    PROVE  IsFiniteSet({f[x] : x \in S})
  <1> DEFINE g == [x \in S |-> f[x]]
  <1>1. g \in Surjection(S, {f[x] : x \in S})
    BY DEF Surjection
  <1> QED BY <1>1, FS_Surjection

LEMMA AppendSet ==
    ASSUME NEW S, NEW s \in Seq(S), NEW e
    PROVE  /\ ToSet(Append(s, e)) = ToSet(s) \cup {e}
           /\ DOMAIN Append(s, e) = 1..(Len(s) + 1)
           /\ \A i \in 1..(Len(s) + 1) : Append(s, e)[i] = IF i = Len(s) + 1 THEN e ELSE s[i]
           /\ Append(s, e) \in Seq(S \cup {e})
  <1> DEFINE n == Len(s)
             t == Append(s, e)
  <1>1. n \in Nat /\ DOMAIN s = 1..n
    OBVIOUS
  <1>2. s \in Seq(S \cup {e})
    OBVIOUS
  <1>3. DOMAIN t = 1..(n + 1) /\ \A i \in 1..(n + 1) : t[i] = IF i = n + 1 THEN e ELSE s[i]
    BY <1>1
  <1>4. t \in Seq(S \cup {e})
    BY <1>2
  <1>5. \A i \in 1..n : t[i] = s[i] /\ i \in 1..(n + 1)
    BY <1>1, <1>3
  <1>6. n + 1 \in 1..(n + 1) /\ t[n + 1] = e /\ \A i \in 1..(n + 1) : i = n + 1 \/ i \in 1..n
    BY <1>1, <1>3
  <1>7. ToSet(t) = ToSet(s) \cup {e}
    <2> HIDE DEF n, t
    <2> QED BY <1>1, <1>3, <1>5, <1>6, Zenon DEF ToSet
  <1> QED BY <1>3, <1>4, <1>7

LEMMA AppendMore ==
    ASSUME NEW s, s \in Seq(ToSet(s)), NEW e
    PROVE  /\ ToSet(Append(s, e)) = ToSet(s) \cup {e}
           /\ Append(s, e) \in Seq(ToSet(Append(s, e)))
  <1>1. ToSet(Append(s, e)) = ToSet(s) \cup {e} /\ Append(s, e) \in Seq(ToSet(s) \cup {e})
    BY AppendSet
  <1> QED BY <1>1

LEMMA TailSet ==
    ASSUME NEW S, NEW s \in Seq(S), s # <<>>, IsInjective(s)
    PROVE  /\ Head(s) \in S /\ Head(s) \in ToSet(s)
           /\ Tail(s) \in Seq(S) /\ IsInjective(Tail(s))
           /\ ToSet(Tail(s)) \subseteq ToSet(s) \ {Head(s)}
  <1> DEFINE n == Len(s)
             t == Tail(s)
  <1>1. n \in Nat /\ n # 0 /\ DOMAIN s = 1..n
    OBVIOUS
  <1>2. t \in Seq(S) /\ DOMAIN t = 1..(n - 1) /\ \A i \in 1..(n - 1) : t[i] = s[i + 1]
    BY <1>1
  <1>3. 1 \in 1..n /\ Head(s) = s[1] /\ s[1] \in S
    BY <1>1
  <1>4. \A i \in 1..(n - 1) : i + 1 \in 1..n /\ i + 1 # 1
    BY <1>1
  <1>5. \A a, b \in 1..n : s[a] = s[b] => a = b
    BY <1>1 DEF IsInjective
  <1> HIDE DEF n, t
  <1>6. \A i, k \in 1..(n - 1) : t[i] = t[k] => i = k
    BY <1>1, <1>2, <1>4, <1>5
  <1>7. \A i \in 1..(n - 1) : t[i] \in ToSet(s) /\ t[i] # Head(s)
    BY <1>1, <1>2, <1>3, <1>4, <1>5 DEF ToSet
  <1>8. Head(s) \in ToSet(s)
    BY <1>1, <1>3 DEF ToSet
  <1> QED BY <1>2, <1>3, <1>6, <1>7, <1>8 DEF IsInjective, ToSet, t

-----------------------------------------------------------------------------
(* Sums.                                                                   *)

OneOf(s) == CHOOSE x \in s : TRUE

\* One step of the sum of f over s, where g has the sums of smaller sets.
Plus(f, g, s) == IF s = {} THEN 0 ELSE f[OneOf(s)] + g[s \ {OneOf(s)}]

Sums(f, g) == \A s \in SUBSET DOMAIN f : g[s] = Plus(f, g, s)

\* A set that is taken from is one smaller.
LEMMA OneLess ==
    ASSUME NEW D, IsFiniteSet(D), NEW s \in SUBSET D, NEW y \in s
    PROVE  /\ Cardinality(s) \in Nat /\ Cardinality(s \ {y}) \in Nat
           /\ Cardinality(s \ {y}) < Cardinality(s)
  <1>1. IsFiniteSet(s) /\ IsFiniteSet(s \ {y})
    BY FS_Subset
  <1>2. Cardinality(s) \in Nat /\ Cardinality(s \ {y}) \in Nat
        /\ Cardinality(s \ {y}) = Cardinality(s) - 1
    BY <1>1, FS_CardinalityType, FS_RemoveElement
  <1>. QED
    BY <1>2

LEMMA OneOfIt == ASSUME NEW s, s # {} PROVE OneOf(s) \in s
  BY DEF OneOf

\* Among sets of members of a finite one there is a smallest.
LEMMA Smallest ==
    ASSUME NEW D, IsFiniteSet(D), NEW B \in SUBSET (SUBSET D), B # {}
    PROVE  \E s \in B : \A t \in B : Cardinality(s) <= Cardinality(t)
  <1>. DEFINE Sizes == {Cardinality(s) : s \in B}
  <1>1. Sizes \in SUBSET Nat /\ Sizes # {}
    BY FS_Subset, FS_CardinalityType
  <1>2. PICK k \in Sizes : \A j \in Sizes : k <= j
    <2>. HIDE DEF Sizes
    <2>. QED
      BY <1>1, LeastNumber
  <1>. QED
    BY <1>2

\* The recursion of the sum defines a function.
LEMMA SumExists ==
    ASSUME NEW f, IsFiniteSet(DOMAIN f)
    PROVE  \E g : g = [s \in SUBSET DOMAIN f |-> Plus(f, g, s)]
  <1>. DEFINE Small(k) == {s \in SUBSET DOMAIN f : Cardinality(s) <= k}
              Fitting(k) == \E g : \A s \in Small(k) : g[s] = Plus(f, g, s)
              Bad == {k \in Nat : ~Fitting(k)}
  <1>1. \A s \in SUBSET DOMAIN f : Cardinality(s) \in Nat
    BY FS_Subset, FS_CardinalityType
  <1>2. Bad = {}
    <2>. SUFFICES ASSUME Bad # {} PROVE FALSE
      OBVIOUS
    <2>1. PICK k \in Bad : \A j \in Bad : k <= j
      <3>1. Bad \in SUBSET Nat
        OBVIOUS
      <3>. HIDE DEF Bad
      <3>. QED
        BY <3>1, LeastNumber
    <2>2. k \in Nat /\ ~Fitting(k)
      OBVIOUS
    <2>3. PICK g : \A s \in Small(k - 1) : g[s] = Plus(f, g, s)
      <3>1. CASE k = 0
        <4>1. Small(k - 1) = {}
          BY <1>1, <3>1
        <4>. QED
          BY <4>1
      <3>2. CASE k # 0
        <4>1. k - 1 \in Nat /\ ~(k <= k - 1)
          BY <2>2, <3>2
        <4>2. k - 1 \notin Bad
          BY <2>1, <4>1
        <4>3. Fitting(k - 1)
          BY <4>1, <4>2
        <4>. QED
          BY <4>3
      <3>. QED
        BY <3>1, <3>2
    <2>. DEFINE h == [s \in SUBSET DOMAIN f |->
                        IF Cardinality(s) <= k - 1 THEN g[s] ELSE Plus(f, g, s)]
    <2>4. ASSUME NEW s \in Small(k) PROVE h[s] = Plus(f, h, s)
      <3>1. s \in SUBSET DOMAIN f /\ Cardinality(s) <= k
        BY <2>4
      <3>2. h[s] = Plus(f, g, s)
        <4>1. CASE Cardinality(s) <= k - 1
          BY <2>3, <3>1, <4>1
        <4>2. CASE ~(Cardinality(s) <= k - 1)
          BY <3>1, <4>2
        <4>. QED
          BY <4>1, <4>2
      <3>3. Plus(f, g, s) = Plus(f, h, s)
        <4>1. CASE s = {}
          BY <4>1 DEF Plus
        <4>2. CASE s # {}
          <5>. DEFINE t == s \ {OneOf(s)}
          <5>1. t \in SUBSET DOMAIN f /\ Cardinality(t) <= k - 1
            <6>1. t \in SUBSET DOMAIN f
              BY <3>1
            <6>2. /\ Cardinality(s) \in Nat /\ Cardinality(t) \in Nat
                  /\ Cardinality(t) < Cardinality(s)
              BY <3>1, <4>2, OneLess, OneOfIt
            <6>. HIDE DEF t
            <6>. QED
              BY <2>2, <3>1, <6>1, <6>2
          <5>. HIDE DEF t
          <5>2. h[t] = g[t]
            BY <5>1
          <5>. HIDE DEF h
          <5>. QED
            BY <4>2, <5>2 DEF Plus, t
        <4>. QED
          BY <4>1, <4>2
      <3>. QED
        BY <3>2, <3>3
    <2>. HIDE DEF h
    <2>5. Fitting(k)
      BY <2>4
    <2>. QED
      BY <2>2, <2>5
  <1>3. /\ Cardinality(DOMAIN f) \in Nat
        /\ \A s \in SUBSET DOMAIN f : Cardinality(s) <= Cardinality(DOMAIN f)
    BY <1>1, FS_Subset
  <1>4. PICK g : \A s \in SUBSET DOMAIN f : g[s] = Plus(f, g, s)
    <2>1. Fitting(Cardinality(DOMAIN f))
      BY <1>2, <1>3
    <2>. QED
      BY <1>3, <2>1
  <1>. DEFINE h == [s \in SUBSET DOMAIN f |-> g[s]]
  <1>5. ASSUME NEW s \in SUBSET DOMAIN f PROVE h[s] = Plus(f, h, s)
    <2>. DEFINE t == s \ {OneOf(s)}
    <2>1. t \in SUBSET DOMAIN f
      OBVIOUS
    <2>. HIDE DEF t
    <2>2. h[t] = g[t] /\ h[s] = g[s]
      BY <2>1
    <2>. HIDE DEF h
    <2>. QED
      BY <1>4, <2>2 DEF Plus, t
  <1>6. h = [s \in SUBSET DOMAIN f |-> h[s]]
    OBVIOUS
  <1>. HIDE DEF h
  <1>7. h = [s \in SUBSET DOMAIN f |-> Plus(f, h, s)]
    BY <1>5, <1>6
  <1>. QED
    BY <1>7

\* Whichever member is taken first, the sum is the same.
LEMMA SumTakes ==
    ASSUME NEW f, IsFiniteSet(DOMAIN f), \A d \in DOMAIN f : f[d] \in Nat,
           NEW g, Sums(f, g)
    PROVE  \A s \in SUBSET DOMAIN f :
              g[s] \in Nat /\ \A y \in s : g[s] = f[y] + g[s \ {y}]
  <1>. DEFINE Good(s) == g[s] \in Nat /\ \A y \in s : g[s] = f[y] + g[s \ {y}]
              B == {s \in SUBSET DOMAIN f : ~Good(s)}
  <1>. SUFFICES ASSUME B # {} PROVE FALSE
    OBVIOUS
  <1>1. PICK s \in B : \A t \in B : Cardinality(s) <= Cardinality(t)
    <2>1. B \in SUBSET (SUBSET DOMAIN f)
      OBVIOUS
    <2>. HIDE DEF B
    <2>. QED
      BY <2>1, Smallest
  <1>2. s \in SUBSET DOMAIN f /\ ~Good(s)
    OBVIOUS
  <1>3. \A y \in s : s \ {y} \in SUBSET DOMAIN f /\ Good(s \ {y})
    <2>. SUFFICES ASSUME NEW y \in s PROVE s \ {y} \in SUBSET DOMAIN f /\ s \ {y} \notin B
      OBVIOUS
    <2>1. /\ Cardinality(s) \in Nat /\ Cardinality(s \ {y}) \in Nat
          /\ Cardinality(s \ {y}) < Cardinality(s)
      BY <1>2, OneLess
    <2>2. ~(Cardinality(s) <= Cardinality(s \ {y}))
      BY <2>1
    <2>. HIDE DEF B
    <2>. QED
      BY <1>1, <1>2, <2>2
  <1>. HIDE DEF B
  <1>4. CASE s = {}
    <2>1. g[s] = Plus(f, g, s)
      BY <1>2 DEF Sums
    <2>2. g[s] = 0
      BY <1>4, <2>1 DEF Plus
    <2>. QED
      BY <1>2, <1>4, <2>2
  <1>5. CASE s # {}
    <2>. DEFINE x == OneOf(s)
    <2>1. x \in s /\ g[s] = f[x] + g[s \ {x}]
      BY <1>2, <1>5, OneOfIt DEF Sums, Plus
    <2>. HIDE DEF x
    <2>2. f[x] \in Nat /\ g[s \ {x}] \in Nat
      BY <1>2, <1>3, <2>1
    <2>3. ASSUME NEW y \in s PROVE g[s] = f[y] + g[s \ {y}]
      <3>1. CASE y = x
        BY <2>1, <3>1
      <3>2. CASE y # x
        <4>. DEFINE rest == s \ {x, y}
        <4>1. (s \ {x}) \ {y} = rest /\ (s \ {y}) \ {x} = rest
          OBVIOUS
        <4>2. g[s \ {x}] = f[y] + g[rest] /\ g[s \ {y}] = f[x] + g[rest]
          BY <1>3, <2>1, <3>2, <4>1
        <4>3. f[y] \in Nat /\ g[rest] \in Nat
          <5>1. rest \in SUBSET DOMAIN f
            BY <1>2
          <5>2. Cardinality(rest) < Cardinality(s)
            <6>1. y \in s \ {x} /\ s \ {x} \in SUBSET DOMAIN f
              BY <1>2, <3>2
            <6>2. /\ Cardinality(s \ {x}) \in Nat /\ Cardinality(rest) \in Nat
                  /\ Cardinality(rest) < Cardinality(s \ {x})
              BY <4>1, <6>1, OneLess
            <6>3. Cardinality(s) \in Nat /\ Cardinality(s \ {x}) < Cardinality(s)
              BY <1>2, <2>1, OneLess
            <6>. HIDE DEF rest
            <6>. QED
              BY <6>2, <6>3
          <5>3. Cardinality(rest) \in Nat /\ Cardinality(s) \in Nat
            BY <1>2, <5>1, FS_Subset, FS_CardinalityType
          <5>. HIDE DEF rest
          <5>4. rest \notin B
            BY <1>1, <5>2, <5>3
          <5>. QED
            BY <1>2, <5>1, <5>4 DEF B
        <4>. HIDE DEF rest
        <4>. QED
          BY <2>1, <2>2, <4>2, <4>3
      <3>. QED
        BY <3>1, <3>2
    <2>. QED
      BY <1>2, <2>1, <2>2, <2>3
  <1>. QED
    BY <1>4, <1>5

\* The sum over members that two functions agree on is the same.
LEMMA SumsAgree ==
    ASSUME NEW f, NEW h, IsFiniteSet(DOMAIN f), DOMAIN f \subseteq DOMAIN h,
           \A d \in DOMAIN f : h[d] = f[d],
           NEW g, Sums(f, g), NEW k, Sums(h, k)
    PROVE  \A s \in SUBSET DOMAIN f : k[s] = g[s]
  <1>. DEFINE B == {s \in SUBSET DOMAIN f : k[s] # g[s]}
  <1>. SUFFICES ASSUME B # {} PROVE FALSE
    OBVIOUS
  <1>1. PICK s \in B : \A t \in B : Cardinality(s) <= Cardinality(t)
    <2>1. B \in SUBSET (SUBSET DOMAIN f)
      OBVIOUS
    <2>. HIDE DEF B
    <2>. QED
      BY <2>1, Smallest
  <1>2. s \in SUBSET DOMAIN f /\ s \in SUBSET DOMAIN h /\ k[s] # g[s]
    OBVIOUS
  <1>3. g[s] = Plus(f, g, s) /\ k[s] = Plus(h, k, s)
    BY <1>2 DEF Sums
  <1>4. CASE s = {}
    BY <1>2, <1>3, <1>4 DEF Plus
  <1>5. CASE s # {}
    <2>. DEFINE x == OneOf(s)
    <2>1. /\ x \in s
          /\ g[s] = f[x] + g[s \ {x}] /\ k[s] = h[x] + k[s \ {x}]
      BY <1>3, <1>5, OneOfIt DEF Plus
    <2>. HIDE DEF x
    <2>2. s \ {x} \in SUBSET DOMAIN f /\ s \ {x} \notin B
      <3>1. /\ Cardinality(s) \in Nat /\ Cardinality(s \ {x}) \in Nat
            /\ Cardinality(s \ {x}) < Cardinality(s)
        BY <1>2, <2>1, OneLess
      <3>2. ~(Cardinality(s) <= Cardinality(s \ {x}))
        BY <3>1
      <3>. HIDE DEF B
      <3>. QED
        BY <1>1, <1>2, <3>2
    <2>. QED
      BY <1>2, <2>1, <2>2
  <1>. QED
    BY <1>4, <1>5

LEMMA OneShorter == \A k \in Nat \ {0} : 1..k \ {k} = 1..(k - 1)
OBVIOUS

\* The sum over the first numbers is the running sum.
LEMMA SumRuns ==
    ASSUME NEW f, NEW g, Sums(f, g), IsFiniteSet(DOMAIN f), \A d \in DOMAIN f : f[d] \in Nat
    PROVE  \A m \in Nat : \A c \in [0..m -> Nat] :
              DOMAIN f = 1..m /\ c[0] = 0 /\ (\A i \in 1..m : c[i] = c[i - 1] + f[i])
                => g[DOMAIN f] = c[m]
  <1>1. \A s \in SUBSET DOMAIN f : g[s] \in Nat /\ \A y \in s : g[s] = f[y] + g[s \ {y}]
    BY SumTakes
  <1>2. \A s \in SUBSET DOMAIN f : \A y \in s : g[s] = f[y] + g[s \ {y}]
    BY <1>1
  <1>3. g[{}] = 0
    BY DEF Sums, Plus
  <1>4. ASSUME NEW m \in Nat, NEW c \in [0..m -> Nat], DOMAIN f = 1..m, c[0] = 0,
               \A i \in 1..m : c[i] = c[i - 1] + f[i]
        PROVE  g[DOMAIN f] = c[m]
    <2>1. \A i \in 1..m : f[i] \in Nat
      BY <1>4
    <2> DEFINE Bad == {k \in 0..m : g[1..k] # c[k]}
    <2>2. ASSUME Bad # {} PROVE FALSE
      <3>1. PICK k \in Bad : \A l \in Bad : k <= l
        <4>1. Bad \in SUBSET Nat
          OBVIOUS
        <4> HIDE DEF Bad
        <4> QED BY <2>2, <4>1, LeastNumber
      <3>2. k \in 0..m /\ g[1..k] # c[k]
        OBVIOUS
      <3>3. \A l \in 0..m : l < k => g[1..l] = c[l]
        <4>1. \A l \in 0..m : l < k => ~ (k <= l)
          BY <3>2
        <4> QED BY <3>1, <4>1
      <3> HIDE DEF Bad
      <3>4. k # 0
        <4>1. 1..0 = {}
          OBVIOUS
        <4> QED BY <1>3, <1>4, <3>2, <4>1
      <3>5. k \in 1..m /\ k - 1 \in 0..m /\ k - 1 < k
        BY <3>2, <3>4
      <3>6. g[1..(k - 1)] = c[k - 1]
        BY <3>3, <3>5
      <3>7. 1..k \in SUBSET DOMAIN f /\ k \in 1..k /\ 1..k \ {k} = 1..(k - 1)
        <4>1. \A x : x \in 1..k => x \in DOMAIN f
          BY <1>4, <3>5
        <4>2. k \in 1..k
          BY <3>5
        <4>3. 1..k \ {k} = 1..(k - 1)
          BY <3>5, OneShorter
        <4> QED BY <4>1, <4>2, <4>3
      <3>8. g[1..k] = f[k] + c[k - 1]
        <4>1. g[1..k] = f[k] + g[1..k \ {k}]
          BY <1>2, <3>7
        <4> QED BY <3>6, <3>7, <4>1
      <3>9. c[k] = c[k - 1] + f[k] /\ f[k] \in Nat /\ c[k - 1] \in Nat
        BY <1>4, <2>1, <3>5
      <3> QED BY <3>2, <3>8, <3>9
    <2>3. m \in 0..m
      OBVIOUS
    <2> QED BY <1>4, <2>2, <2>3
  <1> QED BY <1>4


\* The least of some numbers is one of them.
LEMMA MinIsOne ==
    ASSUME NEW S \in SUBSET Nat, S # {}
    PROVE  Min(S) \in S
  <1>1. \E m \in S : \A n \in S : m <= n
    BY LeastNumber
  <1> QED BY <1>1 DEF Min

\* The sum of a function is taken over its domain.
LEMMA SumIsOfDomain ==
    ASSUME NEW f, IsFiniteSet(DOMAIN f)
    PROVE  \E g : Sums(f, g) /\ SumFunction(f) = g[DOMAIN f]
  <1> DEFINE total(g, s) == IF s = {} THEN 0
                            ELSE f[CHOOSE x \in s : TRUE] + g[s \ {CHOOSE x \in s : TRUE}]
             k == CHOOSE h : h = [s \in SUBSET DOMAIN f |-> total(h, s)]
  <1>1. SumFunction(f) = k[DOMAIN f]
    BY DEF SumFunction, SumFunctionOnSet, FoldFunctionOnSet, MapThenFoldSet
  <1>2. \A h, s : total(h, s) = Plus(f, h, s)
    BY DEF Plus, OneOf
  <1> HIDE DEF total
  <1>3. PICK h : h = [s \in SUBSET DOMAIN f |-> Plus(f, h, s)]
    BY SumExists
  <1>4. h = [s \in SUBSET DOMAIN f |-> total(h, s)]
    BY <1>2, <1>3
  <1>5. k = [s \in SUBSET DOMAIN f |-> total(k, s)]
    BY <1>4
  <1> HIDE DEF k
  <1>6. Sums(f, k)
    BY <1>2, <1>5 DEF Sums
  <1> QED BY <1>1, <1>6

\* A function with one more value sums to that much more.
LEMMA SumAdds ==
    ASSUME NEW f, IsFiniteSet(DOMAIN f), NEW x, x \notin DOMAIN f,
           NEW h, DOMAIN h = DOMAIN f \cup {x}, \A d \in DOMAIN f : h[d] = f[d],
           \A d \in DOMAIN h : h[d] \in Nat
    PROVE  SumFunction(f) \in Nat /\ SumFunction(h) = SumFunction(f) + h[x]
  <1>1. IsFiniteSet(DOMAIN h)
    BY FS_AddElement
  <1>2. PICK g : Sums(f, g) /\ SumFunction(f) = g[DOMAIN f]
    BY SumIsOfDomain
  <1>3. PICK k : Sums(h, k) /\ SumFunction(h) = k[DOMAIN h]
    BY <1>1, SumIsOfDomain
  <1>4. k[DOMAIN f] = g[DOMAIN f]
    BY <1>2, <1>3, SumsAgree
  <1>5. \A d \in DOMAIN f : f[d] \in Nat
    OBVIOUS
  <1>6. g[DOMAIN f] \in Nat
    BY <1>2, <1>5, SumTakes
  <1>7. k[DOMAIN h] = h[x] + k[DOMAIN h \ {x}]
    <2>a. \A s \in SUBSET DOMAIN h : k[s] \in Nat /\ \A y \in s : k[s] = h[y] + k[s \ {y}]
      BY <1>1, <1>3, SumTakes
    <2>b. \A s \in SUBSET DOMAIN h : \A y \in s : k[s] = h[y] + k[s \ {y}]
      BY <2>a
    <2>2. DOMAIN h \in SUBSET DOMAIN h /\ x \in DOMAIN h
      OBVIOUS
    <2> QED BY <2>b, <2>2
  <1>8. DOMAIN h \ {x} = DOMAIN f
    OBVIOUS
  <1>9. h[x] \in Nat
    OBVIOUS
  <1> QED BY <1>2, <1>3, <1>4, <1>6, <1>7, <1>8, <1>9

LEMMA SumOfNone ==
    ASSUME NEW f, DOMAIN f = {}
    PROVE  SumFunction(f) = 0
  <1>1. IsFiniteSet(DOMAIN f)
    BY FS_EmptySet
  <1>2. PICK g : Sums(f, g) /\ SumFunction(f) = g[DOMAIN f]
    BY <1>1, SumIsOfDomain
  <1> QED BY <1>2 DEF Sums, Plus

LEMMA SumIsNumber ==
    ASSUME NEW f, IsFiniteSet(DOMAIN f), \A d \in DOMAIN f : f[d] \in Nat
    PROVE  SumFunction(f) \in Nat
  BY SumIsOfDomain, SumTakes

\* The order of some pairs of S.
Above(S, R, x) == {y \in S : <<y, x>> \in R}

StrictOrder(S, R) ==
    /\ \A x \in S : <<x, x>> \notin R
    /\ \A x, y, z \in S : <<x, y>> \in R /\ <<y, z>> \in R => <<x, z>> \in R
    /\ \A x, y \in S : x # y => <<x, y>> \in R \/ <<y, x>> \in R

\* s lists S by rank: at i the member that i - 1 others are above, if there is one.
RankedBy(s, S, R) ==
    /\ s = [i \in 1..Cardinality(S) |-> s[i]]
    /\ \A i \in 1..Cardinality(S) :
        (\E x \in S : Cardinality(Above(S, R, x)) = i - 1) =>
            s[i] \in S /\ Cardinality(Above(S, R, s[i])) = i - 1

\* In a strict order every member has a rank, and the ranks have no gap.
LEMMA RankLists ==
    ASSUME NEW S, IsFiniteSet(S), NEW R, StrictOrder(S, R), NEW s, RankedBy(s, S, R)
    PROVE  /\ s \in Seq(S) /\ Len(s) = Cardinality(S) /\ ToSet(s) = S /\ IsInjective(s)
           /\ \A i, j \in DOMAIN s : i < j => <<s[i], s[j]>> \in R
  <1> DEFINE n == Cardinality(S)
             rank == [x \in S |-> Cardinality(Above(S, R, x))]
  <1>1. n \in Nat
    BY FS_CardinalityType
  <1>2. ASSUME NEW x \in S
        PROVE  rank[x] \in 0..(n - 1)
    <2>1. Above(S, R, x) \in SUBSET S /\ x \notin Above(S, R, x)
      BY DEF Above, StrictOrder
    <2>2. /\ IsFiniteSet(Above(S, R, x)) /\ rank[x] <= n
          /\ (n = rank[x] => Above(S, R, x) = S)
      BY <2>1, FS_Subset
    <2>3. rank[x] \in Nat
      BY <2>2, FS_CardinalityType
    <2> QED BY <1>1, <2>1, <2>2, <2>3
  <1>3. ASSUME NEW x \in S, NEW y \in S, <<x, y>> \in R
        PROVE  rank[x] < rank[y]
    <2>1. /\ Above(S, R, x) \in SUBSET Above(S, R, y)
          /\ x \in Above(S, R, y) /\ x \notin Above(S, R, x)
      BY <1>3 DEF Above, StrictOrder
    <2>2. IsFiniteSet(Above(S, R, y))
      <3>1. Above(S, R, y) \in SUBSET S
        BY DEF Above
      <3> QED BY <3>1, FS_Subset
    <2>3. /\ rank[x] <= rank[y]
          /\ (rank[y] = rank[x] => Above(S, R, y) = Above(S, R, x))
      BY <2>1, <2>2, FS_Subset
    <2> QED BY <1>2, <2>1, <2>3
  <1>4. ASSUME NEW x \in S, NEW y \in S, rank[x] = rank[y]
        PROVE  x = y
    <2>1. <<x, y>> \notin R /\ <<y, x>> \notin R
      BY <1>2, <1>3, <1>4
    <2> QED BY <2>1 DEF StrictOrder
  <1>5. ASSUME NEW k \in 0..(n - 1)
        PROVE  \E x \in S : rank[x] = k
    <2>1. rank \in Injection(S, 0..(n - 1))
      BY <1>2, <1>4 DEF Injection, IsInjective
    <2>2. IsFiniteSet(0..(n - 1)) /\ Cardinality(0..(n - 1)) = n
      BY <1>1, FS_Interval
    <2>3. rank \in Surjection(S, 0..(n - 1))
      BY <2>1, <2>2, FS_Injection
    <2> QED BY <2>3 DEF Surjection
  <1>7. s = [i \in 1..n |-> s[i]]
    BY DEF RankedBy
  <1>8. DOMAIN s = 1..n /\ \A i \in 1..n : s[i] \in S /\ Cardinality(Above(S, R, s[i])) = i - 1
    <2> SUFFICES ASSUME NEW i \in 1..n
                 PROVE  s[i] \in S /\ Cardinality(Above(S, R, s[i])) = i - 1
      BY <1>7
    <2>1. i - 1 \in 0..(n - 1)
      BY <1>1
    <2>2. \E x \in S : Cardinality(Above(S, R, x)) = i - 1
      BY <1>5, <2>1
    <2> QED BY <2>2 DEF RankedBy
  <1>9. s \in Seq(S) /\ Len(s) = n
    <2>1. s \in [1..n -> S]
      BY <1>7, <1>8
    <2> HIDE DEF n
    <2>2. \A t : t \in [1..n -> S] => t \in Seq(S) /\ Len(t) = n
      BY <1>1
    <2> QED BY <2>1, <2>2, Zenon
  <1>10. IsInjective(s)
    <2>1. ASSUME NEW a \in 1..n, NEW b \in 1..n, s[a] = s[b] PROVE a = b
      <3>1. a - 1 = b - 1
        BY <1>8, <2>1
      <3> QED BY <1>1, <3>1
    <2> QED BY <1>8, <2>1 DEF IsInjective
  <1>11. ASSUME NEW x \in S
        PROVE  x \in ToSet(s)
    <2> DEFINE i == rank[x] + 1
    <2>1. i \in 1..n /\ i - 1 = rank[x]
      BY <1>1, <1>2
    <2>2. rank[s[i]] = rank[x] /\ s[i] \in S
      BY <1>8, <2>1
    <2>3. s[i] = x
      BY <1>4, <2>2
    <2> QED BY <1>8, <2>1, <2>3 DEF ToSet
  <1>12. ToSet(s) \subseteq S
    BY <1>8 DEF ToSet
  <1>13. ASSUME NEW i \in 1..n, NEW j \in 1..n, i < j
         PROVE  <<s[i], s[j]>> \in R
    <2>1. s[i] \in S /\ s[j] \in S /\ rank[s[i]] = i - 1 /\ rank[s[j]] = j - 1
      BY <1>8
    <2>2. s[i] # s[j] /\ ~ (rank[s[j]] < rank[s[i]])
      BY <1>1, <1>13, <2>1
    <2>3. <<s[j], s[i]>> \notin R
      BY <1>3, <2>1, <2>2
    <2> QED BY <2>1, <2>2, <2>3 DEF StrictOrder
  <1> QED BY <1>8, <1>9, <1>10, <1>11, <1>12, <1>13

\* The sum of one weight.
LEMMA SumOfOne ==
    ASSUME NEW x, NEW h, DOMAIN h = {x}, h[x] \in Nat
    PROVE  SumFunction(h) = h[x]
  <1> DEFINE none == [d \in {} |-> 0]
  <1>1. DOMAIN none = {} /\ IsFiniteSet({}) /\ SumFunction(none) = 0
    BY SumOfNone, FS_EmptySet
  <1> HIDE DEF none
  <1>2. x \notin DOMAIN none /\ DOMAIN h = DOMAIN none \cup {x}
    BY <1>1
  <1>3. SumFunction(h) = SumFunction(none) + h[x]
    BY <1>1, <1>2, SumAdds
  <1> QED BY <1>1, <1>3

Weigh(w, X) == SumFunction([x \in X |-> w[x]])

LEMMA WeighsOneMore ==
    ASSUME NEW X, IsFiniteSet(X), NEW e, e \notin X, NEW w, \A x \in X \cup {e} : w[x] \in Nat
    PROVE  /\ Weigh(w, X) \in Nat
           /\ Weigh(w, X \cup {e}) = Weigh(w, X) + w[e]
  <1> DEFINE f == [x \in X |-> w[x]]
             h == [x \in X \cup {e} |-> w[x]]
  <1>1. /\ DOMAIN f = X /\ DOMAIN h = DOMAIN f \cup {e} /\ e \notin DOMAIN f /\ h[e] = w[e]
        /\ \A d \in DOMAIN f : h[d] = f[d]
        /\ \A d \in DOMAIN h : h[d] \in Nat
    OBVIOUS
  <1>2. Weigh(w, X) = SumFunction(f) /\ Weigh(w, X \cup {e}) = SumFunction(h)
    BY DEF Weigh
  <1> HIDE DEF f, h
  <1>3. SumFunction(f) \in Nat /\ SumFunction(h) = SumFunction(f) + h[e]
    BY <1>1, SumAdds
  <1> QED BY <1>1, <1>2, <1>3

\* Two heaps weigh what each does.
LEMMA WeightsAdd ==
    ASSUME NEW X, IsFiniteSet(X), NEW Y, IsFiniteSet(Y), X \cap Y = {},
           NEW w, \A x \in X \cup Y : w[x] \in Nat
    PROVE  /\ Weigh(w, X) \in Nat /\ Weigh(w, Y) \in Nat
           /\ Weigh(w, X \cup Y) = Weigh(w, X) + Weigh(w, Y)
  <1> DEFINE Good(Z) == /\ Weigh(w, X) \in Nat /\ Weigh(w, Z) \in Nat
                        /\ Weigh(w, X \cup Z) = Weigh(w, X) + Weigh(w, Z)
             Bad == {Cardinality(Z) : Z \in {V \in SUBSET Y : ~ Good(V)}}
  <1>1. \A Z \in SUBSET Y : IsFiniteSet(Z) /\ Cardinality(Z) \in Nat
    BY FS_Subset, FS_CardinalityType
  <1>2. ASSUME ~ Good(Y) PROVE FALSE
    <2>1. Bad \in SUBSET Nat /\ Bad # {}
      <3> HIDE DEF Good
      <3> QED BY <1>1, <1>2
    <2>2. PICK k \in Bad : \A l \in Bad : k <= l
      <3> HIDE DEF Bad
      <3> QED BY <2>1, LeastNumber
    <2>3. PICK Z \in SUBSET Y : ~ Good(Z) /\ k = Cardinality(Z)
      <3> HIDE DEF Good
      <3> QED OBVIOUS
    <2>4. CASE Z = {}
      <3>1. Weigh(w, Z) = 0
        <4> DEFINE none == [x \in {} |-> w[x]]
        <4>1. Weigh(w, Z) = SumFunction(none)
          BY <2>4 DEF Weigh
        <4>2. DOMAIN none = {}
          OBVIOUS
        <4> HIDE DEF none
        <4> QED BY <4>1, <4>2, SumOfNone
      <3>2. X \cup Z = X
        BY <2>4
      <3>3. Weigh(w, X) \in Nat
        <4> DEFINE f == [x \in X |-> w[x]]
        <4>1. DOMAIN f = X /\ \A x \in X : f[x] \in Nat
          OBVIOUS
        <4>2. Weigh(w, X) = SumFunction(f)
          BY DEF Weigh
        <4> HIDE DEF f
        <4> QED BY <4>1, <4>2, SumIsNumber
      <3>4. Weigh(w, X \cup Z) = Weigh(w, X)
        BY <3>2
      <3>5. Good(Z)
        BY <3>1, <3>3, <3>4
      <3> QED BY <2>3, <3>5
    <2>5. CASE Z # {}
      <3>1. PICK e \in Z : TRUE
        BY <2>5
      <3> DEFINE V == Z \ {e}
      <3>2. V \in SUBSET Y /\ e \notin V /\ e \notin X \cup V /\ V \cup {e} = Z
        OBVIOUS
      <3>3. (X \cup V) \cup {e} = X \cup Z
        BY <3>2
      <3>4. Cardinality(V) = Cardinality(Z) - 1 /\ Cardinality(Z) \in Nat
        BY <1>1, FS_RemoveElement
      <3>5. IsFiniteSet(X \cup V) /\ IsFiniteSet(V)
        BY <1>1, <3>2, FS_Union
      <3> HIDE DEF V
      <3>6. Good(V)
        <4>1. ~ (k <= Cardinality(V))
          BY <2>3, <3>4
        <4> HIDE DEF Good
        <4> QED BY <2>2, <3>2, <4>1
      <3>7. Weigh(w, (X \cup V) \cup {e}) = Weigh(w, X \cup V) + w[e] /\ w[e] \in Nat
        BY <3>2, <3>5, WeighsOneMore
      <3>8. Weigh(w, V \cup {e}) = Weigh(w, V) + w[e]
        BY <3>2, <3>5, WeighsOneMore
      <3>9. Weigh(w, X \cup Z) = Weigh(w, X \cup V) + w[e]
        BY <3>3, <3>7
      <3>10. Weigh(w, Z) = Weigh(w, V) + w[e]
        BY <3>2, <3>8
      <3>11. /\ Weigh(w, X) \in Nat /\ Weigh(w, V) \in Nat
             /\ Weigh(w, X \cup V) = Weigh(w, X) + Weigh(w, V)
        BY <3>6
      <3>12. Good(Z)
        BY <3>7, <3>9, <3>10, <3>11
      <3> QED BY <2>3, <3>12
    <2> QED BY <2>4, <2>5
  <1> QED BY <1>2

\* A measure of the parts of F, which is the sum of those of two parts.
Additive(m, F) ==
    /\ m[{}] = 0
    /\ \A X \in SUBSET F : m[X] \in Nat
    /\ \A X, Y \in SUBSET F : X \cap Y = {} => m[X \cup Y] = m[X] + m[Y]

\* Disjoint parts measure together what their union does.
LEMMA PartsMeasure ==
    ASSUME NEW F, NEW U \in SUBSET (SUBSET F), IsFiniteSet(U),
           \A u, v \in U : u # v => u \cap v = {},
           NEW m, Additive(m, F)
    PROVE  SumFunction([u \in U |-> m[u]]) = m[UNION U]
  <1> DEFINE Good(V) == Weigh(m, V) = m[UNION V]
             Bad == {Cardinality(Z) : Z \in {V \in SUBSET U : ~ Good(V)}}
  <1>1. \A Z \in SUBSET U : IsFiniteSet(Z) /\ Cardinality(Z) \in Nat
    BY FS_Subset, FS_CardinalityType
  <1>2. ASSUME ~ Good(U) PROVE FALSE
    <2>1. Bad \in SUBSET Nat /\ Bad # {}
      <3> HIDE DEF Good
      <3> QED BY <1>1, <1>2
    <2>2. PICK k \in Bad : \A l \in Bad : k <= l
      <3> HIDE DEF Bad
      <3> QED BY <2>1, LeastNumber
    <2>3. PICK Z \in SUBSET U : ~ Good(Z) /\ k = Cardinality(Z)
      <3> HIDE DEF Good
      <3> QED OBVIOUS
    <2>4. CASE Z = {}
      <3> DEFINE none == [x \in {} |-> m[x]]
      <3>1. Weigh(m, Z) = SumFunction(none)
        BY <2>4 DEF Weigh
      <3>2. DOMAIN none = {}
        OBVIOUS
      <3> HIDE DEF none
      <3>3. Weigh(m, Z) = 0
        BY <3>1, <3>2, SumOfNone
      <3>4. UNION Z = {}
        BY <2>4
      <3> QED BY <2>3, <3>3, <3>4 DEF Additive
    <2>5. CASE Z # {}
      <3>1. PICK e \in Z : TRUE
        BY <2>5
      <3> DEFINE V == Z \ {e}
      <3>2. V \in SUBSET U /\ e \notin V /\ V \cup {e} = Z /\ e \in U
        OBVIOUS
      <3>3. Cardinality(V) = Cardinality(Z) - 1 /\ Cardinality(Z) \in Nat
        BY <1>1, FS_RemoveElement
      <3>4. UNION Z = (UNION V) \cup e /\ (UNION V) \in SUBSET F /\ e \in SUBSET F
        BY <3>2
      <3>5. (UNION V) \cap e = {}
        <4>1. \A u \in V : u \cap e = {}
          BY <3>2
        <4> QED BY <4>1
      <3> HIDE DEF V
      <3>6. Good(V)
        <4>1. ~ (k <= Cardinality(V))
          BY <2>3, <3>3
        <4> HIDE DEF Good
        <4> QED BY <2>2, <3>2, <4>1
      <3>7. m[UNION Z] = m[UNION V] + m[e]
        <4> DEFINE W == UNION V
        <4>1. \A A, B \in SUBSET F : A \cap B = {} => m[A \cup B] = m[A] + m[B]
          BY DEF Additive
        <4>2. W \in SUBSET F /\ e \in SUBSET F /\ W \cap e = {} /\ UNION Z = W \cup e
          BY <3>4, <3>5
        <4> HIDE DEF W
        <4>3. m[W \cup e] = m[W] + m[e]
          BY <4>1, <4>2
        <4> QED BY <4>2, <4>3 DEF W
      <3>8. \A x \in V \cup {e} : m[x] \in Nat
        BY <3>2 DEF Additive
      <3>9. Weigh(m, V \cup {e}) = Weigh(m, V) + m[e]
        BY <1>1, <3>2, <3>8, WeighsOneMore
      <3>10. Good(Z)
        BY <3>2, <3>6, <3>7, <3>9
      <3> QED BY <2>3, <3>10
    <2> QED BY <2>4, <2>5
  <1>3. Weigh(m, U) = m[UNION U]
    BY <1>2
  <1> QED BY <1>3 DEF Weigh
=============================================================================
