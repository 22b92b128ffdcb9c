----------------------------- MODULE DataLemmas -----------------------------
(***************************************************************************)
(* Facts about numbers and sequences that the proofs of several modules     *)
(* use.                                                                     *)
(***************************************************************************)
EXTENDS Integers, Sequences, SequencesExt, FiniteSetTheorems, SequenceTheorems, TLAPS

(* Every set of naturals has a least element. *)
LEMMA LeastNatural ==
  ASSUME NEW T \in SUBSET Nat, T # {}
  PROVE  \E x \in T : \A y \in T : x <= y
<1> DEFINE Less == OpToRel(<, Nat)
<1>1. \A x, y \in Nat : y < x => <<y, x>> \in Less
  BY DEF OpToRel
<1> HIDE DEF Less
<1>2. PICK x \in T : \A y \in T : ~(<<y, x>> \in Less)
  BY NatLessThanWellFounded, WFMin DEF Less
<1>3. \A y \in T : ~(y < x)
  BY <1>1, <1>2
<1> QED
  BY <1>3

(* Induction over the naturals, for the set of the numbers that have a property. *)
LEMMA SetInduction ==
  ASSUME NEW T, 0 \in T, \A n \in Nat : n \in T => n + 1 \in T
  PROVE  Nat \subseteq T
<1> SUFFICES ASSUME Nat \ T # {} PROVE FALSE
  OBVIOUS
<1>1. PICK x \in Nat \ T : \A y \in Nat \ T : x <= y
  BY LeastNatural
<1>2. x # 0 /\ x - 1 \in Nat
  BY <1>1
<1>3. x - 1 \in T
  BY <1>1, <1>2
<1> QED
  BY <1>1, <1>2, <1>3

(* The elements of a finite set of naturals can be put in ascending order. *)
LEMMA AscendingExists ==
  ASSUME NEW S \in SUBSET Nat, IsFiniteSet(S)
  PROVE  \E f \in [1..Cardinality(S) -> S] :
           \A i, j \in 1..Cardinality(S) : i < j => f[i] < f[j]
<1> DEFINE Sorted(U) == \E f \in [1..Cardinality(U) -> U] :
                          \A i, j \in 1..Cardinality(U) : i < j => f[i] < f[j]
           T == {n \in Nat : \A U \in SUBSET Nat : IsFiniteSet(U) /\ Cardinality(U) = n => Sorted(U)}
<1>1. 0 \in T
  <2> SUFFICES ASSUME NEW U \in SUBSET Nat, IsFiniteSet(U), Cardinality(U) = 0
               PROVE  Sorted(U)
    OBVIOUS
  <2>1. 1..Cardinality(U) = {}
    OBVIOUS
  <2>2. [k \in {} |-> 0] \in [{} -> U]
    OBVIOUS
  <2> QED
    BY <2>1, <2>2
<1>2. ASSUME NEW n \in Nat, n \in T PROVE n + 1 \in T
  <2> SUFFICES ASSUME NEW U \in SUBSET Nat, IsFiniteSet(U), Cardinality(U) = n + 1
               PROVE  Sorted(U)
    OBVIOUS
  <2>1. U # {}
    BY FS_EmptySet
  <2>2. PICK m \in U : \A y \in U : m <= y
    BY <2>1, LeastNatural
  <2> DEFINE V == U \ {m}
  <2>3. V \in SUBSET Nat /\ IsFiniteSet(V) /\ Cardinality(V) = n
    <3>1. IsFiniteSet(U \ {m}) /\ Cardinality(U \ {m}) = Cardinality(U) - 1
      BY FS_RemoveElement
    <3> QED
      BY <3>1
  <2>4. Sorted(V)
    BY <1>2, <2>3
  <2>5. PICK g \in [1..n -> V] : \A i, j \in 1..n : i < j => g[i] < g[j]
    BY <2>3, <2>4
  <2> DEFINE f == [k \in 1..(n + 1) |-> IF k = 1 THEN m ELSE g[k - 1]]
  <2>6. \A k \in 2..(n + 1) : k - 1 \in 1..n /\ f[k] = g[k - 1] /\ g[k - 1] \in V
    OBVIOUS
  <2>7. f \in [1..(n + 1) -> U] /\ f[1] = m
    BY <2>6
  <2>8. ASSUME NEW i \in 1..(n + 1), NEW j \in 1..(n + 1), i < j PROVE f[i] < f[j]
    <3>1. j \in 2..(n + 1) /\ f[j] \in V
      BY <2>6, <2>8
    <3>2. CASE i = 1
      <4>1. f[i] = m /\ f[j] \in U /\ f[j] # m
        BY <2>7, <3>1, <3>2
      <4> HIDE DEF f
      <4>2. m \in Nat /\ f[j] \in Nat /\ m <= f[j]
        BY <2>2, <4>1
      <4> QED
        BY <4>1, <4>2
    <3>3. CASE i # 1
      BY <2>5, <2>6, <2>8, <3>1, <3>3
    <3> QED
      BY <3>2, <3>3
  <2> HIDE DEF f
  <2> QED
    BY <2>7, <2>8
<1> HIDE DEF T
<1>3. Nat \subseteq T
  BY <1>1, <1>2, SetInduction
<1>4. Cardinality(S) \in T
  BY <1>3, FS_CardinalityType
<1> QED
  BY <1>4 DEF T

(* An element of s \o t is an element of s or one of t. *)
LEMMA ConcatElement ==
  ASSUME NEW S, NEW s \in Seq(S), NEW t \in Seq(S), NEW j \in 1..Len(s \o t)
  PROVE  \/ j \in 1..Len(s) /\ (s \o t)[j] = s[j]
         \/ j > Len(s) /\ j - Len(s) \in 1..Len(t) /\ (s \o t)[j] = t[j - Len(s)]
<1>1. Len(s) \in Nat /\ Len(t) \in Nat /\ Len(s \o t) = Len(s) + Len(t)
  BY ConcatProperties
<1>2. (s \o t)[j] = IF j <= Len(s) THEN s[j] ELSE t[j - Len(s)]
  BY <1>1, ConcatProperties
<1> QED
  BY <1>1, <1>2

(* Division with remainder. *)
LEMMA Division ==
  ASSUME NEW p \in Nat \ {0}, NEW x \in Nat
  PROVE  /\ x \div p \in Nat /\ x % p \in 0..(p - 1)
         /\ x \div p = 0 <=> x < p
         /\ x \div p = 0 /\ x % p = 0 => x = 0
<1>1. x \div p \in Nat
  OBVIOUS
<1>2. x % p \in 0..(p - 1)
  OBVIOUS
<1>3. ASSUME x \div p = 0 PROVE x < p
  BY <1>3
<1>4. ASSUME x < p PROVE x \div p = 0
  BY <1>4
<1>5. ASSUME x \div p = 0, x % p = 0 PROVE x = 0
  BY <1>5
<1> QED
  BY <1>1, <1>2, <1>3, <1>4, <1>5

(* The elements of Append(s, e). *)
LEMMA AppendElement ==
  ASSUME NEW S, NEW s \in Seq(S), NEW e \in S
  PROVE  /\ Len(s) \in Nat /\ Append(s, e) \in Seq(S) /\ Len(Append(s, e)) = Len(s) + 1
         /\ Append(s, e)[Len(s) + 1] = e
         /\ \A j \in 1..Len(s) : j \in 1..Len(Append(s, e)) /\ Append(s, e)[j] = s[j]
         /\ \A j \in 1..Len(Append(s, e)) :
              (j \in 1..Len(s) /\ Append(s, e)[j] = s[j]) \/ (j = Len(s) + 1 /\ Append(s, e)[j] = e)
<1>1. /\ Len(s) \in Nat /\ Append(s, e) \in Seq(S) /\ Len(Append(s, e)) = Len(s) + 1
      /\ Append(s, e)[Len(s) + 1] = e
  OBVIOUS
<1>2. \A j \in 1..Len(s) : Append(s, e)[j] = s[j]
  OBVIOUS
<1>3. \A j \in 1..(Len(s) + 1) : j \in 1..Len(s) \/ j = Len(s) + 1
  OBVIOUS
<1>4. \A j \in 1..Len(s) : j \in 1..(Len(s) + 1)
  OBVIOUS
<1> DEFINE t == Append(s, e)
<1>5. /\ Len(s) \in Nat /\ t \in Seq(S) /\ Len(t) = Len(s) + 1 /\ t[Len(s) + 1] = e
      /\ \A j \in 1..Len(s) : t[j] = s[j]
  BY <1>1, <1>2
<1> HIDE DEF t
<1>6. 1..Len(t) = 1..(Len(s) + 1)
  BY <1>5
<1>7. \A j \in 1..Len(s) : j \in 1..Len(t) /\ t[j] = s[j]
  BY <1>4, <1>5, <1>6, Zenon
<1>8. \A j \in 1..Len(t) : (j \in 1..Len(s) /\ t[j] = s[j]) \/ (j = Len(s) + 1 /\ t[j] = e)
  <2> TAKE j \in 1..Len(t)
  <2>1. j \in 1..Len(s) \/ j = Len(s) + 1
    BY <1>3, <1>6, Zenon
  <2> QED
    BY <1>5, <2>1
<1> QED
  BY <1>5, <1>7, <1>8 DEF t

(* A sequence with an element is not empty. *)
LEMMA NotEmpty ==
  ASSUME NEW s, NEW j \in 1..Len(s)
  PROVE  s # <<>>
<1>1. 1..Len(<<>>) = {}
  OBVIOUS
<1> QED
  BY <1>1

(* RemoveAt leaves one element less, and those after it move up. *)
LEMMA RemoveAtLemma ==
  ASSUME NEW S, NEW s \in Seq(S), NEW k \in 1..Len(s)
  PROVE  /\ RemoveAt(s, k) \in Seq(S)
         /\ Len(RemoveAt(s, k)) = Len(s) - 1
         /\ \A j \in 1..(Len(s) - 1) :
              RemoveAt(s, k)[j] = IF j < k THEN s[j] ELSE s[j + 1]
<1> DEFINE a == SubSeq(s, 1, k - 1)
           b == SubSeq(s, k + 1, Len(s))
<1>1. a \in Seq(S) /\ Len(a) = k - 1 /\ \A j \in 1..(k - 1) : a[j] = s[j]
  BY SubSeqProperties
<1>2. b \in Seq(S) /\ Len(b) = Len(s) - k /\ \A j \in 1..(Len(s) - k) : b[j] = s[k + j]
  BY SubSeqProperties
<1>3. RemoveAt(s, k) = a \o b
  BY DEF RemoveAt
<1> HIDE DEF a, b
<1>4. /\ a \o b \in Seq(S)
      /\ Len(a \o b) = Len(s) - 1
      /\ \A j \in 1..(Len(s) - 1) : (a \o b)[j] = IF j <= Len(a) THEN a[j] ELSE b[j - Len(a)]
  BY <1>1, <1>2, ConcatProperties
<1>5. ASSUME NEW j \in 1..(Len(s) - 1)
      PROVE  (a \o b)[j] = IF j < k THEN s[j] ELSE s[j + 1]
  <2>1. CASE j < k
    BY <1>1, <1>4, <2>1
  <2>2. CASE ~(j < k)
    <3>1. (a \o b)[j] = b[j - (k - 1)]
      BY <1>1, <1>4, <2>2
    <3>2. j - (k - 1) \in 1..(Len(s) - k) /\ k + (j - (k - 1)) = j + 1
      BY <2>2
    <3>3. b[j - (k - 1)] = s[k + (j - (k - 1))]
      BY <1>2, <3>2
    <3> QED
      BY <2>2, <3>1, <3>2, <3>3
  <2> QED
    BY <2>1, <2>2
<1> QED
  BY <1>3, <1>4, <1>5

(* Concatenation is associative. *)
LEMMA Associative ==
  ASSUME NEW S, NEW s \in Seq(S), NEW t \in Seq(S), NEW u \in Seq(S)
  PROVE  s \o (t \o u) = (s \o t) \o u
  BY ConcatAssociative, SMTT(20)

(* The sequences FlattenSeq builds on its way. *)
Builds(g, seqs, n) == g[1] = seqs[1] /\ \A i \in 2..n : g[i] = g[i - 1] \o seqs[i]
IsFlattening(g, seqs, S) == g \in [1..Len(seqs) -> Seq(S)] /\ Builds(g, seqs, Len(seqs))

(* There is such a function. *)
LEMMA FlatteningExists ==
  ASSUME NEW S, NEW seqs \in Seq(Seq(S)), Len(seqs) > 0
  PROVE  \E g : IsFlattening(g, seqs, S)
<1> DEFINE n == Len(seqs)
<1>0. n \in Nat \ {0} /\ \A i \in 1..n : seqs[i] \in Seq(S)
  OBVIOUS
<1> HIDE DEF n
<1> DEFINE Part(m) == \E g \in [1..m -> Seq(S)] :
                         g[1] = seqs[1] /\ \A i \in 2..m : g[i] = g[i - 1] \o seqs[i]
           T == {m \in Nat : m < n => Part(m + 1)}
<1>1. 0 \in T
  <2> DEFINE g == [i \in 1..1 |-> seqs[1]]
  <2>1. g \in [1..(0 + 1) -> Seq(S)] /\ g[1] = seqs[1] /\ 2..(0 + 1) = {}
    BY <1>0
  <2> HIDE DEF g
  <2>2. Part(0 + 1)
    BY <2>1
  <2> QED
    BY <2>2
<1>2. ASSUME NEW m \in Nat, m \in T PROVE m + 1 \in T
  <2>0. (m + 1) + 1 = m + 2 /\ m + 1 \in Nat
    OBVIOUS
  <2> HIDE DEF Part
  <2> SUFFICES ASSUME m + 1 < n PROVE Part(m + 2)
    BY <2>0
  <2>1. m < n
    BY <1>0
  <2> USE DEF Part
  <2>2. Part(m + 1)
    BY <1>2, <2>1
  <2>3. PICK g \in [1..(m + 1) -> Seq(S)] :
               g[1] = seqs[1] /\ \A i \in 2..(m + 1) : g[i] = g[i - 1] \o seqs[i]
    BY <2>2
  <2> DEFINE h == [i \in 1..(m + 2) |-> IF i = m + 2 THEN g[m + 1] \o seqs[m + 2] ELSE g[i]]
  <2>4. g[m + 1] \o seqs[m + 2] \in Seq(S)
    <3>1. g[m + 1] \in Seq(S) /\ seqs[m + 2] \in Seq(S)
      BY <1>0, <2>3
    <3> QED
      BY <3>1
  <2>5. h \in [1..(m + 2) -> Seq(S)] /\ h[1] = seqs[1]
    BY <2>3, <2>4
  <2>6. ASSUME NEW i \in 2..(m + 2) PROVE h[i] = h[i - 1] \o seqs[i]
    <3>1. i \in 1..(m + 2) /\ i - 1 \in 1..(m + 1) /\ i - 1 # m + 2
      OBVIOUS
    <3>2. h[i - 1] = g[i - 1]
      BY <3>1
    <3>3. CASE i = m + 2
      <4>0. m + 2 \in 1..(m + 2) /\ (m + 2) - 1 = m + 1
        OBVIOUS
      <4>1. h[m + 2] = g[m + 1] \o seqs[m + 2] /\ (m + 2) - 1 = m + 1
        BY <4>0, Zenon
      <4> HIDE DEF h
      <4> QED
        BY <3>2, <3>3, <4>1
    <3>4. CASE i # m + 2
      <4>1. i \in 2..(m + 1) /\ h[i] = g[i]
        BY <3>4
      <4> QED
        BY <2>3, <3>2, <4>1
    <3> QED
      BY <3>3, <3>4
  <2> QED
    BY <2>5, <2>6
<1> HIDE DEF T
<1>3. Nat \subseteq T
  BY <1>1, <1>2, SetInduction
<1>4. n - 1 \in T
  BY <1>0, <1>3
<1>5. Part(n)
  <2>1. n - 1 < n /\ (n - 1) + 1 = n
    BY <1>0
  <2> HIDE DEF Part
  <2>2. n - 1 < n => Part((n - 1) + 1)
    BY <1>4 DEF T
  <2> QED
    BY <2>1, <2>2
<1> QED
  BY <1>5 DEF IsFlattening, Builds, n

(* There is only one. *)
LEMMA FlatteningUnique ==
  ASSUME NEW n \in Nat, NEW seqs, NEW g, NEW h,
         Builds(g, seqs, n), Builds(h, seqs, n)
  PROVE  \A i \in 1..n : g[i] = h[i]
<1> DEFINE T == {m \in Nat : m < n => g[m + 1] = h[m + 1]}
<1>0. /\ g[1] = h[1]
      /\ \A i \in 2..n : g[i] = g[i - 1] \o seqs[i] /\ h[i] = h[i - 1] \o seqs[i]
  BY DEF Builds
<1>1. 0 \in T
  BY <1>0
<1>2. ASSUME NEW m \in Nat, m \in T PROVE m + 1 \in T
  <2> SUFFICES ASSUME m + 1 < n PROVE g[m + 2] = h[m + 2]
    OBVIOUS
  <2>1. m + 2 \in 2..n /\ (m + 2) - 1 = m + 1 /\ m < n
    OBVIOUS
  <2>2. g[m + 1] = h[m + 1]
    BY <1>2, <2>1
  <2>3. g[m + 2] = g[m + 1] \o seqs[m + 2] /\ h[m + 2] = h[m + 1] \o seqs[m + 2]
    BY <1>0, <2>1
  <2> QED
    BY <2>2, <2>3
<1> HIDE DEF T
<1>3. Nat \subseteq T
  BY <1>1, <1>2, SetInduction
<1>4. ASSUME NEW i \in 1..n PROVE g[i] = h[i]
  <2>1. i - 1 \in T /\ i - 1 < n /\ (i - 1) + 1 = i
    BY <1>3
  <2> QED
    BY <2>1 DEF T
<1> QED
  BY <1>4

(* FlattenSeq is the last of them. *)
LEMMA FlattenIs ==
  ASSUME NEW S, NEW seqs \in Seq(Seq(S)), Len(seqs) > 0,
         NEW g, IsFlattening(g, seqs, S)
  PROVE  FlattenSeq(seqs) = g[Len(seqs)]
<1> DEFINE n == Len(seqs)
           f == CHOOSE f : f = [i \in 1..Len(seqs) |-> IF i = 1 THEN seqs[i] ELSE f[i - 1] \o seqs[i]]
<1>0. n \in Nat \ {0}
  OBVIOUS
<1>1. FlattenSeq(seqs) = f[n]
  BY <1>0 DEF FlattenSeq
<1>2. g = [i \in 1..Len(seqs) |-> IF i = 1 THEN seqs[i] ELSE g[i - 1] \o seqs[i]]
  <2>1. \A i \in 1..n : i = 1 \/ i \in 2..n
    BY <1>0
  <2> QED
    BY <2>1 DEF IsFlattening, Builds
<1>3. f = [i \in 1..Len(seqs) |-> IF i = 1 THEN seqs[i] ELSE f[i - 1] \o seqs[i]]
  BY <1>2
<1> HIDE DEF f
<1>4. f[1] = seqs[1] /\ \A i \in 2..n : f[i] = f[i - 1] \o seqs[i]
  <2>1. 1 \in 1..n /\ \A i \in 2..n : i \in 1..n /\ i # 1
    BY <1>0
  <2> QED
    BY <1>3, <2>1
<1>5. \A i \in 1..n : f[i] = g[i]
  <2>1. Builds(f, seqs, n) /\ Builds(g, seqs, n)
    BY <1>4 DEF IsFlattening, Builds
  <2> HIDE DEF n
  <2> QED
    BY <1>0, <2>1, FlatteningUnique
<1> QED
  BY <1>0, <1>1, <1>5

(* Flattening nothing. *)
LEMMA FlattenEmpty ==
  FlattenSeq(<<>>) = <<>>
  BY DEF FlattenSeq

(* The flattening of sequences over S is one. *)
LEMMA FlattenType ==
  ASSUME NEW S, NEW seqs \in Seq(Seq(S))
  PROVE  FlattenSeq(seqs) \in Seq(S)
<1>1. CASE Len(seqs) = 0
  <2>1. seqs = <<>> /\ <<>> \in Seq(S)
    BY <1>1
  <2> QED
    BY <2>1, FlattenEmpty
<1>2. CASE Len(seqs) > 0
  <2>1. PICK g : IsFlattening(g, seqs, S)
    BY <1>2, FlatteningExists
  <2>2. Len(seqs) \in 1..Len(seqs)
    BY <1>2
  <2>3. FlattenSeq(seqs) = g[Len(seqs)]
    BY <1>2, <2>1, FlattenIs
  <2> QED
    BY <2>1, <2>2, <2>3 DEF IsFlattening
<1> QED
  BY <1>1, <1>2

(* One sequence more is appended. *)
LEMMA FlattenAppend ==
  ASSUME NEW S, NEW seqs \in Seq(Seq(S)), NEW s \in Seq(S)
  PROVE  FlattenSeq(Append(seqs, s)) = FlattenSeq(seqs) \o s
<1> DEFINE t == Append(seqs, s)
           n == Len(seqs)
<1>0. /\ t \in Seq(Seq(S)) /\ n \in Nat /\ Len(t) = n + 1 /\ t[n + 1] = s
      /\ \A i \in 1..n : t[i] = seqs[i]
  OBVIOUS
<1> HIDE DEF t
<1>1. PICK g : IsFlattening(g, t, S)
  BY <1>0, FlatteningExists
<1>2. FlattenSeq(t) = g[n + 1]
  BY <1>0, <1>1, FlattenIs
<1>3. CASE n = 0
  <2>1. seqs = <<>> /\ FlattenSeq(seqs) = <<>>
    BY <1>3, FlattenEmpty
  <2>2. g[n + 1] = s
    BY <1>0, <1>1, <1>3 DEF IsFlattening, Builds
  <2>3. <<>> \o s = s
    OBVIOUS
  <2> QED
    BY <1>2, <2>1, <2>2, <2>3 DEF t
<1>4. CASE n > 0
  <2> DEFINE h == [i \in 1..n |-> g[i]]
  <2>1. h \in [1..n -> Seq(S)] /\ h[1] = seqs[1] /\ h[n] = g[n]
    BY <1>0, <1>1, <1>4 DEF IsFlattening, Builds
  <2>2. ASSUME NEW i \in 2..n PROVE h[i] = h[i - 1] \o seqs[i]
    <3>1. i \in 1..n /\ i - 1 \in 1..n /\ i \in 2..(n + 1)
      BY <1>0
    <3>2. h[i] = g[i] /\ h[i - 1] = g[i - 1] /\ t[i] = seqs[i]
      BY <1>0, <3>1
    <3>3. g[i] = g[i - 1] \o t[i]
      BY <1>0, <1>1, <3>1 DEF IsFlattening, Builds
    <3> QED
      BY <3>2, <3>3
  <2> HIDE DEF h
  <2>3. IsFlattening(h, seqs, S)
    BY <2>1, <2>2 DEF IsFlattening, Builds
  <2>4. FlattenSeq(seqs) = g[n]
    BY <1>4, <2>1, <2>3, FlattenIs
  <2>5. n + 1 \in 2..(n + 1) /\ (n + 1) - 1 = n
    BY <1>0, <1>4
  <2>6. g[n + 1] = g[n] \o s
    BY <1>0, <1>1, <2>5 DEF IsFlattening, Builds
  <2> QED
    BY <1>2, <2>4, <2>6 DEF t
<1> QED
  BY <1>0, <1>3, <1>4

(* The first sequence comes first. *)
LEMMA FlattenFirst ==
  ASSUME NEW S, NEW seqs \in Seq(Seq(S)), seqs # <<>>
  PROVE  FlattenSeq(seqs) = seqs[1] \o FlattenSeq(Tail(seqs))
<1> DEFINE t == Tail(seqs)
           n == Len(seqs)
<1>0. /\ t \in Seq(Seq(S)) /\ n \in Nat \ {0} /\ Len(t) = n - 1
      /\ seqs[1] \in Seq(S)
      /\ \A i \in 1..(n - 1) : t[i] = seqs[i + 1] /\ t[i] \in Seq(S)
  OBVIOUS
<1> HIDE DEF t
<1>a. Len(seqs) > 0
  BY <1>0
<1>1. PICK g : IsFlattening(g, seqs, S)
  BY <1>a, FlatteningExists
<1>2. FlattenSeq(seqs) = g[n]
  BY <1>a, <1>1, FlattenIs
<1>3. CASE n = 1
  <2>1. t = <<>> /\ FlattenSeq(t) = <<>>
    BY <1>0, <1>3, FlattenEmpty
  <2>2. g[n] = seqs[1]
    BY <1>0, <1>1, <1>3 DEF IsFlattening, Builds
  <2>3. seqs[1] \o <<>> = seqs[1]
    BY <1>0
  <2> QED
    BY <1>2, <2>1, <2>2, <2>3 DEF t
<1>4. CASE n > 1
  <2>a. n \in 1..n /\ n # 1
    <3>1. n \in Nat /\ n > 1
      BY <1>0, <1>4
    <3> HIDE DEF n
    <3> QED
      BY <3>1
  <2>0. Len(t) > 0
    BY <1>0, <1>4
  <2>1. PICK h : IsFlattening(h, t, S)
    BY <1>0, <2>0, FlatteningExists
  <2>2. FlattenSeq(t) = h[n - 1]
    BY <1>0, <2>0, <2>1, FlattenIs
  <2> DEFINE f == [i \in 1..n |-> IF i = 1 THEN seqs[1] ELSE seqs[1] \o h[i - 1]]
  <2>3. f[1] = g[1]
    BY <1>0, <1>1 DEF IsFlattening, Builds
  <2>4. ASSUME NEW i \in 2..n PROVE f[i] = f[i - 1] \o seqs[i]
    <3>1. i \in 1..n /\ i # 1 /\ i - 1 \in 1..(n - 1) /\ i - 1 \in 1..n /\ (i - 1) + 1 = i
      BY <1>0
    <3>2. f[i] = seqs[1] \o h[i - 1] /\ t[i - 1] = seqs[i] /\ t[i - 1] \in Seq(S)
      BY <1>0, <3>1
    <3>3. CASE i = 2
      <4>1. h[i - 1] = t[1] /\ i - 1 = 1 /\ f[i - 1] = seqs[1]
        BY <1>0, <2>1, <3>3 DEF IsFlattening, Builds
      <4> QED
        BY <3>2, <4>1
    <3>4. CASE i > 2
      <4>1. i - 1 \in 2..(n - 1) /\ i - 1 # 1 /\ (i - 1) - 1 \in 1..(n - 1)
        BY <1>0, <3>4
      <4>2. f[i - 1] = seqs[1] \o h[(i - 1) - 1]
        BY <3>1, <4>1
      <4>3. h[i - 1] = h[(i - 1) - 1] \o t[i - 1] /\ h[(i - 1) - 1] \in Seq(S)
        BY <1>0, <2>1, <4>1 DEF IsFlattening, Builds
      <4>4. seqs[1] \o (h[(i - 1) - 1] \o t[i - 1]) = (seqs[1] \o h[(i - 1) - 1]) \o t[i - 1]
        <5>1. h[(i - 1) - 1] \in Seq(S) /\ t[i - 1] \in Seq(S) /\ seqs[1] \in Seq(S)
          BY <1>0, <3>2, <4>3
        <5> HIDE DEF f, n
        <5>2. PICK a \in Seq(S), b \in Seq(S), c \in Seq(S) :
                     a = seqs[1] /\ b = h[(i - 1) - 1] /\ c = t[i - 1]
          BY <5>1
        <5>3. a \o (b \o c) = (a \o b) \o c
          BY ONLY a \in Seq(S), b \in Seq(S), c \in Seq(S), Associative, SMTT(20)
        <5> QED
          BY <5>2, <5>3
      <4> HIDE DEF f
      <4> QED
        BY <3>2, <4>2, <4>3, <4>4
    <3>5. i = 2 \/ i > 2
      BY <1>0
    <3> QED
      BY <3>3, <3>4, <3>5, Zenon
  <2>5. f[n] = seqs[1] \o h[n - 1]
    BY <2>a, Zenon
  <2> HIDE DEF f
  <2>6. Builds(f, seqs, n) /\ Builds(g, seqs, n)
    BY <1>1, <2>3, <2>4 DEF IsFlattening, Builds
  <2> HIDE DEF n
  <2>7. \A i \in 1..n : f[i] = g[i]
    BY <1>0, <2>6, FlatteningUnique
  <2>8. f[n] = g[n]
    BY <2>a, <2>7, Zenon
  <2> QED
    BY <1>2, <2>2, <2>5, <2>8, Zenon DEF t
<1> QED
  BY <1>0, <1>3, <1>4

(* r is s, then t. *)
Joins(s, t, r) == s \o t = r

(* The elements of r, counted in each. *)
IsJoined(S, s, m, t, n, r) ==
  /\ r \in Seq(S) /\ Len(r) = m + n
  /\ \A x \in 1..m : r[x] = s[x]
  /\ \A x \in 1..n : r[m + x] = t[x]

(* What concatenation does to them. *)
LEMMA ConcatIs ==
  ASSUME NEW S, NEW s \in Seq(S), NEW t \in Seq(S), NEW r, Joins(s, t, r),
         NEW m \in Nat, Len(s) = m, NEW n \in Nat, Len(t) = n
  PROVE  IsJoined(S, s, m, t, n, r)
<1>0. r = s \o t
  BY DEF Joins
<1>1. r \in Seq(S) /\ Len(r) = m + n
  BY <1>0, ConcatProperties
<1>2. \A x \in 1..(m + n) : r[x] = IF x <= m THEN s[x] ELSE t[x - m]
  BY <1>0, ConcatProperties
<1>3. \A x \in 1..m : x \in 1..(m + n) /\ x <= m
  OBVIOUS
<1>4. \A x \in 1..n : m + x \in 1..(m + n) /\ ~(m + x <= m) /\ (m + x) - m = x
  OBVIOUS
<1>5. ASSUME NEW x \in 1..m PROVE r[x] = s[x]
  BY <1>2, <1>3
<1>6. ASSUME NEW x \in 1..n PROVE r[m + x] = t[x]
  <2>1. r[m + x] = t[(m + x) - m]
    BY <1>2, <1>4
  <2> QED
    BY <1>4, <2>1
<1> QED
  BY <1>1, <1>5, <1>6 DEF IsJoined

(* r has the sequence s at position at + 1. *)
Has(r, at, s) == \A x \in 1..Len(s) : r[at + x] = s[x]

(* Multiples of b are b apart. *)
LEMMA Multiples ==
  ASSUME NEW b \in Nat, NEW m \in Nat, NEW n \in Nat, m < n
  PROVE  m * b \in Nat /\ n * b \in Nat /\ m * b + b <= n * b
<1>1. PICK d \in Nat : n = (m + 1) + d
  <2>1. n - (m + 1) \in Nat /\ n = (m + 1) + (n - (m + 1))
    OBVIOUS
  <2> QED
    BY <2>1
<1>2. n * b = (m * b + b) + d * b /\ d * b \in Nat /\ m * b \in Nat
  BY <1>1
<1> QED
  BY <1>2

(* r has n sequences of length L, but for the last, and this one as the j-th. *)
Laid(r, seqs, n, L, j) == Len(r) = (n - 1) * L + Len(seqs[n]) /\ Has(r, (j - 1) * L, seqs[j])

(* Flattening sequences of length L, but for the last, puts one at every L-th position. *)
LEMMA FlattenHas ==
  ASSUME NEW S, NEW seqs \in Seq(Seq(S)), NEW n \in Nat \ {0}, Len(seqs) = n,
         NEW L \in Nat, \A j \in 1..(n - 1) : Len(seqs[j]) = L, NEW j \in 1..n
  PROVE  Laid(FlattenSeq(seqs), seqs, n, L, j)
<1> DEFINE At(m) == (m - 1) * L
<1>a. At(1) = 0
  OBVIOUS
<1>b. \A m \in Nat \ {0} : At(m) \in Nat /\ At(m + 1) = At(m) + L
  OBVIOUS
<1>c. ASSUME NEW m \in Nat \ {0}, NEW l \in Nat \ {0}, m < l PROVE At(m) + L <= At(l)
  <2>1. PICK u \in Nat, v \in Nat : u = m - 1 /\ v = l - 1
    OBVIOUS
  <2>2. u < v
    BY <1>c, <2>1
  <2>3. u * L + L <= v * L
    BY <2>2, Multiples
  <2> QED
    BY <2>1, <2>3
<1>d. At(j) = (j - 1) * L /\ At(n) = (n - 1) * L
  OBVIOUS
<1> HIDE DEF At
<1>1. Len(seqs) > 0 /\ \A m \in 1..n : seqs[m] \in Seq(S) /\ Len(seqs[m]) \in Nat
  OBVIOUS
<1>2. PICK g : IsFlattening(g, seqs, S)
  BY <1>1, FlatteningExists
<1>3. FlattenSeq(seqs) = g[n]
  BY <1>1, <1>2, FlattenIs
<1>4. /\ \A m \in 1..n : g[m] \in Seq(S)
      /\ g[1] = seqs[1] /\ \A m \in 2..n : g[m] = g[m - 1] \o seqs[m]
  BY <1>2 DEF IsFlattening, Builds
<1> DEFINE Good(m) == Len(g[m]) = At(m) + Len(seqs[m]) /\ \A l \in 1..m : Has(g[m], At(l), seqs[l])
           T == {m \in Nat : m < n => Good(m + 1)}
<1>5. 0 \in T
  <2>1. Len(g[1]) = At(1) + Len(seqs[1])
    BY <1>1, <1>4, <1>a
  <2>2. Has(g[1], At(1), seqs[1])
    BY <1>1, <1>4, <1>a DEF Has
  <2>3. 1..(0 + 1) = {1} /\ 0 + 1 = 1
    OBVIOUS
  <2> QED
    BY <2>1, <2>2, <2>3
<1>6. ASSUME NEW m \in Nat, m \in T PROVE m + 1 \in T
  <2>0. (m + 1) + 1 = m + 2 /\ m + 1 \in Nat
    OBVIOUS
  <2> HIDE DEF Good
  <2> SUFFICES ASSUME m + 1 < n PROVE Good(m + 2)
    BY <2>0
  <2>1. Good(m + 1)
    BY <1>6
  <2>2. PICK u \in Nat, v \in Nat : u = m + 1 /\ v = m + 2 /\ u \in 1..(n - 1) /\ v \in 2..n /\ v - 1 = u /\ v = u + 1
    OBVIOUS
  <2>3. Len(seqs[u]) = L /\ g[v] = g[u] \o seqs[v] /\ g[u] \in Seq(S) /\ seqs[v] \in Seq(S) /\ Len(seqs[v]) \in Nat
    <3>1. u \in 1..n /\ v \in 1..n
      BY <2>2
    <3>2. Len(seqs[u]) = L
      BY <2>2
    <3>3. g[v] = g[u] \o seqs[v]
      BY <1>4, <2>2
    <3>4. g[u] \in Seq(S)
      BY <1>4, <3>1
    <3>5. seqs[v] \in Seq(S) /\ Len(seqs[v]) \in Nat
      BY <1>1, <3>1
    <3> QED
      BY <3>2, <3>3, <3>4, <3>5
  <2>4. Len(g[u]) = At(v) /\ At(v) \in Nat /\ \A l \in 1..u : Has(g[u], At(l), seqs[l])
    <3>1. Len(g[u]) = At(u) + Len(seqs[u]) /\ \A l \in 1..u : Has(g[u], At(l), seqs[l])
      BY <2>1, <2>2 DEF Good
    <3>2. u \in Nat \ {0} /\ v \in Nat \ {0} /\ v = u + 1
      BY <2>2
    <3>3. At(v) = At(u) + L /\ At(v) \in Nat
      BY <1>b, <3>2
    <3> QED
      BY <2>3, <3>1, <3>3
  <2>5. Joins(g[u], seqs[v], g[v])
    BY <2>3 DEF Joins
  <2>6. PICK c \in Nat, d \in Nat : c = At(v) /\ d = Len(seqs[v])
    BY <2>3, <2>4
  <2>7. IsJoined(S, g[u], c, seqs[v], d, g[v])
    BY <2>3, <2>4, <2>5, <2>6, ConcatIs
  <2>8. /\ Len(g[v]) = At(v) + Len(seqs[v])
        /\ \A x \in 1..c : g[v][x] = g[u][x]
        /\ \A x \in 1..d : g[v][c + x] = seqs[v][x]
    BY <2>6, <2>7 DEF IsJoined
  <2>9. ASSUME NEW l \in 1..v PROVE Has(g[v], At(l), seqs[l])
    <3>1. CASE l = v
      BY <2>6, <2>8, <3>1 DEF Has
    <3>2. CASE l # v
      <4>1. l \in 1..u /\ l \in 1..(n - 1) /\ l < v /\ l \in Nat \ {0}
        BY <2>2, <3>2
      <4>2. Has(g[u], At(l), seqs[l]) /\ Len(seqs[l]) = L /\ At(l) + L <= At(v) /\ At(l) \in Nat
        <5>1. Has(g[u], At(l), seqs[l])
          BY <2>4, <4>1
        <5>2. Len(seqs[l]) = L
          BY <4>1
        <5>3. v \in Nat \ {0}
          BY <2>2
        <5>4. At(l) + L <= At(v) /\ At(l) \in Nat
          BY <1>b, <1>c, <4>1, <5>3
        <5> QED
          BY <5>1, <5>2, <5>4
      <4>3. ASSUME NEW x \in 1..Len(seqs[l]) PROVE g[v][At(l) + x] = seqs[l][x]
        <5>1. At(l) + x \in 1..c
          BY <2>6, <4>2
        <5> QED
          BY <2>8, <4>2, <5>1 DEF Has
      <4> QED
        BY <4>3 DEF Has
    <3> QED
      BY <3>1, <3>2
  <2> QED
    BY <2>2, <2>8, <2>9 DEF Good
<1> HIDE DEF T
<1>7. Nat \subseteq T
  BY <1>5, <1>6, SetInduction
<1>8. n - 1 \in T /\ n - 1 < n /\ (n - 1) + 1 = n
  BY <1>7
<1>9. Good(n)
  <2> HIDE DEF Good
  <2>1. n - 1 < n => Good((n - 1) + 1)
    BY <1>8 DEF T
  <2> QED
    BY <1>8, <2>1
<1> QED
  BY <1>3, <1>4, <1>9, <1>d DEF Laid

(* The part of r after position at is s. *)
Cut(r, at, s) == SubSeq(r, at + 1, at + Len(s)) = s

(* What r has at a position can be cut out there. *)
LEMMA HasCut ==
  ASSUME NEW S, NEW r \in Seq(S), NEW s \in Seq(S), NEW at \in Nat, Has(r, at, s), at + Len(s) <= Len(r)
  PROVE  Cut(r, at, s)
<1>1. PICK n \in Nat, m \in Nat : n = Len(s) /\ m = Len(r) /\ at + n <= m
  OBVIOUS
<1> DEFINE t == SubSeq(r, at + 1, at + n)
<1>2. t \in Seq(S)
  <2>1. \A x \in (at + 1)..(at + n) : x \in 1..Len(r)
    BY <1>1
  <2>2. \A x \in (at + 1)..(at + n) : r[x] \in S
    BY <2>1
  <2> QED
    BY <1>1, <2>2, SubSeqProperties
<1>3. Len(t) = n
  <2>1. Len(t) = IF at + 1 <= at + n THEN (at + n) - (at + 1) + 1 ELSE 0
    BY <1>1
  <2> QED
    BY <1>1, <2>1
<1>4. \A x \in 1..n : t[x] = r[at + x]
  <2> TAKE x \in 1..n
  <2>1. (at + 1) + x - 1 = at + x /\ x \in 1..((at + n) - (at + 1) + 1)
    BY <1>1
  <2> QED
    BY <1>1, <2>1
<1> HIDE DEF t
<1>5. \A x \in 1..n : t[x] = s[x]
  BY <1>1, <1>4 DEF Has
<1>6. t = s
  BY <1>1, <1>2, <1>3, <1>5, SeqEqual
<1> QED
  BY <1>1, <1>6 DEF Cut, t

(* Flattened sequences of length L, but for the last, are found at every L-th position. *)
LEMMA FlattenCut ==
  ASSUME NEW S, NEW seqs \in Seq(Seq(S)), NEW n \in Nat \ {0}, Len(seqs) = n,
         NEW L \in Nat, \A j \in 1..(n - 1) : Len(seqs[j]) = L, NEW j \in 1..n
  PROVE  Cut(FlattenSeq(seqs), (j - 1) * L, seqs[j])
<1>1. /\ FlattenSeq(seqs) \in Seq(S)
      /\ Len(FlattenSeq(seqs)) = (n - 1) * L + Len(seqs[n])
      /\ Has(FlattenSeq(seqs), (j - 1) * L, seqs[j])
  <2>1. FlattenSeq(seqs) \in Seq(S)
    BY FlattenType
  <2>2. Laid(FlattenSeq(seqs), seqs, n, L, j)
    BY FlattenHas
  <2> QED
    BY <2>1, <2>2 DEF Laid
<1>2. seqs[j] \in Seq(S) /\ seqs[n] \in Seq(S) /\ Len(seqs[j]) \in Nat /\ Len(seqs[n]) \in Nat
  OBVIOUS
<1>3. PICK u \in Nat, v \in Nat : u = j - 1 /\ v = n - 1
  OBVIOUS
<1>4. PICK a \in Nat, b \in Nat : a = u * L /\ b = v * L
  OBVIOUS
<1>5. a + Len(seqs[j]) <= b + Len(seqs[n])
  <2>1. CASE j = n
    BY <1>2, <1>3, <1>4, <2>1
  <2>2. CASE j # n
    <3>1. j \in 1..(n - 1) /\ u < v
      BY <1>3, <2>2
    <3>2. u * L + L <= v * L
      BY <3>1, Multiples
    <3>3. Len(seqs[j]) = L
      BY <3>1
    <3>4. PICK x \in Nat : x = Len(seqs[n])
      BY <1>2
    <3>5. a + L <= b + x
      BY <1>4, <3>2
    <3> QED
      BY <3>3, <3>4, <3>5
  <2> QED
    BY <2>1, <2>2
<1>6. Has(FlattenSeq(seqs), a, seqs[j]) /\ a + Len(seqs[j]) <= Len(FlattenSeq(seqs))
  BY <1>1, <1>3, <1>4, <1>5
<1>7. Cut(FlattenSeq(seqs), a, seqs[j])
  BY <1>1, <1>2, <1>6, HasCut
<1> QED
  BY <1>3, <1>4, <1>7

=============================================================================
