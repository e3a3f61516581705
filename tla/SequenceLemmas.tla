--------------------------- MODULE SequenceLemmas ---------------------------
(***************************************************************************)
(* Facts about the sequence operations the models use: which elements they *)
(* leave, that they keep a sequence free of duplicates (IsInjective), and  *)
(* what a stable sort returns; and about the sums the models take over a   *)
(* finite set.                                                             *)
(***************************************************************************)
EXTENDS Integers, Sequences, SequencesExt, StableSorting, SequenceTheorems,
        FiniteSetTheorems, WellFoundedInduction, NaturalsInduction, TLAPS

\* A set of natural numbers has a least one.
LEMMA LeastNumber ==
  ASSUME NEW I, I \subseteq Nat, I # {}
  PROVE  \E m \in I : \A k \in I : m <= k
<1> DEFINE Less == {p \in Nat \X Nat : p[1] < p[2]}
<1>1. IsWellFoundedOn(Less, Nat)
  BY NatLessThanWellFounded DEF OpToRel
<1>2. PICK m \in I : \A k \in I : <<k, m>> \notin Less
  BY <1>1, WFMin
<1>3. ASSUME NEW k \in I
      PROVE  m <= k
  <2>1. <<k, m>> \in Nat \X Nat /\ <<k, m>> \notin Less
    BY <1>2
  <2>2. ~(k < m)
    BY <2>1
  <2> QED
    BY <2>2
<1> QED
  BY <1>3

\* The smallest number of a set of numbers, which SelectInSeq picks, exists.
LEMMA LeastIndex ==
  ASSUME NEW I, I \subseteq Nat, I # {}
  PROVE  Min(I) \in I
<1>1. PICK m \in I : \A k \in I : m <= k
  BY LeastNumber
<1> QED
  BY <1>1 DEF Min

\* Removing the entry at position i keeps the other entries in order.
LEMMA RemoveAtProperties ==
  ASSUME NEW S, NEW s \in Seq(S), NEW i \in 1..Len(s)
  PROVE  /\ RemoveAt(s, i) \in Seq(S)
         /\ Len(RemoveAt(s, i)) = Len(s) - 1
         /\ \A j \in 1..(Len(s) - 1) :
              RemoveAt(s, i)[j] = IF j < i THEN s[j] ELSE s[j + 1]
<1> DEFINE front == SubSeq(s, 1, i - 1)
           back  == SubSeq(s, i + 1, Len(s))
<1>1. Len(s) \in Nat /\ \A j \in 1..Len(s) : s[j] \in S
  BY ElementOfSeq, LenProperties
<1>2. /\ front \in Seq(S) /\ Len(front) = i - 1
      /\ \A j \in 1..(i - 1) : front[j] = s[j]
  BY <1>1, SubSeqProperties
<1>3. /\ back \in Seq(S) /\ Len(back) = Len(s) - i
      /\ \A j \in 1..(Len(s) - i) : back[j] = s[i + j]
  <2>1. i + 1 \in Int /\ Len(s) \in Int /\ \A j \in (i + 1)..Len(s) : s[j] \in S
    BY <1>1
  <2>2. /\ back \in Seq(S)
        /\ Len(back) = IF i + 1 <= Len(s) THEN Len(s) - (i + 1) + 1 ELSE 0
        /\ \A j \in 1..(Len(s) - (i + 1) + 1) : back[j] = s[(i + 1) + j - 1]
    BY <2>1, SubSeqProperties
  <2> QED
    BY <1>1, <2>2
<1>4. RemoveAt(s, i) = front \o back
  BY DEF RemoveAt
<1> HIDE DEF front, back
<1>5. /\ front \o back \in Seq(S)
      /\ Len(front \o back) = Len(front) + Len(back)
      /\ \A j \in 1..(Len(front) + Len(back)) :
           (front \o back)[j] = IF j <= Len(front) THEN front[j] ELSE back[j - Len(front)]
  BY <1>2, <1>3, ConcatProperties
<1>6. Len(front) + Len(back) = Len(s) - 1
  BY <1>1, <1>2, <1>3
<1>7. ASSUME NEW j \in 1..(Len(s) - 1)
      PROVE  (front \o back)[j] = IF j < i THEN s[j] ELSE s[j + 1]
  <2>1. CASE j < i
    BY <1>1, <1>2, <1>5, <1>6, <2>1
  <2>2. CASE j >= i
    <3>1. j - (i - 1) \in 1..(Len(s) - i) /\ i + (j - (i - 1)) = j + 1
      BY <1>1, <2>2
    <3>2. (front \o back)[j] = back[j - (i - 1)]
      BY <1>1, <1>2, <1>5, <1>6, <2>2
    <3>3. back[j - (i - 1)] = s[i + (j - (i - 1))]
      BY <1>3, <3>1
    <3> QED
      BY <1>1, <2>2, <3>1, <3>2, <3>3
  <2>3. j < i \/ j >= i
    BY <1>1
  <2> QED
    BY <2>1, <2>2, <2>3, Zenon
<1> QED
  BY <1>1, <1>4, <1>5, <1>6, <1>7

\* RemoveFirst removes one entry that is e, and nothing if there is none.
LEMMA RemoveFirstProperties ==
  ASSUME NEW S, NEW s \in Seq(S), NEW e
  PROVE  /\ RemoveFirst(s, e) \in Seq(S)
         /\ e \in Range(s) =>
              \E i \in 1..Len(s) : s[i] = e /\ RemoveFirst(s, e) = RemoveAt(s, i)
<1> DEFINE I == {i \in 1..Len(s) : s[i] = e}
<1>1. CASE I = {}
  <2>1. e \notin Range(s)
    BY <1>1, LenProperties DEF Range
  <2>2. RemoveFirst(s, e) = s
    BY <1>1 DEF RemoveFirst
  <2> QED
    BY <2>1, <2>2
<1>2. CASE I # {}
  <2>1. Min(I) \in I
    <3>1. I \subseteq Nat
      OBVIOUS
    <3> HIDE DEF I
    <3> QED
      BY <1>2, <3>1, LeastIndex
  <2>2. RemoveFirst(s, e) = RemoveAt(s, Min(I))
    BY <1>2 DEF RemoveFirst, SelectInSeq
  <2> QED
    BY <2>1, <2>2, RemoveAtProperties
<1> QED
  BY <1>1, <1>2

\* The elements of a sequence.
LEMMA RangeIs ==
  ASSUME NEW S, NEW s \in Seq(S)
  PROVE  /\ Range(s) \subseteq S
         /\ \A x : x \in Range(s) <=> \E i \in 1..Len(s) : x = s[i]
         /\ IsInjective(s) <=>
              \A i, j \in 1..Len(s) : s[i] = s[j] => i = j
  BY LenProperties, ElementOfSeq DEF Range, IsInjective

\* A new last element.
LEMMA AppendDistinct ==
  ASSUME NEW S, NEW s \in Seq(S), NEW e \in S
  PROVE  /\ Range(Append(s, e)) = Range(s) \cup {e}
         /\ IsInjective(s) /\ e \notin Range(s) => IsInjective(Append(s, e))
<1> DEFINE t == Append(s, e)
<1>1. /\ t \in Seq(S) /\ Len(t) = Len(s) + 1 /\ Len(s) \in Nat
      /\ t[Len(s) + 1] = e
      /\ \A i \in 1..Len(s) : t[i] = s[i]
  BY AppendProperties, LenProperties
<1> HIDE DEF t
<1>2. /\ \A x : x \in Range(s) <=> \E i \in 1..Len(s) : x = s[i]
      /\ \A x : x \in Range(t) <=> \E i \in 1..Len(t) : x = t[i]
  BY <1>1, RangeIs
<1>3. 1..Len(t) = 1..Len(s) \cup {Len(s) + 1}
  BY <1>1
<1>4. Range(t) = Range(s) \cup {e}
  BY <1>1, <1>2, <1>3
<1>5. ASSUME IsInjective(s), e \notin Range(s)
      PROVE  IsInjective(t)
  <2>1. \A i, j \in 1..Len(s) : s[i] = s[j] => i = j
    BY <1>5, RangeIs
  <2>2. \A i, j \in 1..Len(t) : t[i] = t[j] => i = j
    BY <1>1, <1>2, <1>3, <1>5, <2>1
  <2> QED
    BY <1>1, <2>2, RangeIs
<1> QED
  BY <1>4, <1>5 DEF t

\* A sequence that keeps some entries of s, at most once each, t[i] = s[f[i]];
\* G is what it leaves out.
LEMMA SelectionDistinct ==
  ASSUME NEW S, NEW s \in Seq(S), NEW t \in Seq(S),
         NEW f \in [1..Len(t) -> 1..Len(s)], IsInjective(f),
         \A i \in 1..Len(t) : t[i] = s[f[i]],
         NEW G, \A x : x \in G <=> \E i \in 1..Len(s) \ Range(f) : x = s[i]
  PROVE  /\ Range(t) \subseteq Range(s)
         /\ IsInjective(s) => IsInjective(t)
         /\ IsInjective(s) => Range(t) = Range(s) \ G
<1>1. /\ \A x : x \in Range(s) <=> \E i \in 1..Len(s) : x = s[i]
      /\ \A x : x \in Range(t) <=> \E i \in 1..Len(t) : x = t[i]
  BY RangeIs
<1>2. \A i, j \in 1..Len(t) : f[i] = f[j] => i = j
  BY DEF IsInjective
<1>3. \A k : k \in Range(f) <=> \E i \in 1..Len(t) : k = f[i]
  BY DEF Range
<1>4. Range(t) \subseteq Range(s)
  BY <1>1
<1>5. ASSUME IsInjective(s)
      PROVE  IsInjective(t) /\ Range(t) = Range(s) \ G
  <2>1. \A i, j \in 1..Len(s) : s[i] = s[j] => i = j
    BY <1>5, RangeIs
  <2>2. \A i, j \in 1..Len(t) : t[i] = t[j] => i = j
    BY <1>2, <2>1
  <2>3. IsInjective(t)
    BY <2>2, RangeIs
  <2>4. ASSUME NEW x
        PROVE  x \in Range(t) <=> x \in Range(s) /\ \A i \in 1..Len(s) \ Range(f) : x # s[i]
    <3>1. ASSUME x \in Range(t)
          PROVE  x \in Range(s) /\ \A i \in 1..Len(s) \ Range(f) : x # s[i]
      <4>1. PICK k \in 1..Len(t) : x = t[k]
        BY <1>1, <3>1
      <4>2. f[k] \in 1..Len(s) /\ f[k] \in Range(f) /\ x = s[f[k]]
        BY <1>3, <4>1
      <4> QED
        BY <1>1, <2>1, <4>2
    <3>2. ASSUME x \in Range(s), \A i \in 1..Len(s) \ Range(f) : x # s[i]
          PROVE  x \in Range(t)
      <4>1. PICK j \in 1..Len(s) : x = s[j]
        BY <1>1, <3>2
      <4>2. PICK k \in 1..Len(t) : j = f[k]
        BY <1>3, <3>2, <4>1
      <4> QED
        BY <1>1, <4>1, <4>2
    <3> QED
      BY <3>1, <3>2
  <2> QED
    BY <2>3, <2>4
<1> QED
  BY <1>4, <1>5

\* Without its first k entries.
LEMMA DropDistinct ==
  ASSUME NEW S, NEW s \in Seq(S), NEW k \in 0..Len(s)
  PROVE  /\ SubSeq(s, k + 1, Len(s)) \in Seq(S)
         /\ Len(SubSeq(s, k + 1, Len(s))) = Len(s) - k
         /\ Range(SubSeq(s, k + 1, Len(s))) \subseteq Range(s)
         /\ IsInjective(s) =>
              /\ IsInjective(SubSeq(s, k + 1, Len(s)))
              /\ Range(SubSeq(s, k + 1, Len(s))) = Range(s) \ {s[i] : i \in 1..k}
<1> DEFINE t == SubSeq(s, k + 1, Len(s))
           f == [i \in 1..(Len(s) - k) |-> i + k]
<1>1. Len(s) \in Nat /\ \A i \in 1..Len(s) : s[i] \in S
  BY LenProperties, ElementOfSeq
<1>2. k \in Nat /\ k <= Len(s)
  BY <1>1
<1>3. /\ t \in Seq(S) /\ Len(t) = Len(s) - k
      /\ \A i \in 1..(Len(s) - k) : t[i] = s[i + k]
  <2>1. k + 1 \in Int /\ Len(s) \in Int /\ \A i \in (k + 1)..Len(s) : s[i] \in S
    BY <1>1, <1>2
  <2>2. /\ t \in Seq(S)
        /\ Len(t) = IF k + 1 <= Len(s) THEN Len(s) - (k + 1) + 1 ELSE 0
        /\ \A i \in 1..(Len(s) - (k + 1) + 1) : t[i] = s[(k + 1) + i - 1]
    BY <2>1, SubSeqProperties
  <2> QED
    BY <1>1, <1>2, <2>2
<1>4. /\ f \in [1..Len(t) -> 1..Len(s)] /\ IsInjective(f)
      /\ \A i \in 1..Len(t) : t[i] = s[f[i]]
  BY <1>1, <1>2, <1>3 DEF IsInjective
<1> DEFINE G == {s[i] : i \in 1..k}
<1>5. \A x : x \in G <=> \E i \in 1..Len(s) \ Range(f) : x = s[i]
  <2>1. ASSUME NEW j \in 1..Len(s)
        PROVE  j \in Range(f) <=> j > k
    <3>1. CASE j > k
      <4>1. j - k \in 1..(Len(s) - k) /\ f[j - k] = j
        BY <1>1, <1>2, <3>1
      <4> QED
        BY <3>1, <4>1 DEF Range
    <3>2. CASE j <= k
      BY <1>1, <1>2, <3>2 DEF Range
    <3> QED
      BY <1>1, <1>2, <3>1, <3>2
  <2> HIDE DEF f
  <2> QED
    BY <1>1, <1>2, <2>1
<1> HIDE DEF t, f, G
<1>6. /\ Range(t) \subseteq Range(s)
      /\ IsInjective(s) => IsInjective(t)
      /\ IsInjective(s) => Range(t) = Range(s) \ G
  BY <1>3, <1>4, <1>5, SelectionDistinct
<1> QED
  BY <1>3, <1>6 DEF t, G

\* Without its first entry.
LEMMA TailDistinct ==
  ASSUME NEW S, NEW s \in Seq(S), s # <<>>
  PROVE  /\ Tail(s) \in Seq(S) /\ Head(s) \in Range(s) /\ Head(s) \in S
         /\ Range(Tail(s)) \subseteq Range(s)
         /\ IsInjective(s) => IsInjective(Tail(s))
         /\ IsInjective(s) => Range(Tail(s)) = Range(s) \ {Head(s)}
<1>1. Len(s) \in Nat /\ 1 \in 0..Len(s) /\ 1 \in 1..Len(s)
  BY LenProperties, EmptySeq
<1>2. Tail(s) = SubSeq(s, 1 + 1, Len(s))
  BY TailIsSubSeq
<1>3. Head(s) = s[1]
  OBVIOUS
<1>4. Head(s) \in Range(s) /\ Head(s) \in S
  BY <1>1, <1>3, RangeIs, ElementOfSeq
<1>5. {s[i] : i \in 1..1} = {Head(s)}
  BY <1>3
<1> DEFINE t == SubSeq(s, 1 + 1, Len(s))
<1>6. /\ t \in Seq(S)
      /\ Range(t) \subseteq Range(s)
      /\ IsInjective(s) => IsInjective(t)
      /\ IsInjective(s) => Range(t) = Range(s) \ {s[i] : i \in 1..1}
  BY <1>1, DropDistinct
<1> HIDE DEF t
<1> QED
  BY <1>2, <1>4, <1>5, <1>6 DEF t

\* Without its last entry.
LEMMA FrontDistinct ==
  ASSUME NEW S, NEW s \in Seq(S), s # <<>>
  PROVE  /\ Front(s) \in Seq(S) /\ Last(s) \in Range(s) /\ Last(s) \in S
         /\ Range(Front(s)) \subseteq Range(s)
         /\ IsInjective(s) => IsInjective(Front(s))
         /\ IsInjective(s) => Range(Front(s)) = Range(s) \ {Last(s)}
<1> DEFINE t == Front(s)
           f == [i \in 1..(Len(s) - 1) |-> i]
<1>1. Len(s) \in Nat \ {0} /\ \A i \in 1..Len(s) : s[i] \in S
  BY LenProperties, ElementOfSeq, EmptySeq
<1>2. /\ t \in Seq(S) /\ Len(t) = Len(s) - 1
      /\ \A i \in 1..(Len(s) - 1) : t[i] = s[i]
  <2> DEFINE n == Len(s) - 1
             u == SubSeq(s, 1, n)
  <2>1. n \in Nat /\ 1 \in Int /\ n \in Int /\ \A i \in 1..n : s[i] \in S
    BY <1>1
  <2> HIDE DEF n
  <2>2. /\ u \in Seq(S) /\ Len(u) = IF 1 <= n THEN n - 1 + 1 ELSE 0
        /\ \A i \in 1..(n - 1 + 1) : u[i] = s[1 + i - 1]
    BY <2>1, SubSeqProperties
  <2> HIDE DEF u
  <2>3. u \in Seq(S) /\ Len(u) = n /\ \A i \in 1..n : u[i] = s[i]
    BY <2>1, <2>2
  <2> QED
    BY <2>3 DEF Front, n, u
<1>3. /\ f \in [1..Len(t) -> 1..Len(s)] /\ IsInjective(f)
      /\ \A i \in 1..Len(t) : t[i] = s[f[i]]
  BY <1>1, <1>2 DEF IsInjective
<1> DEFINE G == {Last(s)}
<1>4. \A x : x \in G <=> \E i \in 1..Len(s) \ Range(f) : x = s[i]
  <2>1. 1..Len(s) \ Range(f) = {Len(s)}
    BY <1>1 DEF Range
  <2> QED
    BY <2>1 DEF Last
<1>5. Last(s) \in Range(s) /\ Last(s) \in S
  BY <1>1, RangeIs DEF Last
<1> HIDE DEF t, f, G
<1>6. /\ Range(t) \subseteq Range(s)
      /\ IsInjective(s) => IsInjective(t)
      /\ IsInjective(s) => Range(t) = Range(s) \ G
  BY <1>2, <1>3, <1>4, SelectionDistinct
<1> QED
  BY <1>2, <1>5, <1>6 DEF t, G

\* Without the first entry that is e.
LEMMA RemoveFirstDistinct ==
  ASSUME NEW S, NEW s \in Seq(S), NEW e \in Range(s)
  PROVE  /\ RemoveFirst(s, e) \in Seq(S)
         /\ Range(RemoveFirst(s, e)) \subseteq Range(s)
         /\ IsInjective(s) => IsInjective(RemoveFirst(s, e))
         /\ IsInjective(s) => Range(RemoveFirst(s, e)) = Range(s) \ {e}
<1>1. PICK i \in 1..Len(s) : s[i] = e /\ RemoveFirst(s, e) = RemoveAt(s, i)
  BY RemoveFirstProperties
<1> DEFINE t == RemoveFirst(s, e)
           f == [j \in 1..(Len(s) - 1) |-> IF j < i THEN j ELSE j + 1]
<1>2. /\ Len(s) \in Nat
      /\ t \in Seq(S) /\ Len(t) = Len(s) - 1
      /\ \A j \in 1..(Len(s) - 1) : t[j] = IF j < i THEN s[j] ELSE s[j + 1]
  <2>1. /\ RemoveAt(s, i) \in Seq(S) /\ Len(RemoveAt(s, i)) = Len(s) - 1
        /\ \A j \in 1..(Len(s) - 1) :
             RemoveAt(s, i)[j] = IF j < i THEN s[j] ELSE s[j + 1]
    BY RemoveAtProperties
  <2> QED
    BY <1>1, <2>1, LenProperties
<1>3. /\ f \in [1..Len(t) -> 1..Len(s)] /\ IsInjective(f)
      /\ \A j \in 1..Len(t) : t[j] = s[f[j]]
  <2> HIDE DEF t
  <2> QED
    BY <1>2 DEF IsInjective
<1> DEFINE G == {e}
<1>4. \A x : x \in G <=> \E j \in 1..Len(s) \ Range(f) : x = s[j]
  <2>1. ASSUME NEW j \in 1..Len(s), j # i
        PROVE  j \in Range(f)
    <3>1. CASE j < i
      BY <1>2, <3>1 DEF Range
    <3>2. CASE j > i
      <4>1. j - 1 \in 1..(Len(s) - 1) /\ f[j - 1] = j
        BY <1>2, <3>2
      <4> QED
        BY <4>1 DEF Range
    <3> QED
      BY <1>2, <2>1, <3>1, <3>2
  <2>2. i \notin Range(f)
    BY <1>2 DEF Range
  <2>3. 1..Len(s) \ Range(f) = {i}
    BY <2>1, <2>2
  <2> QED
    BY <1>1, <2>3
<1> HIDE DEF t, f, G
<1>5. /\ Range(t) \subseteq Range(s)
      /\ IsInjective(s) => IsInjective(t)
      /\ IsInjective(s) => Range(t) = Range(s) \ G
  BY <1>2, <1>3, <1>4, SelectionDistinct, ZenonT(30)
<1> QED
  BY <1>2, <1>5, SMTT(30) DEF t, G

-----------------------------------------------------------------------------
(* Sizes of finite sets, and sorting: what StablePlaces returns.           *)

\* A function that gives different elements different values has as many values.
LEMMA ImageSize ==
  ASSUME NEW D, IsFiniteSet(D), NEW T, NEW f \in [D -> T],
         \A x, y \in D : f[x] = f[y] => x = y,
         \A t \in T : \E x \in D : f[x] = t
  PROVE  IsFiniteSet(T) /\ Cardinality(T) = Cardinality(D)
<1>1. f \in Bijection(D, T)
  BY DEF Bijection, Injection, Surjection, IsInjective
<1>2. ExistsBijection(D, T)
  BY <1>1 DEF ExistsBijection
<1> QED
  BY <1>2, FS_Bijection

\* So has any part of it.
LEMMA PartSize ==
  ASSUME NEW D, IsFiniteSet(D), NEW T, NEW f \in [D -> T],
         \A x, y \in D : f[x] = f[y] => x = y,
         \A t \in T : \E x \in D : f[x] = t,
         NEW E \in SUBSET D, NEW F \in SUBSET T,
         \A x \in D : f[x] \in F <=> x \in E
  PROVE  IsFiniteSet(E) /\ IsFiniteSet(F) /\ Cardinality(F) = Cardinality(E)
<1> DEFINE g == [x \in E |-> f[x]]
<1>1. IsFiniteSet(E)
  BY FS_Subset
<1>2. g \in [E -> F] /\ \A x \in E : g[x] = f[x]
  OBVIOUS
<1> HIDE DEF g
<1>3. \A x, y \in E : g[x] = g[y] => x = y
  BY <1>2
<1>4. \A t \in F : \E x \in E : g[x] = t
  BY <1>2
<1> QED
  BY <1>1, <1>2, <1>3, <1>4, ImageSize

\* If they are numbers from 1 to how many elements there are, each is one's.
LEMMA Onto ==
  ASSUME NEW D, IsFiniteSet(D), NEW f \in [D -> 1..Cardinality(D)],
         \A x, y \in D : f[x] = f[y] => x = y
  PROVE  \A p \in 1..Cardinality(D) : \E x \in D : f[x] = p
<1> DEFINE T == {f[x] : x \in D}
           n == Cardinality(D)
<1>1. IsFiniteSet(T) /\ Cardinality(T) = n
  <2>1. f \in [D -> T] /\ \A t \in T : \E x \in D : f[x] = t
    OBVIOUS
  <2> HIDE DEF T
  <2> QED
    BY <2>1, ImageSize
<1>2. T \in SUBSET (1..n)
  OBVIOUS
<1>3. n \in Nat /\ Cardinality(1..n) = n /\ IsFiniteSet(1..n)
  BY FS_CardinalityType, FS_Interval
<1>4. T = 1..n
  <2> HIDE DEF T, n
  <2> QED
    BY <1>1, <1>2, <1>3, FS_Subset
<1> QED
  BY <1>4

\* B[i] are those before i in a strict total order of a finite set: one more
\* than their number is a rank of its own for each element.
LEMMA Ranks ==
  ASSUME NEW D, IsFiniteSet(D), NEW B \in [D -> SUBSET D],
         \A i \in D : i \notin B[i],
         \A i, j, k \in D : i \in B[j] /\ j \in B[k] => i \in B[k],
         \A i, j \in D : i # j => i \in B[j] \/ j \in B[i]
  PROVE  /\ Cardinality(D) \in Nat
         /\ \A i \in D : Cardinality(B[i]) \in Nat /\ Cardinality(B[i]) < Cardinality(D)
         /\ \A i, j \in D : i \in B[j] => Cardinality(B[i]) < Cardinality(B[j])
         /\ \A i, j \in D : Cardinality(B[i]) = Cardinality(B[j]) => i = j
         /\ \A p \in 1..Cardinality(D) : \E i \in D : Cardinality(B[i]) + 1 = p
<1> DEFINE n == Cardinality(D)
           f == [i \in D |-> Cardinality(B[i]) + 1]
<1>1. n \in Nat
  BY FS_CardinalityType
<1>2. ASSUME NEW i \in D
      PROVE  /\ IsFiniteSet(B[i]) /\ Cardinality(B[i]) \in Nat
             /\ Cardinality(B[i]) < n
  <2>1. B[i] \in SUBSET D /\ B[i] # D
    OBVIOUS
  <2>2. IsFiniteSet(B[i]) /\ Cardinality(B[i]) <= n /\ (n = Cardinality(B[i]) => B[i] = D)
    BY <2>1, FS_Subset
  <2>3. Cardinality(B[i]) \in Nat
    BY <2>2, FS_CardinalityType
  <2> HIDE DEF n
  <2> QED
    BY <1>1, <2>1, <2>2, <2>3
<1>3. ASSUME NEW i \in D, NEW j \in D, i \in B[j]
      PROVE  Cardinality(B[i]) < Cardinality(B[j])
  <2>1. B[i] \in SUBSET B[j] /\ i \notin B[i]
    BY <1>3
  <2>2. IsFiniteSet(B[j])
    BY <1>2
  <2>3. /\ Cardinality(B[i]) <= Cardinality(B[j])
        /\ Cardinality(B[j]) = Cardinality(B[i]) => B[i] = B[j]
    BY <2>1, <2>2, FS_Subset
  <2> QED
    BY <1>2, <1>3, <2>1, <2>3
<1>4. ASSUME NEW i \in D, NEW j \in D, Cardinality(B[i]) = Cardinality(B[j])
      PROVE  i = j
  <2> SUFFICES ASSUME i # j PROVE FALSE
    OBVIOUS
  <2>1. i \in B[j] \/ j \in B[i]
    OBVIOUS
  <2>2. Cardinality(B[i]) < Cardinality(B[j]) \/ Cardinality(B[j]) < Cardinality(B[i])
    BY <1>3, <2>1
  <2> QED
    BY <1>2, <1>4, <2>2
<1>5. \A i \in D : f[i] = Cardinality(B[i]) + 1
  OBVIOUS
<1>6. f \in [D -> 1..n]
  <2>1. \A i \in D : Cardinality(B[i]) + 1 \in 1..n
    <3> HIDE DEF n
    <3> QED
      BY <1>1, <1>2
  <2> QED
    BY <2>1
<1> HIDE DEF f
<1>7. \A i, j \in D : f[i] = f[j] => i = j
  BY <1>2, <1>4, <1>5
<1>8. \A p \in 1..n : \E i \in D : f[i] = p
  BY <1>6, <1>7, Onto
<1>9. \A p \in 1..n : \E i \in D : Cardinality(B[i]) + 1 = p
  BY <1>5, <1>8
<1> QED
  BY <1>1, <1>2, <1>3, <1>4, <1>9

\* A finite set P of places, L the pairs of them whose elements are in strict
\* order, and B[i] the places that come before i: those of smaller elements, and
\* the earlier ones of equal elements.
StablyOrdered(P, L, B) ==
  /\ P \in SUBSET Nat /\ IsFiniteSet(P)
  /\ \A i, j \in P : <<i, j>> \in L => <<j, i>> \notin L
  /\ \A i, j, k \in P : <<i, k>> \in L => <<i, j>> \in L \/ <<j, k>> \in L
  /\ B \in [P -> SUBSET P]
  /\ \A i, j \in P : j \in B[i] <=> <<j, i>> \in L \/ (<<i, j>> \notin L /\ j < i)

\* That is a strict total order of the places.
LEMMA PlacesInOrder ==
  ASSUME NEW P, NEW L, NEW B, StablyOrdered(P, L, B)
  PROVE  /\ Cardinality(P) \in Nat
         /\ \A i \in P : Cardinality(B[i]) \in Nat /\ Cardinality(B[i]) < Cardinality(P)
         /\ \A i, j \in P : i \in B[j] => Cardinality(B[i]) < Cardinality(B[j])
         /\ \A i, j \in P : Cardinality(B[i]) = Cardinality(B[j]) => i = j
         /\ \A p \in 1..Cardinality(P) : \E i \in P : Cardinality(B[i]) + 1 = p
<1>1. /\ \A i \in P : i \notin B[i]
      /\ \A i, j \in P : i # j => i \in B[j] \/ j \in B[i]
  <2> USE DEF StablyOrdered
  <2>1. ASSUME NEW i \in P PROVE i \notin B[i]
    <3>1. i \in Nat
      OBVIOUS
    <3>2. <<i, i>> \notin L /\ ~(i < i)
      BY <3>1
    <3> QED
      BY <3>2
  <2>2. ASSUME NEW i \in P, NEW j \in P, i # j PROVE i \in B[j] \/ j \in B[i]
    <3>1. i \in Nat /\ j \in Nat
      OBVIOUS
    <3>2. i < j \/ j < i
      BY <2>2, <3>1
    <3> QED
      BY <3>2
  <2> QED
    BY <2>1, <2>2
<1>2. ASSUME NEW i \in P, NEW j \in P, NEW k \in P, i \in B[j], j \in B[k]
      PROVE  i \in B[k]
  <2> USE DEF StablyOrdered
  <2>1. <<i, j>> \in L \/ (<<j, i>> \notin L /\ i < j)
    BY <1>2
  <2>2. <<j, k>> \in L \/ (<<k, j>> \notin L /\ j < k)
    BY <1>2
  <2>3. <<i, k>> \in L \/ (<<k, i>> \notin L /\ i < k)
    BY <2>1, <2>2
  <2> QED
    BY <2>3
<1>8. \A i, j, k \in P : i \in B[j] /\ j \in B[k] => i \in B[k]
  BY <1>2
<1>9. B \in [P -> SUBSET P] /\ IsFiniteSet(P)
  BY DEF StablyOrdered
<1> QED
  BY <1>1, <1>8, <1>9, Ranks

\* What StablePlaces returns: each place once, and none before that of a smaller
\* element.
LEMMA SortedPlaces ==
  ASSUME NEW P, NEW L, NEW B, StablyOrdered(P, L, B),
         NEW at,
         \A p \in 1..Cardinality(P) :
           (\E i \in P : Cardinality(B[i]) + 1 = p) => at[p] \in P /\ Cardinality(B[at[p]]) + 1 = p
  PROVE  /\ Cardinality(P) \in Nat
         /\ \A p \in 1..Cardinality(P) : at[p] \in P /\ p = Cardinality(B[at[p]]) + 1
         /\ \A i \in P : \E p \in 1..Cardinality(P) : at[p] = i
         /\ \A p, q \in 1..Cardinality(P) : at[p] = at[q] => p = q
         /\ \A p, q \in 1..Cardinality(P) : p < q => <<at[q], at[p]>> \notin L
<1>2. /\ Cardinality(P) \in Nat
      /\ \A i \in P : Cardinality(B[i]) \in Nat /\ Cardinality(B[i]) < Cardinality(P)
      /\ \A i, j \in P : i \in B[j] => Cardinality(B[i]) < Cardinality(B[j])
      /\ \A i, j \in P : Cardinality(B[i]) = Cardinality(B[j]) => i = j
      /\ \A p \in 1..Cardinality(P) : \E i \in P : Cardinality(B[i]) + 1 = p
  BY PlacesInOrder
<1> DEFINE n == Cardinality(P)
<1>3. /\ n \in Nat
      /\ \A i \in P : Cardinality(B[i]) \in Nat /\ Cardinality(B[i]) < n
      /\ \A i, j \in P : i \in B[j] => Cardinality(B[i]) < Cardinality(B[j])
      /\ \A i, j \in P : Cardinality(B[i]) = Cardinality(B[j]) => i = j
      /\ \A p \in 1..n : \E i \in P : Cardinality(B[i]) + 1 = p
  BY <1>2, Zenon
<1> HIDE DEF n
<1>4. ASSUME NEW p \in 1..n
      PROVE  at[p] \in P /\ p = Cardinality(B[at[p]]) + 1
  <2>1. \E i \in P : Cardinality(B[i]) + 1 = p
    BY <1>3
  <2> QED
    BY <2>1 DEF n
<1>5. ASSUME NEW i \in P
      PROVE  \E p \in 1..n : at[p] = i
  <2>1. Cardinality(B[i]) + 1 \in 1..n
    BY <1>3
  <2>2. PICK p \in 1..n : p = Cardinality(B[i]) + 1
    BY <2>1
  <2>3. at[p] \in P /\ p = Cardinality(B[at[p]]) + 1 /\ Cardinality(B[at[p]]) \in Nat
    BY <1>3, <1>4
  <2>5. Cardinality(B[i]) \in Nat
    BY <1>3
  <2>4. Cardinality(B[at[p]]) = Cardinality(B[i])
    BY <2>2, <2>3, <2>5
  <2> QED
    BY <1>3, <2>3, <2>4
<1>6. ASSUME NEW p \in 1..n, NEW q \in 1..n, p < q
      PROVE  <<at[q], at[p]>> \notin L
  <2>1. /\ at[p] \in P /\ p = Cardinality(B[at[p]]) + 1
        /\ at[q] \in P /\ q = Cardinality(B[at[q]]) + 1
    BY <1>4
  <2> SUFFICES ASSUME <<at[q], at[p]>> \in L PROVE FALSE
    OBVIOUS
  <2>2. at[q] \in B[at[p]]
    BY <2>1 DEF StablyOrdered
  <2>3. /\ Cardinality(B[at[q]]) < Cardinality(B[at[p]])
        /\ Cardinality(B[at[q]]) \in Nat /\ Cardinality(B[at[p]]) \in Nat
    BY <1>3, <2>1, <2>2
  <2> QED
    BY <1>6, <2>1, <2>3
<1>7. \A p, q \in 1..n : at[p] = at[q] => p = q
  BY <1>4
<1> QED
  BY <1>3, <1>4, <1>5, <1>6, <1>7 DEF n

\* The largest of finitely many numbers.
LEMMA Largest ==
  ASSUME NEW S \in SUBSET Int, IsFiniteSet(S), S # {}
  PROVE  Max(S) \in S /\ \A x \in S : x <= Max(S)
<1> DEFINE B == [i \in S |-> {j \in S : j < i}]
           n == Cardinality(S)
<1>1. B \in [S -> SUBSET S] /\ \A i, j \in S : j \in B[i] <=> j < i
  OBVIOUS
<1>2. n \in Nat /\ n # 0
  BY FS_CardinalityType, FS_EmptySet
<1> HIDE DEF B
<1>3. /\ \A i \in S : i \notin B[i]
      /\ \A i, j, k \in S : i \in B[j] /\ j \in B[k] => i \in B[k]
      /\ \A i, j \in S : i # j => i \in B[j] \/ j \in B[i]
  BY <1>1
<1>4. /\ \A i \in S : Cardinality(B[i]) \in Nat /\ Cardinality(B[i]) < n
      /\ \A i, j \in S : i \in B[j] => Cardinality(B[i]) < Cardinality(B[j])
      /\ \A p \in 1..n : \E i \in S : Cardinality(B[i]) + 1 = p
  BY <1>1, <1>3, Ranks, ZenonT(30)
<1> HIDE DEF n
<1>5. PICK m \in S : Cardinality(B[m]) + 1 = n
  BY <1>2, <1>4
<1>6. ASSUME NEW x \in S, ~(x <= m) PROVE FALSE
  <2>1. m \in B[x]
    BY <1>1, <1>6
  <2>2. /\ Cardinality(B[m]) < Cardinality(B[x]) /\ Cardinality(B[x]) < n
        /\ Cardinality(B[m]) \in Nat /\ Cardinality(B[x]) \in Nat
    BY <1>4, <1>6, <2>1
  <2> QED
    BY <1>2, <1>5, <2>2
<1>7. \A x \in S : x <= m
  BY <1>6
<1> QED
  BY <1>7 DEF Max

\* Places ordered by a key of two numbers, as Python orders tuples.
LEMMA TupleOrder ==
  ASSUME NEW a \in Int, NEW b \in Int, NEW c \in Int, NEW d \in Int
  PROVE  TupleLess(<<a, b>>, <<c, d>>) <=> a < c \/ (a = c /\ b < d)
<1>1. DOMAIN <<a, b>> = {1, 2}
  OBVIOUS
<1>2. 1 .. 1 - 1 = {} /\ 1 .. 2 - 1 = {1}
  OBVIOUS
<1> QED
  BY <1>1, <1>2 DEF TupleLess

LEMMA KeyOrder ==
  ASSUME NEW P \in SUBSET Nat, IsFiniteSet(P), NEW k \in [P -> Int \X Int], NEW L,
         \A i, j \in P : <<i, j>> \in L <=> TupleLess(k[i], k[j]),
         NEW B \in [P -> SUBSET P],
         \A i, j \in P : j \in B[i] <=> <<j, i>> \in L \/ (<<i, j>> \notin L /\ j < i)
  PROVE  StablyOrdered(P, L, B)
<1>1. ASSUME NEW i \in P, NEW j \in P
      PROVE  <<i, j>> \in L <=> k[i][1] < k[j][1] \/ (k[i][1] = k[j][1] /\ k[i][2] < k[j][2])
  <2>1. /\ k[i][1] \in Int /\ k[i][2] \in Int /\ k[j][1] \in Int /\ k[j][2] \in Int
        /\ k[i] = <<k[i][1], k[i][2]>> /\ k[j] = <<k[j][1], k[j][2]>>
    OBVIOUS
  <2>2. TupleLess(k[i], k[j]) <=> k[i][1] < k[j][1] \/ (k[i][1] = k[j][1] /\ k[i][2] < k[j][2])
    BY <2>1, TupleOrder
  <2> QED
    BY <2>2
<1>2. \A i \in P : k[i][1] \in Int /\ k[i][2] \in Int
  OBVIOUS
<1>3. ASSUME NEW i \in P, NEW j \in P, <<i, j>> \in L PROVE <<j, i>> \notin L
  BY <1>1, <1>2, <1>3
<1>4. ASSUME NEW i \in P, NEW j \in P, NEW m \in P, <<i, m>> \in L
      PROVE  <<i, j>> \in L \/ <<j, m>> \in L
  BY <1>1, <1>2, <1>4, SMTT(30)
<1> QED
  BY <1>3, <1>4 DEF StablyOrdered

\* A sequence that grows by one element.
LEMMA Grown ==
  ASSUME NEW q, q \in Seq(Range(q)), NEW x
  PROVE  /\ Append(q, x) \in Seq(Range(Append(q, x)))
         /\ Len(Append(q, x)) = Len(q) + 1
         /\ Range(Append(q, x)) = Range(q) \cup {x}
<1> DEFINE r == Append(q, x)
<1>1. q \in Seq(Range(q) \cup {x})
  BY ElementOfSeq, LenProperties DEF Range
<1>2. /\ Len(r) = Len(q) + 1 /\ DOMAIN r = 1 .. Len(q) + 1 /\ Len(q) \in Nat
      /\ \A i \in 1 .. Len(q) : r[i] = q[i]
      /\ r[Len(q) + 1] = x /\ DOMAIN q = 1 .. Len(q)
  BY <1>1, AppendProperties, LenProperties
<1>3. r \in Seq(Range(q) \cup {x})
  BY <1>1, AppendProperties
<1> HIDE DEF r
<1>4. Range(r) = Range(q) \cup {x}
  <2>1. \A i \in 1 .. Len(q) + 1 : r[i] \in Range(q) \cup {x}
    BY <1>2 DEF Range
  <2>2. \A i \in 1 .. Len(q) : q[i] \in Range(r)
    BY <1>2 DEF Range
  <2>3. x \in Range(r)
    BY <1>2 DEF Range
  <2> QED
    BY <1>2, <2>1, <2>2, <2>3 DEF Range
<1> QED
  BY <1>2, <1>3, <1>4 DEF r

-----------------------------------------------------------------------------
(* Numbers: segments, extremes, and the sums that the folds compute.       *)

\* The numbers from one to n.
LEMMA Segment ==
  ASSUME NEW n \in Nat
  PROVE  IsFiniteSet(1 .. n) /\ Cardinality(1 .. n) = n
<1>1. IsFiniteSet(1 .. n) /\ Cardinality(1 .. n) = IF 1 > n THEN 0 ELSE n - 1 + 1
  BY FS_Interval
<1> QED
  BY <1>1

\* The largest and the smallest of finitely many numbers.
LEMMA Extremes ==
  ASSUME NEW D, IsFiniteSet(D), D # {}, NEW v \in [D -> Nat]
  PROVE  LET S == {v[x] : x \in D}
         IN  /\ Max(S) \in S /\ \A x \in D : v[x] <= Max(S)
             /\ Min(S) \in S /\ \A x \in D : Min(S) <= v[x]
<1> DEFINE S == {v[x] : x \in D}
<1>1. S \subseteq Nat /\ S # {} /\ \A x \in D : v[x] \in S
  OBVIOUS
<1>2. IsFiniteSet(S)
  <2>1. v \in Surjection(D, S)
    BY DEF Surjection
  <2> HIDE DEF S
  <2> QED
    BY <2>1, FS_Surjection
<1> HIDE DEF S
<1>3. Max(S) \in S /\ \A x \in S : x <= Max(S)
  BY <1>1, <1>2, Largest
<1>4. Min(S) \in S /\ \A x \in S : Min(S) <= x
  <2>1. PICK m \in S : \A k \in S : m <= k
    BY <1>1, LeastNumber
  <2> QED
    BY <1>1, <2>1 DEF Min
<1> QED
  BY <1>1, <1>3, <1>4 DEF S

\* A sum of equal numbers, as MapThenSumSet recurses over the subsets of S.
LEMMA EqualSum ==
  ASSUME NEW S, IsFiniteSet(S), NEW v \in Nat, NEW sum,
         sum = [s \in SUBSET S |-> IF s = {} THEN 0 ELSE v + sum[s \ {CHOOSE x \in s : TRUE}]]
  PROVE  sum[S] = v * Cardinality(S)
<1> DEFINE wrong == {n \in Nat : \E s \in SUBSET S : Cardinality(s) = n /\ sum[s] # v * n}
<1>1. \A s \in SUBSET S : IsFiniteSet(s) /\ Cardinality(s) \in Nat
  BY FS_Subset, FS_CardinalityType
<1>2. SUFFICES ASSUME wrong # {} PROVE FALSE
  BY <1>1
<1>3. PICK n \in wrong : \A k \in wrong : n <= k
  <2> HIDE DEF wrong
  <2>1. wrong \subseteq Nat
    BY DEF wrong
  <2> QED
    BY <1>2, <2>1, LeastNumber
<1>4. PICK s \in SUBSET S : Cardinality(s) = n /\ sum[s] # v * n
  BY <1>3
<1>5. CASE s = {}
  BY <1>4, <1>5, FS_EmptySet
<1>6. CASE s # {}
  <2> DEFINE x == CHOOSE y \in s : TRUE
             r == s \ {x}
  <2>1. x \in s
    BY <1>6
  <2> HIDE DEF x
  <2>2. r \in SUBSET S /\ Cardinality(r) = n - 1 /\ n - 1 \in Nat
    <3>1. r \in SUBSET S
      BY <1>4
    <3> HIDE DEF r
    <3>2. IsFiniteSet(s)
      BY <1>1
    <3>3. Cardinality(r) = Cardinality(s) - 1
      BY <3>2, <2>1, FS_RemoveElement DEF r
    <3>4. Cardinality(r) \in Nat /\ Cardinality(s) \in Nat
      BY <1>1, <3>1
    <3> QED
      BY <1>4, <3>1, <3>3, <3>4
  <2>3. sum[r] = v * (n - 1)
    <3> HIDE DEF r
    <3>1. SUFFICES ASSUME sum[r] # v * (n - 1) PROVE FALSE
      OBVIOUS
    <3>2. n - 1 \in wrong
      BY <2>2, <3>1
    <3>3. n \in Nat
      BY <1>3
    <3> HIDE DEF wrong
    <3>4. n <= n - 1
      BY <1>3, <3>2
    <3> QED
      BY <3>3, <3>4
  <2>4. sum[s] = v + sum[r]
    BY <1>6 DEF x
  <2>5. v + v * (n - 1) = v * n
    BY <2>2
  <2> QED
    BY <1>4, <2>3, <2>4, <2>5
<1> QED
  BY <1>5, <1>6

-----------------------------------------------------------------------------
(* Sums over a finite set.                                                 *)

\* g[s] adds w[x] for the x that c picks from s to the sum over the rest.
TakesFirst(g, w, c, S) ==
  g = [s \in SUBSET S |-> IF s = {} THEN 0 ELSE w[c[s]] + g[s \ {c[s]}]]

\* A sum over a finite set that takes some element first, and so on: there is one.
LEMMA FoldDefined ==
  ASSUME NEW S, IsFiniteSet(S), NEW w, NEW c,
         \A s \in SUBSET S : s # {} => c[s] \in s
  PROVE  \E g : TakesFirst(g, w, c, S)
<1> DEFINE Upto(g, n) == \A s \in SUBSET S : Cardinality(s) <= n =>
                           g[s] = IF s = {} THEN 0 ELSE w[c[s]] + g[s \ {c[s]}]
           wrong == {n \in Nat : ~\E g : Upto(g, n)}
<1>1. \A s \in SUBSET S : IsFiniteSet(s) /\ Cardinality(s) \in Nat
                          /\ (Cardinality(s) = 0 <=> s = {})
  BY FS_Subset, FS_CardinalityType, FS_EmptySet
<1>2. wrong = {}
  <2>1. SUFFICES ASSUME wrong # {} PROVE FALSE
    OBVIOUS
  <2>2. PICK n \in wrong : \A k \in wrong : n <= k
    <3> HIDE DEF wrong
    <3>1. wrong \subseteq Nat
      BY DEF wrong
    <3> QED
      BY <2>1, <3>1, LeastNumber
  <2>m. n \in Nat /\ \A k \in Nat : k < n => k \notin wrong
    <3>1. n \in Nat /\ wrong \subseteq Nat
      OBVIOUS
    <3> HIDE DEF wrong
    <3> QED
      BY <2>2, <3>1
  <2>3. n # 0
    <3> DEFINE zero == [s \in SUBSET S |-> 0]
    <3>1. \A s \in SUBSET S : Cardinality(s) <= 0 => s = {}
      BY <1>1
    <3>2. Upto(zero, 0)
      BY <3>1
    <3>3. 0 \in wrong => ~\E g : Upto(g, 0)
      BY Zenon
    <3> HIDE DEF Upto, zero
    <3>4. \E g : Upto(g, 0)
      BY <3>2, Zenon
    <3> QED
      BY <3>3, <3>4
  <2>4. PICK g : Upto(g, n - 1)
    <3>1. n - 1 \in Nat /\ n - 1 < n
      BY <2>3, <2>m
    <3>2. n - 1 \notin wrong
      <4> HIDE DEF wrong
      <4> QED
        BY <2>m, <3>1
    <3> QED
      BY <3>1, <3>2
  <2> DEFINE h == [s \in SUBSET S |-> IF Cardinality(s) = n THEN w[c[s]] + g[s \ {c[s]}] ELSE g[s]]
  <2>5. ASSUME NEW s \in SUBSET S, Cardinality(s) <= n
        PROVE  h[s] = IF s = {} THEN 0 ELSE w[c[s]] + h[s \ {c[s]}]
    <3>1. CASE s = {}
      <4>1. Cardinality(s) = 0 /\ Cardinality(s) <= n - 1 /\ n \in Nat
        BY <1>1, <2>3, <3>1
      <4>2. h[s] = g[s]
        BY <2>3, <4>1
      <4> QED
        BY <2>4, <3>1, <4>1, <4>2
    <3>2. CASE s # {}
      <4>1. c[s] \in s /\ s \ {c[s]} \in SUBSET S
        BY <3>2
      <4>2. Cardinality(s \ {c[s]}) = Cardinality(s) - 1
        BY <1>1, <4>1, FS_RemoveElement
      <4>3. h[s \ {c[s]}] = g[s \ {c[s]}]
        BY <1>1, <2>5, <4>1, <4>2
      <4>4. CASE Cardinality(s) = n
        BY <3>2, <4>3, <4>4
      <4>5. CASE Cardinality(s) # n
        <5>1. Cardinality(s) <= n - 1
          BY <1>1, <2>5, <4>5
        <5>2. h[s] = g[s]
          BY <4>5
        <5>3. g[s] = w[c[s]] + g[s \ {c[s]}]
          BY <2>4, <3>2, <5>1
        <5> QED
          BY <3>2, <4>3, <5>2, <5>3
      <4> QED
        BY <4>4, <4>5
    <3> QED
      BY <3>1, <3>2
  <2> HIDE DEF h
  <2>6. Upto(h, n)
    BY <2>5
  <2> QED
    BY <2>6
<1> DEFINE n == Cardinality(S)
<1>3. n \in Nat /\ \A s \in SUBSET S : Cardinality(s) <= n
  BY FS_Subset, FS_CardinalityType
<1> HIDE DEF n
<1>4. PICK g : Upto(g, n)
  BY <1>2, <1>3
<1> DEFINE h == [s \in SUBSET S |-> g[s]]
<1>5. ASSUME NEW s \in SUBSET S
      PROVE  h[s] = IF s = {} THEN 0 ELSE w[c[s]] + h[s \ {c[s]}]
  <2>1. g[s] = IF s = {} THEN 0 ELSE w[c[s]] + g[s \ {c[s]}]
    BY <1>3, <1>4
  <2>2. s \ {c[s]} \in SUBSET S
    OBVIOUS
  <2> QED
    BY <2>1, <2>2
<1>6. h = [s \in SUBSET S |-> h[s]]
  OBVIOUS
<1> HIDE DEF h
<1>7. h = [s \in SUBSET S |-> IF s = {} THEN 0 ELSE w[c[s]] + h[s \ {c[s]}]]
  BY <1>5, <1>6
<1> QED
  BY <1>7 DEF TakesFirst

\* g[s] is the sum of the numbers w[x] over s, whichever x is taken out.
Adds(g, w, S) ==
  /\ g[{}] = 0
  /\ \A s \in SUBSET S : g[s] \in Nat
  /\ \A s \in SUBSET S : \A x \in s : g[s] = w[x] + g[s \ {x}]

\* The order in which the elements are taken does not matter.
LEMMA AnyOrder ==
  ASSUME NEW S, IsFiniteSet(S), NEW w, \A x \in S : w[x] \in Nat, NEW c,
         \A s \in SUBSET S : s # {} => c[s] \in s,
         NEW g, TakesFirst(g, w, c, S)
  PROVE  Adds(g, w, S)
<1> DEFINE Good(s) == g[s] \in Nat /\ \A x \in s : g[s] = w[x] + g[s \ {x}]
           wrong == {n \in Nat : \E s \in SUBSET S : Cardinality(s) = n /\ ~Good(s)}
<1>1. \A s \in SUBSET S : IsFiniteSet(s) /\ Cardinality(s) \in Nat
  BY FS_Subset, FS_CardinalityType
<1>2. \A s \in SUBSET S : \A x \in s : Cardinality(s \ {x}) = Cardinality(s) - 1
  BY <1>1, FS_RemoveElement, Zenon
<1>3. \A s \in SUBSET S : g[s] = IF s = {} THEN 0 ELSE w[c[s]] + g[s \ {c[s]}]
  BY DEF TakesFirst
<1>4. wrong = {}
  <2>1. SUFFICES ASSUME wrong # {} PROVE FALSE
    OBVIOUS
  <2>2. PICK n \in wrong : \A k \in wrong : n <= k
    <3> HIDE DEF wrong
    <3>1. wrong \subseteq Nat
      BY DEF wrong
    <3> QED
      BY <2>1, <3>1, LeastNumber
  <2>m. n \in Nat /\ \A k \in Nat : k < n => k \notin wrong
    <3>1. n \in Nat /\ wrong \subseteq Nat
      OBVIOUS
    <3> HIDE DEF wrong
    <3> QED
      BY <2>2, <3>1
  <2>3. PICK s \in SUBSET S : Cardinality(s) = n /\ ~Good(s)
    BY <2>2
  <2>4. ASSUME NEW x \in s
        PROVE  Good(s \ {x})
    <3>1. s \ {x} \in SUBSET S /\ Cardinality(s \ {x}) \in Nat /\ Cardinality(s \ {x}) = n - 1
      BY <1>1, <1>2, <2>3
    <3>2. Cardinality(s \ {x}) \notin wrong
      <4> HIDE DEF wrong
      <4> QED
        BY <2>m, <3>1
    <3> QED
      BY <3>1, <3>2
  <2>5. s # {}
    <3>1. s = {} => g[s] = 0
      BY <1>3
    <3>2. s = {} => Good(s)
      BY <3>1
    <3> QED
      BY <2>3, <3>2
  <2> DEFINE y == c[s]
  <2>6. y \in s /\ y \in S /\ g[s] = w[y] + g[s \ {y}]
    BY <1>3, <2>5
  <2> HIDE DEF y
  <2>7. g[s] \in Nat
    <3>1. w[y] \in Nat /\ g[s \ {y}] \in Nat
      BY <2>4, <2>6
    <3> HIDE DEF wrong, Good
    <3> QED
      BY <2>6, <3>1
  <2>8. ASSUME NEW x \in s
        PROVE  g[s] = w[x] + g[s \ {x}]
    <3>1. CASE x = y
      BY <2>6, <3>1
    <3>2. CASE x # y
      <4>1. x \in s \ {y} /\ y \in s \ {x}
        BY <2>6, <3>2
      <4>2. Good(s \ {y}) /\ Good(s \ {x})
        BY <2>4, <2>6
      <4>3. g[s \ {y}] = w[x] + g[(s \ {y}) \ {x}] /\ g[s \ {x}] = w[y] + g[(s \ {x}) \ {y}]
        BY <4>1, <4>2
      <4>4. (s \ {y}) \ {x} = (s \ {x}) \ {y}
        OBVIOUS
      <4> DEFINE rest == g[(s \ {x}) \ {y}]
      <4>5. rest \in Nat
        <5>1. s \ {x} \in SUBSET S /\ Cardinality(s \ {x}) = n - 1 /\ Cardinality(s \ {x}) \in Nat
          BY <1>1, <1>2, <2>3
        <5>2. /\ (s \ {x}) \ {y} \in SUBSET S
              /\ Cardinality((s \ {x}) \ {y}) = n - 2 /\ Cardinality((s \ {x}) \ {y}) \in Nat
          BY <1>1, <1>2, <4>1, <5>1
        <5>3. Cardinality((s \ {x}) \ {y}) \notin wrong
          <6> HIDE DEF wrong
          <6> QED
            BY <2>m, <5>2
        <5> QED
          BY <5>2, <5>3
      <4> HIDE DEF rest
      <4>6. g[s \ {y}] = w[x] + rest /\ g[s \ {x}] = w[y] + rest
        BY <4>3, <4>4 DEF rest
      <4>7. w[x] \in Nat /\ w[y] \in Nat
        BY <2>6
      <4>8. g[s] = w[y] + (w[x] + rest) /\ g[s \ {x}] = w[y] + rest
        BY <2>6, <4>6
      <4>9. \A a, b, q \in Nat : b + (a + q) = a + (b + q)
        OBVIOUS
      <4>10. w[y] + (w[x] + rest) = w[x] + (w[y] + rest)
        BY <4>5, <4>7, <4>9
      <4> QED
        BY <4>8, <4>10, Zenon
    <3> QED
      BY <3>1, <3>2
  <2> QED
    BY <2>3, <2>7, <2>8
<1>5. ASSUME NEW s \in SUBSET S
      PROVE  Good(s)
  <2>1. Cardinality(s) \in Nat /\ Cardinality(s) \notin wrong
    BY <1>1, <1>4
  <2> QED
    BY <2>1
<1>6. g[{}] = 0
  BY <1>3
<1> HIDE DEF wrong
<1> QED
  BY <1>5, <1>6 DEF Adds

\* Equal terms have equal sums.
LEMMA SumsAgree ==
  ASSUME NEW S, IsFiniteSet(S), NEW w, NEW v, \A x \in S : w[x] = v[x],
         NEW T, S \subseteq T, NEW g, Adds(g, w, S), NEW h, Adds(h, v, T)
  PROVE  g[S] = h[S]
<1> DEFINE wrong == {n \in Nat : \E s \in SUBSET S : Cardinality(s) = n /\ g[s] # h[s]}
<1>1. \A s \in SUBSET S : IsFiniteSet(s) /\ Cardinality(s) \in Nat
  BY FS_Subset, FS_CardinalityType
<1>2. wrong = {}
  <2>1. SUFFICES ASSUME wrong # {} PROVE FALSE
    OBVIOUS
  <2>2. PICK n \in wrong : \A k \in wrong : n <= k
    <3> HIDE DEF wrong
    <3>1. wrong \subseteq Nat
      BY DEF wrong
    <3> QED
      BY <2>1, <3>1, LeastNumber
  <2>m. n \in Nat /\ \A k \in Nat : k < n => k \notin wrong
    <3>1. n \in Nat /\ wrong \subseteq Nat
      OBVIOUS
    <3> HIDE DEF wrong
    <3> QED
      BY <2>2, <3>1
  <2>3. PICK s \in SUBSET S : Cardinality(s) = n /\ g[s] # h[s]
    BY <2>2
  <2>4. s # {}
    BY <2>3 DEF Adds
  <2>5. PICK x : x \in s
    BY <2>4
  <2>6. /\ s \ {x} \in SUBSET S /\ Cardinality(s \ {x}) \in Nat
        /\ Cardinality(s \ {x}) = n - 1
    BY <1>1, <2>3, <2>5, FS_RemoveElement
  <2>7. Cardinality(s \ {x}) \notin wrong
    <3> HIDE DEF wrong
    <3> QED
      BY <2>m, <2>6
  <2>8. g[s \ {x}] = h[s \ {x}]
    BY <2>6, <2>7
  <2>9. g[s] = w[x] + g[s \ {x}] /\ h[s] = v[x] + h[s \ {x}] /\ w[x] = v[x]
    BY <2>5 DEF Adds
  <2> QED
    BY <2>3, <2>8, <2>9
<1>3. Cardinality(S) \in Nat /\ Cardinality(S) \notin wrong
  BY <1>1, <1>2
<1> QED
  BY <1>3
=============================================================================
