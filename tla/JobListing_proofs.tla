-------------------------- MODULE JobListing_proofs -------------------------
(***************************************************************************)
(* Proofs about the listing of jobs, for any number of jobs, any page size *)
(* and filters, and any writes, lost pages and walks: what the pages of a  *)
(* walk show, and when they show all jobs, or none of them twice.          *)
(***************************************************************************)
EXTENDS JobListing, FiniteSetTheorems, FunctionTheorems, SequenceTheorems, TLAPS

(***************************************************************************)
(* The order of a listing, and the rank of a job in a set of jobs.         *)
(***************************************************************************)
Ahead(T, j) == {k \in T : Before(walk.sort, k, j)}

Rank(T, j) == Cardinality(Ahead(T, j))

Dated == created \in [JobIds -> 0 .. MaxTime] /\ walk.sort \in Sorts

LEMMA BeforeIsAnOrder ==
  ASSUME Dated
  PROVE  /\ \A i \in JobIds : ~ Before(walk.sort, i, i)
         /\ \A i, j \in JobIds : i # j => Before(walk.sort, i, j) \/ Before(walk.sort, j, i)
         /\ \A i, j, k \in JobIds :
              Before(walk.sort, i, j) /\ Before(walk.sort, j, k) => Before(walk.sort, i, k)
<1>1. \A i \in JobIds : i \in Nat /\ created[i] \in Nat
  BY JobIdsAreOrdered, BoundsAssumption DEF Dated
<1>2. CASE walk.sort = "CREATED_AT_ASC"
  BY <1>1, <1>2 DEF Before
<1>3. CASE walk.sort # "CREATED_AT_ASC"
  BY <1>1, <1>3 DEF Before
<1> QED BY <1>2, <1>3

LEMMA RankGrows ==
  ASSUME Dated, NEW T \in SUBSET JobIds, IsFiniteSet(T)
  PROVE  /\ \A j \in JobIds : Rank(T, j) \in Nat
         /\ \A j \in T : Rank(T, j) < Cardinality(T)
         /\ \A i \in T, j \in JobIds : Before(walk.sort, i, j) => Rank(T, i) < Rank(T, j)
<1>1. \A j \in JobIds : Ahead(T, j) \in SUBSET T
  BY DEF Ahead
<1>2. \A j \in JobIds : IsFiniteSet(Ahead(T, j)) /\ Rank(T, j) \in Nat
  BY <1>1, FS_Subset, FS_CardinalityType DEF Rank
<1>3. ASSUME NEW A, NEW B, IsFiniteSet(B), A \subseteq B, NEW x \in B, x \notin A
      PROVE  Cardinality(A) < Cardinality(B)
  <2>1. /\ IsFiniteSet(A) /\ Cardinality(A) <= Cardinality(B)
        /\ Cardinality(B) = Cardinality(A) => B = A
    BY <1>3, FS_Subset
  <2>2. Cardinality(A) \in Nat /\ Cardinality(B) \in Nat /\ B # A
    BY <1>3, <2>1, FS_CardinalityType
  <2> QED BY <2>1, <2>2
<1>4. ASSUME NEW j \in T
      PROVE  Rank(T, j) < Cardinality(T)
  <2>1. j \notin Ahead(T, j)
    BY BeforeIsAnOrder DEF Ahead
  <2> QED BY <1>1, <1>3, <2>1 DEF Rank
<1>5. ASSUME NEW i \in T, NEW j \in JobIds, Before(walk.sort, i, j)
      PROVE  Rank(T, i) < Rank(T, j)
  <2>1. Ahead(T, i) \subseteq Ahead(T, j) /\ i \in Ahead(T, j) /\ i \notin Ahead(T, i)
    BY <1>5, BeforeIsAnOrder DEF Ahead
  <2> QED BY <1>2, <1>3, <2>1 DEF Rank
<1> QED BY <1>2, <1>4, <1>5

\* A larger set does not lower a rank, as long as no member changes its place.
LEMMA RankOfLarger ==
  ASSUME NEW T, NEW U, IsFiniteSet(U), NEW j,
         \A k \in T : Before(walk.sort, k, j) => k \in U
  PROVE  Rank(T, j) <= Rank(U, j)
<1>1. Ahead(T, j) \in SUBSET Ahead(U, j) /\ Ahead(U, j) \in SUBSET U
  BY DEF Ahead
<1> QED BY <1>1, FS_Subset DEF Rank

\* In the sorted sequence of a set each member is where its rank says.
LEMMA SortedByRank ==
  ASSUME Dated, NEW T \in SUBSET JobIds, IsFiniteSet(T), NEW n, n = Cardinality(T)
  PROVE  /\ Sorted(T) \in [1 .. n -> T] /\ n \in Nat
         /\ \A i \in 1 .. n : Rank(T, Sorted(T)[i]) = i - 1
         /\ \A j \in T : Rank(T, j) + 1 \in 1 .. n /\ Sorted(T)[Rank(T, j) + 1] = j
<1> DEFINE place == [j \in T |-> Rank(T, j) + 1]
<1>1. n \in Nat /\ IsFiniteSet(1 .. n) /\ Cardinality(1 .. n) = n
  BY FS_CardinalityType, FS_Interval
<1>2. \A i, j \in T : Before(walk.sort, i, j) => Rank(T, i) < Rank(T, j)
  BY RankGrows
<1>3. \A j \in T : Rank(T, j) \in Nat /\ Rank(T, j) < n
  BY RankGrows
<1>4. \A i, j \in T : Rank(T, i) = Rank(T, j) => i = j
  BY <1>2, <1>3, BeforeIsAnOrder
<1>5. place \in [T -> 1 .. n]
  BY <1>1, <1>3
<1>6. place \in Injection(T, 1 .. n)
  <2>1. \A i, j \in T : place[i] = place[j] => i = j
    BY <1>3, <1>4
  <2> HIDE DEF place
  <2> QED BY <1>5, <2>1, Fun_IsInj
<1>7. \A i \in 1 .. n : \E j \in T : Rank(T, j) + 1 = i
  <2>1. place \in Surjection(T, 1 .. n)
    <3> HIDE DEF place
    <3> QED BY <1>1, <1>6, FS_Injection
  <2>2. \A i \in 1 .. n : \E j \in T : place[j] = i
    <3> HIDE DEF place
    <3> QED BY <2>1, Fun_SurjectionProperties
  <2> QED BY <2>2
<1> DEFINE InOrder(s) == \A i, j \in 1 .. n : i < j => Before(walk.sort, s[i], s[j])
<1>8. \E s \in [1 .. n -> T] : InOrder(s)
  <2> DEFINE s == [i \in 1 .. n |-> CHOOSE j \in T : Rank(T, j) + 1 = i]
  <2>1. \A i \in 1 .. n : s[i] \in T /\ Rank(T, s[i]) + 1 = i
    BY <1>7
  <2>2. s \in [1 .. n -> T]
    BY <2>1
  <2> HIDE DEF s
  <2>3. ASSUME NEW i \in 1 .. n, NEW j \in 1 .. n, i < j
        PROVE  Before(walk.sort, s[i], s[j])
    <3>1. Rank(T, s[i]) < Rank(T, s[j])
      BY <1>3, <2>1, <2>3
    <3> QED BY <1>2, <1>3, <2>1, <3>1, BeforeIsAnOrder
  <2> QED BY <2>2, <2>3
<1>9. Sorted(T) \in [1 .. n -> T] /\ InOrder(Sorted(T))
  BY <1>8 DEF Sorted
<1> DEFINE t == Sorted(T)
<1>10. t \in [1 .. n -> T] /\ \A i, j \in 1 .. n : i < j => Before(walk.sort, t[i], t[j])
  BY <1>9
<1> HIDE DEF t
<1>11. /\ \A i, j \in 1 .. n : t[i] = t[j] => i = j
       /\ \A j \in T : \E i \in 1 .. n : t[i] = j
  <2>1. \A i, j \in 1 .. n : t[i] = t[j] => i = j
    BY <1>1, <1>10, BeforeIsAnOrder
  <2>2. t \in Injection(1 .. n, T)
    BY <1>10, <2>1, Fun_IsInj
  <2>3. t \in Surjection(1 .. n, T)
    BY <1>1, <2>2, FS_Injection
  <2>4. \A j \in T : \E i \in 1 .. n : t[i] = j
    BY <2>3 DEF Surjection
  <2> QED BY <2>1, <2>4
<1>12. ASSUME NEW i \in 1 .. n
       PROVE  Rank(T, t[i]) = i - 1
  <2>1. \A k \in 1 .. n : Before(walk.sort, t[k], t[i]) <=> k < i
    BY <1>1, <1>10, BeforeIsAnOrder
  <2>2. i - 1 \in Nat /\ 1 .. (i - 1) \subseteq 1 .. n /\ \A k \in 1 .. n : k < i <=> k \in 1 .. (i - 1)
    BY <1>1
  <2> DEFINE u == [k \in 1 .. (i - 1) |-> t[k]]
  <2>3. u \in [1 .. (i - 1) -> Ahead(T, t[i])]
    BY <1>10, <2>1, <2>2 DEF Ahead
  <2>4. \A k \in Ahead(T, t[i]) : \E l \in 1 .. (i - 1) : u[l] = k
    BY <1>11, <2>1, <2>2 DEF Ahead
  <2>5. \A k, l \in 1 .. (i - 1) : u[k] = u[l] => k = l
    BY <1>11, <2>2
  <2> HIDE DEF u
  <2>6. ExistsBijection(1 .. (i - 1), Ahead(T, t[i]))
    BY <2>3, <2>4, <2>5, Fun_IsBij, Fun_ExistsBij
  <2> QED BY <2>2, <2>6, FS_CountingElements DEF Rank
<1>13. ASSUME NEW j \in T
       PROVE  Rank(T, j) + 1 \in 1 .. n /\ t[Rank(T, j) + 1] = j
  <2>1. PICK i \in 1 .. n : t[i] = j
    BY <1>11
  <2>2. Rank(T, j) = i - 1
    BY <1>12, <2>1
  <2> QED BY <1>1, <2>1, <2>2
<1> QED BY <1>1, <1>9, <1>12, <1>13 DEF t
-----------------------------------------------------------------------------
(***************************************************************************)
(* Sequences, and the sets of their elements.                              *)
(***************************************************************************)
LEMMA ElementsOfSeq ==
  ASSUME NEW S, NEW s \in Seq(S)
  PROVE  /\ ToSet(s) \subseteq S /\ IsFiniteSet(ToSet(s))
         /\ DOMAIN s = 1 .. Len(s) /\ Len(s) \in Nat
         /\ s = <<>> => ToSet(s) = {}
<1>1. Len(s) \in Nat /\ DOMAIN s = 1 .. Len(s) /\ s \in [1 .. Len(s) -> S]
  BY LenProperties
<1>2. IsFiniteSet(1 .. Len(s))
  BY <1>1, FS_Interval
<1>3. s \in [1 .. Len(s) -> ToSet(s)] /\ \A x \in ToSet(s) : \E i \in 1 .. Len(s) : s[i] = x
  BY <1>1 DEF ToSet
<1>4. s \in Surjection(1 .. Len(s), ToSet(s))
  BY <1>3 DEF Surjection
<1>5. IsFiniteSet(ToSet(s))
  BY <1>2, <1>4, FS_Surjection
<1>6. s = <<>> => ToSet(s) = {}
  BY EmptySeq, <1>1 DEF ToSet
<1> QED BY <1>1, <1>3, <1>5, <1>6 DEF ToSet

LEMMA NoElements == DOMAIN <<>> = {} /\ ToSet(<<>>) = {} /\ IsInjective(<<>>)
<1>1. <<>> \in Seq({}) /\ Len(<<>>) = 0
  BY EmptySeq
<1>2. DOMAIN <<>> = {}
  BY <1>1, LenProperties
<1> QED BY <1>2 DEF ToSet, IsInjective

LEMMA ElementsOfTail ==
  ASSUME NEW S, NEW s \in Seq(S), s # <<>>
  PROVE  /\ Head(s) \in S /\ Tail(s) \in Seq(S)
         /\ ToSet(s) = ToSet(Tail(s)) \cup {Head(s)}
         /\ IsInjective(s) => IsInjective(Tail(s)) /\ Head(s) \notin ToSet(Tail(s))
<1>1. PICK n \in Nat : n = Len(s)
  BY LenProperties
<1>2. PICK m \in Nat : m = Len(Tail(s))
  BY LenProperties, HeadTailProperties
<1>3. n = m + 1
  BY <1>1, <1>2, HeadTailProperties
<1>4. /\ Head(s) \in S /\ Tail(s) \in Seq(S) /\ Head(s) = s[1]
      /\ \A i \in 1 .. m : Tail(s)[i] = s[i + 1]
      /\ DOMAIN s = 1 .. n /\ DOMAIN Tail(s) = 1 .. m
  BY <1>1, <1>2, HeadTailProperties, LenProperties
<1> DEFINE t == Tail(s)
           h == Head(s)
<1>5. /\ h = s[1] /\ \A i \in 1 .. m : t[i] = s[i + 1]
      /\ DOMAIN s = 1 .. n /\ DOMAIN t = 1 .. m
  BY <1>4
<1> HIDE DEF t, h
<1>6. \A i \in 1 .. n : i = 1 \/ (i - 1 \in 1 .. m /\ t[i - 1] = s[i])
  BY <1>3, <1>5
<1>7. \A i \in 1 .. m : i + 1 \in 1 .. n /\ i + 1 # 1
  BY <1>3
<1>8. ToSet(s) = ToSet(t) \cup {h}
  <2>1. 1 \in 1 .. n
    BY <1>3
  <2>2. ASSUME NEW i \in 1 .. n PROVE s[i] \in ToSet(t) \cup {h}
    BY <1>5, <1>6 DEF ToSet
  <2>3. ASSUME NEW i \in 1 .. m PROVE t[i] \in ToSet(s)
    <3>1. t[i] = s[i + 1] /\ i + 1 \in 1 .. n
      BY <1>5, <1>7
    <3> QED BY <1>5, <3>1 DEF ToSet
  <2>4. h \in ToSet(s)
    BY <1>5, <2>1 DEF ToSet
  <2>5. ToSet(s) \subseteq ToSet(t) \cup {h}
    BY <1>5, <2>2 DEF ToSet
  <2>6. ToSet(t) \subseteq ToSet(s)
    BY <1>5, <2>3 DEF ToSet
  <2> QED BY <2>4, <2>5, <2>6
<1>9. ASSUME IsInjective(s)
      PROVE  IsInjective(t) /\ h \notin ToSet(t)
  <2>1. \A i, k \in 1 .. m : s[i + 1] = s[k + 1] => i + 1 = k + 1
    BY <1>5, <1>7, <1>9 DEF IsInjective
  <2>2. \A i \in 1 .. m : s[i + 1] # s[1]
    BY <1>3, <1>5, <1>7, <1>9 DEF IsInjective
  <2>3. ASSUME NEW i \in 1 .. m, NEW k \in 1 .. m, t[i] = t[k] PROVE i = k
    <3>1. t[i] = s[i + 1] /\ t[k] = s[k + 1]
      BY <1>5
    <3>2. i + 1 = k + 1
      BY <2>1, <2>3, <3>1
    <3> QED BY <3>2
  <2> QED BY <1>5, <2>2, <2>3 DEF IsInjective, ToSet
<1> QED BY <1>4, <1>8, <1>9 DEF t, h

LEMMA ElementsOfAppend ==
  ASSUME NEW S, NEW s \in Seq(S), NEW x \in S
  PROVE  /\ Append(s, x) \in Seq(S)
         /\ ToSet(Append(s, x)) = ToSet(s) \cup {x}
         /\ IsInjective(s) /\ x \notin ToSet(s) => IsInjective(Append(s, x))
<1> DEFINE t == Append(s, x)
<1>1. PICK n \in Nat : n = Len(s)
  BY LenProperties
<1>2. /\ t \in Seq(S) /\ DOMAIN s = 1 .. n /\ DOMAIN t = 1 .. (n + 1)
      /\ \A i \in 1 .. n : t[i] = s[i]
      /\ t[n + 1] = x
  BY <1>1, AppendProperties, LenProperties
<1> HIDE DEF t
<1>3. \A i \in 1 .. (n + 1) : i = n + 1 \/ i \in 1 .. n
  OBVIOUS
<1>4. \A i \in 1 .. n : i \in 1 .. (n + 1)
  OBVIOUS
<1>5. ToSet(t) = ToSet(s) \cup {x}
  <2>1. n + 1 \in 1 .. (n + 1)
    OBVIOUS
  <2> QED BY <1>2, <1>3, <1>4, <2>1 DEF ToSet
<1>6. IsInjective(s) /\ x \notin ToSet(s) => IsInjective(t)
  BY <1>2, <1>3, <1>4 DEF ToSet, IsInjective
<1> QED BY <1>2, <1>5, <1>6 DEF t

LEMMA ElementsOfConcat ==
  ASSUME NEW S, NEW s \in Seq(S), NEW t \in Seq(S)
  PROVE  /\ s \o t \in Seq(S)
         /\ ToSet(s \o t) = ToSet(s) \cup ToSet(t)
         /\ IsInjective(s) /\ IsInjective(t) /\ ToSet(s) \cap ToSet(t) = {} => IsInjective(s \o t)
<1> DEFINE u == s \o t
<1>1. PICK m \in Nat, n \in Nat : m = Len(s) /\ n = Len(t)
  BY LenProperties
<1>2. /\ u \in Seq(S) /\ DOMAIN s = 1 .. m /\ DOMAIN t = 1 .. n /\ DOMAIN u = 1 .. (m + n)
      /\ \A i \in 1 .. (m + n) : u[i] = IF i <= m THEN s[i] ELSE t[i - m]
  BY <1>1, ConcatProperties, LenProperties
<1> HIDE DEF u
<1>3. \A i \in 1 .. m : i \in 1 .. (m + n) /\ u[i] = s[i]
  BY <1>2
<1>4. \A i \in 1 .. n : i + m \in 1 .. (m + n) /\ u[i + m] = t[i]
  BY <1>2
<1>5. \A i \in 1 .. (m + n) : i \in 1 .. m \/ (i - m \in 1 .. n /\ u[i] = t[i - m])
  BY <1>2
<1>6. ToSet(u) = ToSet(s) \cup ToSet(t)
  <2>1. ToSet(s) \subseteq ToSet(u)
    BY <1>2, <1>3 DEF ToSet
  <2>2. ASSUME NEW i \in 1 .. n PROVE t[i] \in ToSet(u)
    BY <1>2, <1>4 DEF ToSet
  <2>3. ASSUME NEW i \in 1 .. (m + n) PROVE u[i] \in ToSet(s) \cup ToSet(t)
    BY <1>2, <1>3, <1>5 DEF ToSet
  <2>4. ToSet(t) \subseteq ToSet(u)
    BY <1>2, <2>2 DEF ToSet
  <2>5. ToSet(u) \subseteq ToSet(s) \cup ToSet(t)
    BY <1>2, <2>3 DEF ToSet
  <2> QED BY <2>1, <2>4, <2>5
<1>7. ASSUME IsInjective(s), IsInjective(t), ToSet(s) \cap ToSet(t) = {}
      PROVE  IsInjective(u)
  <2>1. \A i \in 1 .. m, k \in 1 .. n : s[i] # t[k]
    BY <1>2, <1>7 DEF ToSet
  <2>2. \A i, k \in 1 .. (m + n) : i - m = k - m => i = k
    BY <1>1
  <2> SUFFICES ASSUME NEW i \in 1 .. (m + n), NEW k \in 1 .. (m + n), u[i] = u[k] PROVE i = k
    BY <1>2 DEF IsInjective
  <2>3. CASE i \in 1 .. m /\ k \in 1 .. m
    BY <1>2, <1>3, <1>7, <2>3 DEF IsInjective
  <2>4. CASE i \notin 1 .. m /\ k \notin 1 .. m
    BY <1>2, <1>5, <1>7, <2>2, <2>4 DEF IsInjective
  <2>5. CASE (i \in 1 .. m /\ k \notin 1 .. m) \/ (i \notin 1 .. m /\ k \in 1 .. m)
    BY <1>3, <1>5, <2>1, <2>5
  <2> QED BY <2>3, <2>4, <2>5
<1> QED BY <1>2, <1>6, <1>7 DEF u

LEMMA ElementsOfRemoveAt ==
  ASSUME NEW S, NEW s \in Seq(S), IsInjective(s), NEW i \in DOMAIN s
  PROVE  /\ RemoveAt(s, i) \in Seq(S)
         /\ ToSet(RemoveAt(s, i)) = ToSet(s) \ {s[i]}
         /\ IsInjective(RemoveAt(s, i))
<1> DEFINE a == SubSeq(s, 1, i - 1)
           b == SubSeq(s, i + 1, Len(s))
<1>1. PICK n \in Nat : n = Len(s)
  BY LenProperties
<1>2. DOMAIN s = 1 .. n /\ i \in 1 .. n /\ \A k \in 1 .. n : s[k] \in S
  BY <1>1, LenProperties
<1>3. a \in Seq(S) /\ DOMAIN a = 1 .. (i - 1) /\ \A k \in 1 .. (i - 1) : a[k] = s[k]
  <2>1. \A k \in 1 .. (i - 1) : s[k] \in S
    BY <1>2
  <2> QED BY <1>2, <2>1, SubSeqProperties, LenProperties
<1>4. b \in Seq(S) /\ DOMAIN b = 1 .. (n - i) /\ \A k \in 1 .. (n - i) : b[k] = s[k + i]
  <2>1. \A k \in (i + 1) .. n : s[k] \in S
    BY <1>2
  <2> QED BY <1>1, <1>2, <2>1, SubSeqProperties, LenProperties
<1>5. RemoveAt(s, i) = a \o b
  BY DEF RemoveAt
<1> HIDE DEF a, b
<1>6. \A k \in 1 .. (n - i) : k + i \in 1 .. n /\ k + i > i
  BY <1>2
<1>7. \A k \in 1 .. (i - 1) : k \in 1 .. n /\ k < i
  BY <1>2
<1>8. \A k, l \in 1 .. n : s[k] = s[l] => k = l
  BY <1>2, <1>7 DEF IsInjective
<1>9. ToSet(a) \cap ToSet(b) = {}
  <2> SUFFICES ASSUME NEW k \in 1 .. (i - 1), NEW l \in 1 .. (n - i), a[k] = b[l] PROVE FALSE
    BY <1>3, <1>4 DEF ToSet
  <2>1. s[k] = s[l + i]
    BY <1>3, <1>4
  <2> QED BY <1>2, <1>6, <1>7, <1>8, <2>1
<1>10. IsInjective(a) /\ IsInjective(b)
  <2>1. \A k, l \in 1 .. (n - i) : k + i = l + i => k = l
    BY <1>2
  <2>2. ASSUME NEW k \in 1 .. (n - i), NEW l \in 1 .. (n - i), b[k] = b[l] PROVE k = l
    <3>1. s[k + i] = s[l + i]
      BY <1>4, <2>2
    <3>2. k + i = l + i
      BY <1>6, <1>8, <3>1
    <3> QED BY <2>1, <3>2
  <2>3. IsInjective(a)
    BY <1>3, <1>7, <1>8 DEF IsInjective
  <2> QED BY <1>4, <2>2, <2>3 DEF IsInjective
<1>11. ToSet(a) \cup ToSet(b) = ToSet(s) \ {s[i]}
  <2>1. \A k \in 1 .. n : k # i => k \in 1 .. (i - 1) \/ (k - i \in 1 .. (n - i) /\ (k - i) + i = k)
    BY <1>2
  <2>2. \A k \in 1 .. n : k # i => (\E l \in 1 .. (i - 1) : a[l] = s[k]) \/ (\E l \in 1 .. (n - i) : b[l] = s[k])
    BY <1>3, <1>4, <2>1
  <2>3. \A k \in 1 .. (n - i) : k + i # i
    BY <1>2
  <2>4. i \in 1 .. n /\ i \notin 1 .. (i - 1)
    BY <1>2
  <2>5. ToSet(a) \subseteq ToSet(s) \ {s[i]}
    BY <1>2, <1>3, <1>7, <1>8, <2>4 DEF ToSet
  <2>6. ToSet(b) \subseteq ToSet(s) \ {s[i]}
    BY <1>2, <1>4, <1>6, <1>8, <2>3, <2>4 DEF ToSet
  <2>7. ToSet(s) \ {s[i]} \subseteq ToSet(a) \cup ToSet(b)
    <3>1. ASSUME NEW k \in 1 .. n, k # i PROVE s[k] \in ToSet(a) \cup ToSet(b)
      BY <1>3, <1>4, <2>2, <3>1 DEF ToSet
    <3> QED BY <1>2, <3>1 DEF ToSet
  <2> QED BY <2>5, <2>6, <2>7
<1> QED BY <1>3, <1>4, <1>5, <1>9, <1>10, <1>11, ElementsOfConcat
-----------------------------------------------------------------------------
(***************************************************************************)
(* The records, the reader and the walk.                                   *)
(***************************************************************************)
Stored == {j \in JobIds : Known(j)}

RecordsInv ==
  /\ JobTypeOK
  /\ Stored \subseteq issued
  /\ \A j \in Stored : held[j] = jobs[j].status
  /\ \A j \in issued : held[j] \in JobStatus
  /\ order \in Seq(JobIds) /\ IsInjective(order) /\ ToSet(order) = Stored
  /\ created \in [JobIds -> 0 .. MaxTime]
  /\ held \in [JobIds -> AnyStatus]

Summaries == [job : JobIds, status : JobStatus]

Readers == [pc : Pcs, taken : Seq(JobIds), kept : SUBSET JobIds, listed : Seq(Summaries),
            end : Nat, more : BOOLEAN]

Walks == [on : BOOLEAN, over : BOOLEAN, filter : Filters \cup {{}}, sort : Sorts,
          offset : Nat, ids : Seq(JobIds), statuses : SUBSET JobStatus,
          expected : SUBSET JobIds, writes : Nat, shrunk : BOOLEAN, tied : BOOLEAN]

\* The jobs the reader has taken and not dropped, those of the page it makes,
\* and those that the client has.
Snapshot == ToSet(reader.taken) \cup reader.kept

Summarised == {reader.listed[i].job : i \in DOMAIN reader.listed}

Page == ToSet(reader.taken) \cup Summarised

Listed == ToSet(walk.ids)

ReaderInv ==
  /\ reader \in Readers
  /\ IsFiniteSet(reader.kept)
  /\ Snapshot \cup Page \subseteq issued
  /\ reader.pc = "idle" => reader = IdleReader
  /\ reader.pc # "idle" => walk.on /\ ~ walk.over

WalkInv ==
  /\ walk \in Walks
  /\ Listed \cup walk.expected \subseteq issued

ListingInv == RecordsInv /\ ReaderInv /\ WalkInv

\* What a write does, as far as a walk can tell: jobs issued before keep their
\* time of creation and move along the lifecycle; a new one is created no
\* earlier, and unless that ties, later than all that are stored.
WriteStep ==
  /\ UNCHANGED reader
  /\ walk' \in Walks
  /\ ~ walk.over
  /\ walk'.on = walk.on /\ walk'.over = walk.over /\ walk'.filter = walk.filter
  /\ walk'.sort = walk.sort /\ walk'.offset = walk.offset /\ walk'.ids = walk.ids
  /\ walk'.statuses = walk.statuses /\ walk'.expected = walk.expected
  /\ walk'.shrunk \/ (~ walk.shrunk /\ Stored \subseteq Stored')
  /\ ~ walk'.tied => ~ walk.tied
  /\ issued \subseteq issued'
  /\ \A j \in issued :
       /\ created'[j] = created[j]
       /\ held'[j] = held[j] \/ <<held[j], held'[j]>> \in AllowedTransitions
  /\ \A k \in Stored' \ Stored :
       /\ k \notin issued
       /\ walk'.tied \/ \A j \in Stored : created[j] < created'[k]

LEMMA NoKeyIsNeverIndexed ==
  ASSUME JobTypeOK
  PROVE  ~ Indexed(NoKey)
<1>1. \A i \in DOMAIN dedup : dedup[i] \in DedupEntry
  BY ElementOfSeq, LenProperties DEF JobTypeOK
<1> QED BY <1>1, NoKeyAssumption DEF Indexed, DedupEntry

\* A write is counted in the walk, and changes nothing else of it but a mark.
LEMMA WrittenFields ==
  ASSUME WalkInv
  PROVE  /\ Written \in Walks
         /\ Written.on = walk.on /\ Written.over = walk.over /\ Written.filter = walk.filter
         /\ Written.sort = walk.sort /\ Written.offset = walk.offset /\ Written.ids = walk.ids
         /\ Written.statuses = walk.statuses /\ Written.expected = walk.expected
         /\ Written.shrunk = walk.shrunk /\ Written.tied = walk.tied
<1>1. walk \in Walks /\ (IF walk.on THEN walk.writes + 1 ELSE walk.writes) \in Nat
  BY DEF WalkInv, Walks
<1> QED BY <1>1 DEF Walks, Written

LEMMA CreateIsAWrite ==
  ASSUME ListingInv, ~ walk.over,
         NEW spec \in Specs, NEW id \in JobIds, NEW now \in 0 .. MaxTime, Create(spec, id, now)
  PROVE  RecordsInv' /\ WriteStep
<1>1. /\ id \notin issued /\ issued' = issued \cup {id} /\ dedup' = dedup
      /\ jobs' = [jobs EXCEPT ![id] = NewRecord(spec)]
  <2>1. ~ Indexed(NoKey)
    BY NoKeyIsNeverIndexed DEF ListingInv, RecordsInv
  <2> QED BY <2>1 DEF Create, CreateJob
<1>2. /\ order' = Append(order, id)
      /\ created' = [created EXCEPT ![id] = now]
      /\ held' = [held EXCEPT ![id] = "QUEUED"]
      /\ UNCHANGED reader
      /\ \A j \in JobIds : created[j] <= now
  BY DEF Create
<1>3. NewRecord(spec) \in JobRecord /\ NewRecord(spec).status = "QUEUED"
  BY DEF NewRecord, JobRecord, JobStatus
<1>4. id \notin Stored /\ jobs \in [JobIds -> JobRecord \cup {NoRecord}]
  BY <1>1 DEF ListingInv, RecordsInv, JobTypeOK
<1>5. \A j \in JobIds : jobs'[j] = IF j = id THEN NewRecord(spec) ELSE jobs[j]
  BY <1>1, <1>4
<1>6. Stored' = Stored \cup {id}
  BY <1>3, <1>5 DEF Stored, Known, UNSPECIFIED
<1>7. JobTypeOK'
  BY <1>1, <1>3, <1>4 DEF JobTypeOK, ListingInv, RecordsInv
<1>8. RecordsInv'
  <2>1. order' \in Seq(JobIds) /\ IsInjective(order') /\ ToSet(order') = Stored'
    BY <1>2, <1>4, <1>6, ElementsOfAppend DEF ListingInv, RecordsInv
  <2>2. created' \in [JobIds -> 0 .. MaxTime] /\ held' \in [JobIds -> AnyStatus]
    BY <1>2 DEF ListingInv, RecordsInv, AnyStatus, JobStatus
  <2>3. Stored' \subseteq issued'
    BY <1>1, <1>6 DEF ListingInv, RecordsInv
  <2>4. \A j \in JobIds : held'[j] = IF j = id THEN "QUEUED" ELSE held[j]
    BY <1>2 DEF ListingInv, RecordsInv
  <2>5. \A j \in Stored' : held'[j] = jobs'[j].status
    BY <1>3, <1>5, <1>6, <2>4 DEF ListingInv, RecordsInv, Stored
  <2>6. \A j \in issued' : held'[j] \in JobStatus
    BY <1>1, <2>4 DEF ListingInv, RecordsInv, JobTypeOK, JobStatus
  <2> QED BY <1>7, <2>1, <2>2, <2>3, <2>5, <2>6 DEF RecordsInv
<1>9. WriteStep
  <2>1. PICK ties : /\ ties = (walk.tied \/ \E j \in JobIds : Known(j) /\ created[j] >= now)
                    /\ walk' = [Written EXCEPT !.tied = ties]
    BY DEF Create, Written
  <2>2. ties \in BOOLEAN /\ walk.shrunk \in BOOLEAN
    <3>1. walk.tied \in BOOLEAN /\ walk.shrunk \in BOOLEAN
      BY DEF ListingInv, WalkInv, Walks
    <3> QED BY <2>1, <3>1, Zenon
  <2>3. /\ walk' \in Walks
        /\ walk'.on = walk.on /\ walk'.over = walk.over /\ walk'.filter = walk.filter
        /\ walk'.sort = walk.sort /\ walk'.offset = walk.offset /\ walk'.ids = walk.ids
        /\ walk'.statuses = walk.statuses /\ walk'.expected = walk.expected
        /\ walk'.shrunk = walk.shrunk /\ walk'.tied = ties
    BY <2>1, <2>2, WrittenFields DEF Walks, ListingInv
  <2>4. walk'.tied = (walk.tied \/ \E j \in JobIds : Known(j) /\ created[j] >= now)
    BY <2>1, <2>3
  <2>5. walk'.tied \/ \A j \in Stored : created[j] < now
    <3>1. now \in Nat /\ \A j \in JobIds : created[j] \in Nat
      BY BoundsAssumption DEF ListingInv, RecordsInv
    <3>2. \A j \in Stored : j \in JobIds /\ Known(j)
      BY DEF Stored
    <3>3. (\E j \in JobIds : Known(j) /\ created[j] >= now) \/ \A j \in Stored : created[j] < now
      BY <3>1, <3>2
    <3> QED BY <2>4, <3>3, Zenon
  <2>6. created'[id] = now /\ \A j \in issued : created'[j] = created[j] /\ held'[j] = held[j]
    BY <1>1, <1>2 DEF ListingInv, RecordsInv, JobTypeOK
  <2>7. \A k \in Stored' \ Stored : k = id
    BY <1>6
  <2>8. walk'.shrunk \/ (~ walk.shrunk /\ Stored \subseteq Stored')
    BY <1>6, <2>2, <2>3
  <2>9. ~ walk'.tied => ~ walk.tied
    BY <2>4
  <2> QED BY <1>1, <1>2, <2>3, <2>5, <2>6, <2>7, <2>8, <2>9 DEF WriteStep
<1> QED BY <1>8, <1>9

LEMMA DeleteIsAWrite ==
  ASSUME ListingInv, ~ walk.over,
         NEW j \in JobIds, NEW expected \in JobStatus, Delete(j, expected)
  PROVE  RecordsInv' /\ WriteStep
<1>1. /\ jobs' = [jobs EXCEPT ![j] = NoRecord] /\ UNCHANGED <<dedup, issued>>
      /\ UNCHANGED <<created, held, reader>>
  BY DEF Delete, DeleteJobIfStatus
<1>2. PICK i \in DOMAIN order : order[i] = j /\ order' = RemoveAt(order, i)
  BY DEF Delete
<1>3. jobs \in [JobIds -> JobRecord \cup {NoRecord}]
  BY DEF ListingInv, RecordsInv, JobTypeOK
<1>4. \A k \in JobIds : jobs'[k] = IF k = j THEN NoRecord ELSE jobs[k]
  BY <1>1, <1>3
<1>5. Stored' = Stored \ {j}
  BY <1>4 DEF Stored, Known, NoRecord
<1>6. JobTypeOK'
  BY <1>1, <1>3 DEF JobTypeOK, ListingInv, RecordsInv
<1>7. RecordsInv'
  <2>1. order' \in Seq(JobIds) /\ IsInjective(order') /\ ToSet(order') = Stored'
    BY <1>2, <1>5, ElementsOfRemoveAt DEF ListingInv, RecordsInv
  <2>2. Stored' \subseteq issued' /\ \A k \in Stored' : held'[k] = jobs'[k].status
    BY <1>1, <1>4, <1>5 DEF ListingInv, RecordsInv, Stored
  <2> QED BY <1>1, <1>6, <2>1, <2>2 DEF ListingInv, RecordsInv
<1>8. WriteStep
  <2>1. walk' = [Written EXCEPT !.shrunk = TRUE]
    BY DEF Delete
  <2>3. /\ walk' \in Walks
        /\ walk'.on = walk.on /\ walk'.over = walk.over /\ walk'.filter = walk.filter
        /\ walk'.sort = walk.sort /\ walk'.offset = walk.offset /\ walk'.ids = walk.ids
        /\ walk'.statuses = walk.statuses /\ walk'.expected = walk.expected
        /\ walk'.shrunk = TRUE /\ walk'.tied = walk.tied
    BY <2>1, WrittenFields DEF Walks, ListingInv
  <2> QED BY <1>1, <1>5, <2>3 DEF WriteStep
<1> QED BY <1>7, <1>8

LEMMA TransitionIsAWrite ==
  ASSUME ListingInv, ~ walk.over,
         NEW j \in JobIds, NEW from \in JobStatus, NEW to \in Targets, NEW now \in Times,
         Transition(j, from, to, now)
  PROVE  RecordsInv' /\ WriteStep
<1>1. /\ Known(j) /\ jobs[j].status = from /\ <<from, to>> \in AllowedTransitions
      /\ jobs' = [jobs EXCEPT ![j] = Transitioned(jobs[j], to, now)]
      /\ UNCHANGED <<dedup, issued>> /\ UNCHANGED <<order, created, reader>>
      /\ held' = [held EXCEPT ![j] = to]
  BY DEF Transition, TransitionJobStatus, Matches
<1>2. jobs \in [JobIds -> JobRecord \cup {NoRecord}] /\ jobs[j] \in JobRecord
  BY <1>1 DEF ListingInv, RecordsInv, JobTypeOK, Known, NoRecord
<1>3. to \in JobStatus /\ to # UNSPECIFIED
  BY TargetsAssumption DEF JobStatus, TerminalStatuses, UNSPECIFIED
<1>4. Transitioned(jobs[j], to, now) \in JobRecord /\ Transitioned(jobs[j], to, now).status = to
  BY <1>2, <1>3 DEF Transitioned, JobRecord
<1>5. \A k \in JobIds : jobs'[k] = IF k = j THEN Transitioned(jobs[j], to, now) ELSE jobs[k]
  BY <1>1, <1>2
<1>6. Stored' = Stored
  BY <1>1, <1>3, <1>4, <1>5 DEF Stored, Known
<1>7. JobTypeOK'
  BY <1>1, <1>2, <1>4 DEF JobTypeOK, ListingInv, RecordsInv
<1>8. j \in Stored /\ j \in issued /\ held[j] = from
  BY <1>1 DEF ListingInv, RecordsInv, Stored
<1>9. \A k \in JobIds : held'[k] = IF k = j THEN to ELSE held[k]
  BY <1>1 DEF ListingInv, RecordsInv
<1>10. RecordsInv'
  <2>1. held' \in [JobIds -> AnyStatus]
    BY <1>1, <1>3 DEF ListingInv, RecordsInv, AnyStatus
  <2>2. \A k \in Stored' : held'[k] = jobs'[k].status
    BY <1>4, <1>5, <1>6, <1>9 DEF ListingInv, RecordsInv, Stored
  <2>3. \A k \in issued' : held'[k] \in JobStatus
    BY <1>1, <1>3, <1>9 DEF ListingInv, RecordsInv, JobTypeOK
  <2> QED BY <1>1, <1>6, <1>7, <2>1, <2>2, <2>3 DEF ListingInv, RecordsInv
<1>11. WriteStep
  <2>1. walk' = Written
    BY DEF Transition
  <2>2. walk.shrunk \in BOOLEAN
    BY DEF ListingInv, WalkInv, Walks
  <2>3. /\ walk' \in Walks
        /\ walk'.on = walk.on /\ walk'.over = walk.over /\ walk'.filter = walk.filter
        /\ walk'.sort = walk.sort /\ walk'.offset = walk.offset /\ walk'.ids = walk.ids
        /\ walk'.statuses = walk.statuses /\ walk'.expected = walk.expected
        /\ walk'.shrunk = walk.shrunk /\ walk'.tied = walk.tied
    BY <2>1, WrittenFields DEF ListingInv
  <2>4. walk'.shrunk \/ (~ walk.shrunk /\ Stored \subseteq Stored')
    BY <1>6, <2>2, <2>3
  <2>5. \A k \in issued : held'[k] = held[k] \/ <<held[k], held'[k]>> \in AllowedTransitions
    BY <1>1, <1>8, <1>9 DEF ListingInv, RecordsInv, JobTypeOK
  <2> QED BY <1>1, <1>6, <2>3, <2>4, <2>5 DEF WriteStep
<1> QED BY <1>10, <1>11

LEMMA EveryWriteIsAWriteStep ==
  ASSUME ListingInv, Write
  PROVE  RecordsInv' /\ WriteStep
BY CreateIsAWrite, DeleteIsAWrite, TransitionIsAWrite DEF Write
-----------------------------------------------------------------------------
(***************************************************************************)
(* The steps of the reader and of the client, field by field.              *)
(***************************************************************************)
RecordsStay == UNCHANGED <<issued, jobs, dedup, order, created, held>> /\ Stored' = Stored

LEMMA RecordsInvStays ==
  ASSUME RecordsInv, UNCHANGED <<jobVars, order, created, held>>
  PROVE  RecordsInv' /\ RecordsStay
<1>1. UNCHANGED <<issued, jobs, dedup, order, created, held>>
  BY DEF jobVars
<1>2. Stored' = Stored
  BY <1>1 DEF Stored, Known
<1> QED BY <1>1, <1>2 DEF RecordsInv, RecordsStay, JobTypeOK

LEMMA StartWalkStep ==
  ASSUME ListingInv, NEW filter \in Filters, NEW sort \in Sorts, StartWalk(filter, sort)
  PROVE  /\ ListingInv' /\ RecordsStay
         /\ reader' = IdleReader /\ reader = IdleReader
         /\ walk'.filter = filter /\ walk'.sort = sort /\ ~ walk'.over /\ ~ walk'.shrunk
         /\ walk'.ids = <<>> /\ walk'.statuses = {} /\ walk'.offset = 0
         /\ walk'.expected = {j \in Stored : Wanted(filter, held[j])}
<1>1. RecordsInv' /\ RecordsStay
  BY RecordsInvStays DEF StartWalk, ListingInv
<1>2. reader' = IdleReader /\ reader = IdleReader
  BY DEF StartWalk, ListingInv, ReaderInv
<1> DEFINE found == {j \in JobIds : Known(j) /\ Wanted(filter, jobs[j].status)}
<1>3. found = {j \in Stored : Wanted(filter, held[j])}
  BY DEF Stored, ListingInv, RecordsInv
<1>4. walk' = [NoWalk EXCEPT !.on = TRUE, !.filter = filter, !.sort = sort, !.expected = found]
  BY DEF StartWalk
<1>5. found \subseteq JobIds /\ found \subseteq issued
  BY <1>3 DEF Stored, ListingInv, RecordsInv
<1> HIDE DEF found
<1>6. /\ walk' \in Walks
      /\ walk'.filter = filter /\ walk'.sort = sort /\ ~ walk'.over /\ ~ walk'.shrunk
      /\ walk'.ids = <<>> /\ walk'.statuses = {} /\ walk'.offset = 0
      /\ walk'.expected = found
  BY <1>4, <1>5, EmptySeq DEF NoWalk, Walks, Sorts
<1>7. ToSet(<<>>) = {}
  BY NoElements
<1>8. WalkInv'
  BY <1>1, <1>5, <1>6, <1>7 DEF WalkInv, Listed, RecordsStay
<1>9. ReaderInv'
  <2>1. IdleReader \in Readers /\ IdleReader.pc = "idle" /\ IdleReader.kept = {}
        /\ IdleReader.taken = <<>> /\ IdleReader.listed = <<>>
    BY EmptySeq DEF IdleReader, Reader, Readers, Pcs
  <2>2. DOMAIN <<>> = {}
    BY NoElements
  <2>3. (Snapshot \cup Page)' = {}
    BY <1>2, <1>7, <2>1, <2>2 DEF Snapshot, Page, Summarised
  <2> QED BY <1>2, <2>1, <2>3, FS_EmptySet DEF ReaderInv
<1> QED BY <1>1, <1>2, <1>3, <1>6, <1>8, <1>9 DEF ListingInv

LEMMA TakeRecordsStep ==
  ASSUME ListingInv, TakeRecords
  PROVE  /\ ListingInv' /\ RecordsStay /\ walk' = walk /\ ~ walk.over
         /\ reader'.pc = "filter" /\ ToSet(reader'.taken) = Stored /\ reader'.kept = {}
         /\ reader'.listed = <<>>
<1>1. RecordsInv' /\ RecordsStay
  BY RecordsInvStays DEF TakeRecords, ListingInv
<1>2. /\ walk' = walk /\ walk.on /\ ~ walk.over
      /\ reader' = Reader("filter", order, {}, <<>>, 0, FALSE)
  BY DEF TakeRecords
<1>3. order \in Seq(JobIds) /\ ToSet(order) = Stored /\ Stored \subseteq issued
  BY DEF ListingInv, RecordsInv
<1>4. /\ reader' \in Readers /\ reader'.pc = "filter" /\ reader'.taken = order
      /\ reader'.kept = {} /\ reader'.listed = <<>>
  BY <1>2, <1>3, EmptySeq DEF Reader, Readers, Pcs
<1>5. DOMAIN <<>> = {}
  BY NoElements
<1>6. (Snapshot \cup Page)' = Stored
  BY <1>3, <1>4, <1>5 DEF Snapshot, Page, Summarised
<1>7. ReaderInv'
  BY <1>1, <1>2, <1>3, <1>4, <1>6, FS_EmptySet DEF ReaderInv, RecordsStay
<1>8. WalkInv'
  BY <1>1, <1>2 DEF ListingInv, WalkInv, Listed, RecordsStay
<1> QED BY <1>1, <1>2, <1>3, <1>4, <1>7, <1>8 DEF ListingInv

LEMMA FilterRecordStep ==
  ASSUME ListingInv, FilterRecord
  PROVE  /\ ListingInv' /\ RecordsStay /\ walk' = walk
         /\ reader.pc = "filter" /\ reader'.pc = "filter" /\ reader'.listed = reader.listed
         /\ \E j \in ToSet(reader.taken) :
              /\ ToSet(reader.taken) = ToSet(reader'.taken) \cup {j}
              /\ reader'.kept = IF Wanted(walk.filter, held[j])
                                  THEN reader.kept \cup {j} ELSE reader.kept
<1>1. RecordsInv' /\ RecordsStay
  BY RecordsInvStays DEF FilterRecord, ListingInv
<1> DEFINE j == Head(reader.taken)
           kept == IF Wanted(walk.filter, held[j]) THEN reader.kept \cup {j} ELSE reader.kept
<1>2. /\ walk' = walk /\ reader.pc = "filter" /\ reader.taken # <<>>
      /\ reader' = [reader EXCEPT !.taken = Tail(reader.taken), !.kept = kept]
  BY DEF FilterRecord
<1>3. /\ reader \in Readers /\ reader.taken \in Seq(JobIds) /\ reader.kept \subseteq JobIds
      /\ IsFiniteSet(reader.kept) /\ Snapshot \cup Page \subseteq issued
      /\ walk.on /\ ~ walk.over
  BY <1>2 DEF ListingInv, ReaderInv, Readers
<1>4. /\ Tail(reader.taken) \in Seq(JobIds) /\ j \in JobIds
      /\ ToSet(reader.taken) = ToSet(Tail(reader.taken)) \cup {j}
  BY <1>2, <1>3, ElementsOfTail
<1>5. kept \subseteq reader.kept \cup {j} /\ IsFiniteSet(kept)
  BY <1>3, FS_AddElement
<1> HIDE DEF j, kept
<1>6. /\ reader' \in Readers /\ reader'.pc = "filter" /\ reader'.taken = Tail(reader.taken)
      /\ reader'.kept = kept /\ reader'.listed = reader.listed
  BY <1>2, <1>3, <1>4, <1>5 DEF Readers
<1>7. (Snapshot \cup Page)' \subseteq Snapshot \cup Page
  BY <1>4, <1>5, <1>6 DEF Snapshot, Page, Summarised
<1>8. ReaderInv'
  BY <1>1, <1>2, <1>3, <1>5, <1>6, <1>7 DEF ReaderInv, RecordsStay
<1>9. WalkInv'
  BY <1>1, <1>2 DEF ListingInv, WalkInv, Listed, RecordsStay
<1> QED BY <1>1, <1>2, <1>4, <1>6, <1>8, <1>9 DEF ListingInv, j, kept
\* A window of the sorted sequence holds the members whose ranks are in it.
LEMMA WindowByRank ==
  ASSUME Dated, NEW T \in SUBSET JobIds, IsFiniteSet(T),
         NEW from \in Nat, NEW end \in Nat, from <= end, end <= Cardinality(T)
  PROVE  /\ Window(Sorted(T), from, end) \in Seq(T)
         /\ IsInjective(Window(Sorted(T), from, end))
         /\ ToSet(Window(Sorted(T), from, end)) =
              {j \in T : from <= Rank(T, j) /\ Rank(T, j) < end}
<1> DEFINE s == Sorted(T)
           w == Window(s, from, end)
<1>1. PICK n \in Nat : n = Cardinality(T)
  BY FS_CardinalityType
<1>2. /\ s \in [1 .. n -> T]
      /\ \A i \in 1 .. n : Rank(T, s[i]) = i - 1
      /\ \A j \in T : Rank(T, j) + 1 \in 1 .. n /\ s[Rank(T, j) + 1] = j
  BY <1>1, SortedByRank
<1>3. \A j \in T : Rank(T, j) \in Nat
  BY RankGrows
<1>4. PICK len \in Nat : len = end - from
  OBVIOUS
<1> HIDE DEF s
<1>5. w \in Seq(T) /\ DOMAIN w = 1 .. len /\ \A i \in 1 .. len : w[i] = s[i + from]
  <2>1. w = SubSeq(s, from + 1, end)
    BY DEF Window
  <2>2. \A i \in (from + 1) .. end : s[i] \in T
    BY <1>1, <1>2
  <2>3. /\ w \in Seq(T) /\ Len(w) = len
        /\ \A i \in 1 .. end - (from + 1) + 1 : w[i] = s[(from + 1) + i - 1]
    BY <1>4, <2>1, <2>2, SubSeqProperties
  <2>4. \A i \in 1 .. len : i \in 1 .. end - (from + 1) + 1 /\ (from + 1) + i - 1 = i + from
    BY <1>4
  <2>5. \A i \in 1 .. len : w[i] = s[i + from]
    BY <2>3, <2>4
  <2> QED BY <2>3, <2>5, LenProperties
<1> HIDE DEF w
<1>6. \A i \in 1 .. len : i + from \in 1 .. n /\ from <= (i + from) - 1 /\ (i + from) - 1 < end
  BY <1>1, <1>4
<1>7. \A i \in 1 .. len : w[i] \in T /\ Rank(T, w[i]) = (i + from) - 1
  BY <1>2, <1>5, <1>6
<1>8. IsInjective(w)
  <2>1. ASSUME NEW i \in 1 .. len, NEW k \in 1 .. len, w[i] = w[k]
        PROVE  i = k
    <3>1. (i + from) - 1 = (k + from) - 1
      BY <1>7, <2>1
    <3> QED BY <3>1
  <2> QED BY <1>5, <2>1 DEF IsInjective
<1>9. ASSUME NEW j \in T, from <= Rank(T, j), Rank(T, j) < end
      PROVE  j \in ToSet(w)
  <2>1. PICK r \in Nat : r = Rank(T, j)
    BY <1>3
  <2>2. (r + 1) - from \in 1 .. len /\ ((r + 1) - from) + from = r + 1
    BY <1>4, <1>9, <2>1
  <2>3. w[(r + 1) - from] = j
    BY <1>2, <1>5, <2>1, <2>2
  <2> QED BY <1>5, <2>2, <2>3 DEF ToSet
<1>10. ASSUME NEW i \in 1 .. len
       PROVE  w[i] \in T /\ from <= Rank(T, w[i]) /\ Rank(T, w[i]) < end
  BY <1>6, <1>7
<1>11. ToSet(w) \subseteq {j \in T : from <= Rank(T, j) /\ Rank(T, j) < end}
  BY <1>5, <1>10 DEF ToSet
<1> QED BY <1>5, <1>8, <1>9, <1>11 DEF w, s

\* The offset is cut to the length of the list, and a page ends behind it.
LEMMA PageEnds ==
  ASSUME NEW offset \in Nat, NEW n \in Nat, NEW from,
         from = IF offset > n THEN n ELSE offset
  PROVE  /\ from \in Nat /\ NextOffset(from, n) \in Nat
         /\ from <= NextOffset(from, n) /\ NextOffset(from, n) <= n
         /\ from # offset => from = n
         /\ NextOffset(from, n) < n => from = offset /\ offset < NextOffset(from, n)
BY PageSizeAssumption DEF NextOffset

LEMMA CutWindowStep ==
  ASSUME ListingInv, CutWindow
  PROVE  /\ ListingInv' /\ RecordsStay /\ walk' = walk
         /\ reader.pc = "filter" /\ reader.taken = <<>> /\ reader'.pc = "summarise"
         /\ reader'.kept = {} /\ reader'.listed = <<>> /\ IsInjective(reader'.taken)
         /\ \E from, n \in Nat :
              /\ from = IF walk.offset > n THEN n ELSE walk.offset
              /\ n = Cardinality(reader.kept)
              /\ reader'.end = NextOffset(from, n)
              /\ reader'.more <=> NextOffset(from, n) < n
              /\ ToSet(reader'.taken) = {j \in reader.kept : /\ from <= Rank(reader.kept, j)
                                                             /\ Rank(reader.kept, j) < reader'.end}
<1>1. RecordsInv' /\ RecordsStay
  BY RecordsInvStays DEF CutWindow, ListingInv
<1>2. /\ reader \in Readers /\ reader.kept \in SUBSET JobIds
      /\ IsFiniteSet(reader.kept) /\ Snapshot \cup Page \subseteq issued
      /\ reader.pc = "filter" /\ walk.on /\ ~ walk.over /\ walk' = walk
      /\ reader.taken = <<>>
  BY DEF ListingInv, ReaderInv, Readers, CutWindow
<1>3. Dated /\ walk.offset \in Nat
  BY DEF ListingInv, RecordsInv, WalkInv, Walks, Dated
<1>4. PICK n \in Nat : n = Cardinality(reader.kept)
  BY <1>2, FS_CardinalityType
<1>5. PICK from : from = IF walk.offset > n THEN n ELSE walk.offset
  OBVIOUS
<1>6. PICK end : end = NextOffset(from, n)
  OBVIOUS
<1>7. /\ from \in Nat /\ end \in Nat /\ from <= end /\ end <= n
  BY <1>3, <1>5, <1>6, PageEnds
<1>8. Len(Sorted(reader.kept)) = n
  <2>1. Sorted(reader.kept) \in [1 .. n -> reader.kept]
    BY <1>2, <1>3, <1>4, SortedByRank
  <2>2. Sorted(reader.kept) \in Seq(reader.kept)
    BY <2>1, SeqDef
  <2>3. DOMAIN Sorted(reader.kept) = 1 .. n
    BY <2>1
  <2>4. PICK m \in Nat : m = Len(Sorted(reader.kept)) /\ DOMAIN Sorted(reader.kept) = 1 .. m
    BY <2>2, LenProperties
  <2>5. 1 .. m = 1 .. n
    BY <2>3, <2>4
  <2>6. m \in 1 .. m => m \in 1 .. n
    BY <2>5
  <2>7. n \in 1 .. n => n \in 1 .. m
    BY <2>5
  <2>8. m = n
    BY <2>6, <2>7
  <2> QED BY <2>4, <2>8
<1> DEFINE page == Window(Sorted(reader.kept), from, end)
<1>9. /\ page \in Seq(reader.kept) /\ IsInjective(page)
      /\ ToSet(page) = {j \in reader.kept : /\ from <= Rank(reader.kept, j)
                                            /\ Rank(reader.kept, j) < end}
  BY <1>2, <1>3, <1>4, <1>7, WindowByRank
<1>10. reader' = Reader("summarise", page, {}, <<>>, end, end < n)
  BY <1>5, <1>6, <1>8 DEF CutWindow
<1>11. page \in Seq(JobIds) /\ ToSet(page) \subseteq issued
  BY <1>2, <1>9, SeqMonotonic DEF Snapshot
<1> HIDE DEF page
<1>12. (end < n) \in BOOLEAN
  BY <1>4, <1>7
<1>13. /\ reader' \in Readers /\ reader'.pc = "summarise" /\ reader'.taken = page
       /\ reader'.kept = {} /\ reader'.listed = <<>> /\ reader'.end = end
       /\ reader'.more = (end < n)
  BY <1>7, <1>10, <1>11, <1>12, EmptySeq DEF Reader, Readers, Pcs
<1>14. ReaderInv'
  <2>1. DOMAIN <<>> = {}
    BY NoElements
  <2>2. (Snapshot \cup Page)' = ToSet(page)
    BY <1>13, <2>1 DEF Snapshot, Page, Summarised
  <2> QED BY <1>1, <1>2, <1>11, <1>13, <2>2, FS_EmptySet DEF ReaderInv, RecordsStay
<1>15. WalkInv'
  BY <1>1, <1>2 DEF ListingInv, WalkInv, Listed, RecordsStay
<1>16. reader'.more <=> NextOffset(from, n) < n
  BY <1>6, <1>13
<1> QED BY <1>1, <1>2, <1>4, <1>5, <1>6, <1>7, <1>9, <1>13, <1>14, <1>15, <1>16 DEF ListingInv

LEMMA SummariseStep ==
  ASSUME ListingInv, Summarise
  PROVE  /\ ListingInv' /\ RecordsStay /\ walk' = walk
         /\ reader.pc = "summarise" /\ reader'.pc = "summarise" /\ reader'.kept = reader.kept
         /\ reader'.end = reader.end /\ reader'.more = reader.more
         /\ reader.taken # <<>> /\ reader'.taken = Tail(reader.taken)
         /\ \E j \in ToSet(reader.taken) :
              /\ j = Head(reader.taken)
              /\ reader'.listed = Append(reader.listed, [job |-> j, status |-> held[j]])
<1>1. RecordsInv' /\ RecordsStay
  BY RecordsInvStays DEF Summarise, ListingInv
<1> DEFINE j == Head(reader.taken)
           listed == Append(reader.listed, [job |-> j, status |-> held[j]])
<1>2. /\ walk' = walk /\ reader.pc = "summarise" /\ reader.taken # <<>>
      /\ reader' = [reader EXCEPT !.taken = Tail(reader.taken), !.listed = listed]
  BY DEF Summarise
<1>3. /\ reader \in Readers /\ reader.taken \in Seq(JobIds) /\ reader.listed \in Seq(Summaries)
      /\ IsFiniteSet(reader.kept) /\ Snapshot \cup Page \subseteq issued
      /\ walk.on /\ ~ walk.over
  BY <1>2 DEF ListingInv, ReaderInv, Readers
<1>4. /\ Tail(reader.taken) \in Seq(JobIds) /\ j \in JobIds
      /\ ToSet(reader.taken) = ToSet(Tail(reader.taken)) \cup {j}
  BY <1>2, <1>3, ElementsOfTail
<1>5. j \in issued /\ held[j] \in JobStatus
  BY <1>3, <1>4 DEF Snapshot, ListingInv, RecordsInv
<1>6. /\ listed \in Seq(Summaries)
      /\ ToSet(listed) = ToSet(reader.listed) \cup {[job |-> j, status |-> held[j]]}
  <2>1. [job |-> j, status |-> held[j]] \in Summaries
    BY <1>4, <1>5 DEF Summaries
  <2> QED BY <1>3, <2>1, ElementsOfAppend
<1> HIDE DEF j, listed
<1>7. /\ reader' \in Readers /\ reader'.pc = "summarise" /\ reader'.taken = Tail(reader.taken)
      /\ reader'.kept = reader.kept /\ reader'.listed = listed
      /\ reader'.end = reader.end /\ reader'.more = reader.more
  BY <1>2, <1>3, <1>4, <1>6 DEF Readers
<1>8. (Snapshot \cup Page)' \subseteq Snapshot \cup Page
  <2>1. Summarised' \subseteq Summarised \cup {j}
    <3>1. Summarised' = {e.job : e \in ToSet(listed)}
      BY <1>7 DEF Summarised, ToSet
    <3>2. Summarised = {e.job : e \in ToSet(reader.listed)}
      BY DEF Summarised, ToSet
    <3> QED BY <1>6, <3>1, <3>2
  <2> QED BY <1>4, <1>7, <2>1 DEF Snapshot, Page
<1>9. ReaderInv'
  BY <1>1, <1>2, <1>3, <1>7, <1>8 DEF ReaderInv, RecordsStay
<1>10. WalkInv'
  BY <1>1, <1>2 DEF ListingInv, WalkInv, Listed, RecordsStay
<1> QED BY <1>1, <1>2, <1>4, <1>7, <1>9, <1>10 DEF ListingInv, j, listed
LEMMA DeliverPageStep ==
  ASSUME ListingInv, DeliverPage
  PROVE  /\ ListingInv' /\ RecordsStay /\ ~ walk.over
         /\ reader.pc = "summarise" /\ reader.taken = <<>> /\ reader' = IdleReader
         /\ walk'.filter = walk.filter /\ walk'.sort = walk.sort
         /\ walk'.expected = walk.expected /\ walk'.shrunk = walk.shrunk /\ walk'.tied = walk.tied
         /\ walk'.statuses =
              walk.statuses \cup {reader.listed[i].status : i \in DOMAIN reader.listed}
         /\ walk'.offset = IF reader.more THEN reader.end ELSE 0
         /\ walk'.over <=> ~ reader.more
         /\ Listed' = Listed \cup Summarised
         /\ IsInjective(walk.ids) /\ Listed \cap Summarised = {}
              /\ (\A i, k \in DOMAIN reader.listed :
                    reader.listed[i].job = reader.listed[k].job => i = k)
            => IsInjective(walk'.ids)
<1>1. RecordsInv' /\ RecordsStay
  BY RecordsInvStays DEF DeliverPage, ListingInv
<1> DEFINE page == [i \in DOMAIN reader.listed |-> reader.listed[i].job]
           ids == walk.ids \o page
           seen == {reader.listed[i].status : i \in DOMAIN reader.listed}
           offset == IF reader.more THEN reader.end ELSE 0
           over == ~ reader.more
<1>2. /\ reader.pc = "summarise" /\ reader.taken = <<>> /\ reader' = IdleReader
      /\ walk' = [walk EXCEPT !.ids = ids, !.statuses = walk.statuses \cup seen,
                              !.offset = offset, !.over = over]
  BY DEF DeliverPage
<1>3. /\ reader.listed \in Seq(Summaries) /\ reader.end \in Nat /\ reader.more \in BOOLEAN
      /\ Snapshot \cup Page \subseteq issued /\ ~ walk.over
      /\ walk \in Walks /\ walk.ids \in Seq(JobIds) /\ walk.statuses \subseteq JobStatus
  BY <1>2 DEF ListingInv, ReaderInv, Readers, WalkInv, Walks
<1>4. PICK n \in Nat : n = Len(reader.listed) /\ DOMAIN reader.listed = 1 .. n
                       /\ \A i \in 1 .. n : reader.listed[i] \in Summaries
  BY <1>3, LenProperties, ElementOfSeq
<1>5. page \in [1 .. n -> JobIds] /\ seen \subseteq JobStatus
  BY <1>4 DEF Summaries
<1>6. page \in Seq(JobIds)
  BY <1>5, SeqDef
<1>7. DOMAIN page = 1 .. n /\ \A i \in 1 .. n : page[i] = reader.listed[i].job
  BY <1>4
<1> HIDE DEF page
<1>8. ToSet(page) = Summarised
  BY <1>4, <1>7 DEF ToSet, Summarised
<1>9. /\ ids \in Seq(JobIds) /\ ToSet(ids) = Listed \cup Summarised
      /\ IsInjective(walk.ids) /\ IsInjective(page) /\ Listed \cap Summarised = {}
           => IsInjective(ids)
  BY <1>3, <1>6, <1>8, ElementsOfConcat DEF Listed
<1>10. offset \in Nat /\ over \in BOOLEAN
  BY <1>3
<1> HIDE DEF ids, seen, offset, over
<1>11. /\ walk' \in Walks
       /\ walk'.on = walk.on /\ walk'.filter = walk.filter /\ walk'.sort = walk.sort
       /\ walk'.expected = walk.expected /\ walk'.shrunk = walk.shrunk /\ walk'.tied = walk.tied
       /\ walk'.statuses = walk.statuses \cup seen /\ walk'.offset = offset
       /\ walk'.over = over /\ walk'.ids = ids
  <2>1. walk.statuses \cup seen \in SUBSET JobStatus
    BY <1>3, <1>5
  <2> QED BY <1>2, <1>3, <1>9, <1>10, <2>1 DEF Walks
<1>12. Listed' = Listed \cup Summarised
  BY <1>9, <1>11 DEF Listed
<1>13. WalkInv'
  BY <1>1, <1>3, <1>11, <1>12 DEF ListingInv, WalkInv, Page, RecordsStay
<1>14. ReaderInv'
  <2>1. IdleReader \in Readers /\ IdleReader.pc = "idle" /\ IdleReader.kept = {}
        /\ IdleReader.taken = <<>> /\ IdleReader.listed = <<>>
    BY EmptySeq DEF IdleReader, Reader, Readers, Pcs
  <2>2. DOMAIN <<>> = {} /\ ToSet(<<>>) = {}
    BY NoElements
  <2>3. (Snapshot \cup Page)' = {}
    BY <1>2, <2>1, <2>2 DEF Snapshot, Page, Summarised
  <2> QED BY <1>2, <2>1, <2>3, FS_EmptySet DEF ReaderInv
<1>15. ASSUME \A i, k \in DOMAIN reader.listed :
                reader.listed[i].job = reader.listed[k].job => i = k
       PROVE  IsInjective(page)
  BY <1>4, <1>7, <1>15 DEF IsInjective
<1>16. walk'.over <=> ~ reader.more
  BY <1>11 DEF over
<1>17. RecordsInv' /\ ReaderInv' /\ WalkInv'
  BY <1>1, <1>13, <1>14
<1>18. /\ walk'.statuses = walk.statuses \cup {reader.listed[i].status : i \in DOMAIN reader.listed}
       /\ walk'.offset = IF reader.more THEN reader.end ELSE 0
  BY <1>11 DEF seen, offset
<1>19. IsInjective(walk.ids) /\ Listed \cap Summarised = {}
            /\ (\A i, k \in DOMAIN reader.listed :
                  reader.listed[i].job = reader.listed[k].job => i = k)
          => IsInjective(walk'.ids)
  BY <1>9, <1>11, <1>15
<1> QED BY <1>1, <1>2, <1>3, <1>11, <1>12, <1>16, <1>17, <1>18, <1>19 DEF ListingInv

LEMMA LosePageStep ==
  ASSUME ListingInv, LosePage
  PROVE  ListingInv' /\ RecordsStay /\ walk' = walk /\ reader' = IdleReader
<1>1. RecordsInv' /\ RecordsStay
  BY RecordsInvStays DEF LosePage, ListingInv
<1>2. walk' = walk /\ reader' = IdleReader
  BY DEF LosePage
<1>3. IdleReader \in Readers /\ IdleReader.pc = "idle" /\ IdleReader.kept = {}
      /\ IdleReader.taken = <<>> /\ IdleReader.listed = <<>>
  BY EmptySeq DEF IdleReader, Reader, Readers, Pcs
<1>4. DOMAIN <<>> = {} /\ ToSet(<<>>) = {}
  BY NoElements
<1>5. (Snapshot \cup Page)' = {}
  BY <1>2, <1>3, <1>4 DEF Snapshot, Page, Summarised
<1>6. ReaderInv'
  BY <1>2, <1>3, <1>5, FS_EmptySet DEF ReaderInv
<1>7. WalkInv'
  BY <1>1, <1>2 DEF ListingInv, WalkInv, Listed, RecordsStay
<1> QED BY <1>1, <1>2, <1>6, <1>7 DEF ListingInv

LEMMA WriteStepKeeps ==
  ASSUME ListingInv, RecordsInv', WriteStep
  PROVE  ListingInv'
<1>1. ReaderInv'
  BY DEF ListingInv, ReaderInv, WriteStep, Snapshot, Page, Summarised
<1>2. WalkInv'
  BY DEF ListingInv, WalkInv, WriteStep, Listed
<1> QED BY <1>1, <1>2 DEF ListingInv
-----------------------------------------------------------------------------
(***************************************************************************)
(* Type correctness.                                                       *)
(***************************************************************************)
LEMMA ListingInvIsInductive ==
  ASSUME ListingInv, [ListingNext]_listingVars
  PROVE  ListingInv'
<1>1. CASE Write
  BY <1>1, EveryWriteIsAWriteStep, WriteStepKeeps
<1>2. ASSUME NEW filter \in Filters, NEW sort \in Sorts, StartWalk(filter, sort)
      PROVE  ListingInv'
  BY <1>2, StartWalkStep
<1>3. CASE TakeRecords \/ FilterRecord \/ CutWindow \/ Summarise \/ DeliverPage \/ LosePage
  BY <1>3, TakeRecordsStep, FilterRecordStep, CutWindowStep, SummariseStep, DeliverPageStep,
     LosePageStep
<1>4. CASE UNCHANGED listingVars
  BY <1>4, RecordsInvStays
     DEF listingVars, ListingInv, ReaderInv, WalkInv, Snapshot, Page, Summarised, Listed, RecordsStay
<1> QED BY <1>1, <1>2, <1>3, <1>4 DEF ListingNext

LEMMA ListingInvHoldsAtFirst ==
  ASSUME ListingInit
  PROVE  ListingInv
<1>1. DOMAIN <<>> = {} /\ ToSet(<<>>) = {} /\ IsInjective(<<>>)
  BY NoElements
<1>2. Stored = {} /\ issued = {} /\ JobTypeOK
  BY EmptySeq DEF ListingInit, JobInit, Stored, Known, NoRecord, JobTypeOK
<1>3. RecordsInv
  BY <1>1, <1>2, EmptySeq, BoundsAssumption DEF ListingInit, RecordsInv, AnyStatus
<1>4. IdleReader \in Readers /\ IdleReader.pc = "idle" /\ IdleReader.kept = {}
      /\ IdleReader.taken = <<>> /\ IdleReader.listed = <<>>
  BY EmptySeq DEF IdleReader, Reader, Readers, Pcs
<1>5. ReaderInv
  BY <1>1, <1>4, FS_EmptySet DEF ListingInit, ReaderInv, Snapshot, Page, Summarised
<1>6. NoWalk \in Walks /\ NoWalk.ids = <<>> /\ NoWalk.expected = {}
  BY EmptySeq DEF NoWalk, Walks, Sorts
<1>7. WalkInv
  BY <1>1, <1>6 DEF ListingInit, WalkInv, Listed
<1> QED BY <1>3, <1>5, <1>7 DEF ListingInv

LEMMA ListingInvariant == ListingSpec => []ListingInv
<1>1. ListingInit => ListingInv
  BY ListingInvHoldsAtFirst
<1>2. ListingInv /\ [ListingNext]_listingVars => ListingInv'
  BY ListingInvIsInductive
<1> QED BY <1>1, <1>2, PTL DEF ListingSpec

\* Whatever is written between the steps of a reader, its copies of the records
\* and the pages of a walk stay well formed, and the dictionary's order holds
\* the ids of the stored records, each once.
THEOREM ListingsAreWellTyped == ListingSpec => []ListingTypeOK
<1>1. ListingInv => ListingTypeOK
  <2> SUFFICES ASSUME ListingInv PROVE ListingTypeOK
    OBVIOUS
  <2>1. \A j \in JobIds : Known(j) <=> \E i \in DOMAIN order : order[i] = j
    <3>1. ToSet(order) = Stored
      BY DEF ListingInv, RecordsInv
    <3> QED BY <3>1 DEF ToSet, Stored
  <2>2. /\ order \in Seq(JobIds) /\ IsInjective(order)
        /\ created \in [JobIds -> 0 .. MaxTime] /\ held \in [JobIds -> AnyStatus]
    BY DEF ListingInv, RecordsInv
  <2>3. reader.pc \in Pcs /\ reader.taken \in Seq(JobIds) /\ reader.kept \subseteq JobIds
    BY DEF ListingInv, ReaderInv, Readers
  <2>4. /\ walk.filter \in Filters \cup {{}} /\ walk.sort \in Sorts /\ walk.ids \in Seq(JobIds)
        /\ walk.statuses \subseteq JobStatus /\ walk.expected \subseteq JobIds
    BY DEF ListingInv, WalkInv, Walks
  <2> QED BY <2>1, <2>2, <2>3, <2>4 DEF ListingTypeOK
<1> QED BY <1>1, ListingInvariant, PTL
-----------------------------------------------------------------------------
(***************************************************************************)
(* A page shows what its filter asks for.  The status of a job is read     *)
(* twice, so that this needs a filter no job leaves: a job that was found  *)
(* wanted, stored or not by now, still is.                                 *)
(***************************************************************************)
ExactInv ==
  Stable(walk.filter) /\ walk.filter # {} =>
    /\ walk.statuses \subseteq walk.filter
    /\ \A j \in reader.kept : held[j] \in walk.filter
    /\ reader.pc = "summarise" =>
         /\ \A j \in ToSet(reader.taken) : held[j] \in walk.filter
         /\ \A i \in DOMAIN reader.listed : reader.listed[i].status \in walk.filter

\* What a status of a stable filter moves to is in the filter.
LEMMA StableMoves ==
  ASSUME NEW filter, Stable(filter), NEW from \in filter, NEW to,
         from = to \/ <<from, to>> \in AllowedTransitions
  PROVE  to \in filter
<1>1. CASE <<from, to>> \in AllowedTransitions
  <2>1. <<from, to>>[1] = from /\ <<from, to>>[2] = to
    OBVIOUS
  <2> QED BY <1>1, <2>1 DEF Stable
<1> QED BY <1>1

LEMMA ExactInvIsInductive ==
  ASSUME ListingInv, ExactInv, [ListingNext]_listingVars
  PROVE  ExactInv'
<1> USE DEF ExactInv
<1> SUFFICES ASSUME Stable(walk.filter)', walk'.filter # {}
             PROVE  /\ walk'.statuses \subseteq walk'.filter
                    /\ \A j \in reader'.kept : held'[j] \in walk'.filter
                    /\ reader'.pc = "summarise" =>
                         /\ \A j \in ToSet(reader'.taken) : held'[j] \in walk'.filter
                         /\ \A i \in DOMAIN reader'.listed :
                              reader'.listed[i].status \in walk'.filter
  OBVIOUS
<1>1. walk'.filter = walk.filter => Stable(walk.filter)
  BY DEF Stable
<1>2. IdleReader.pc = "idle" /\ IdleReader.kept = {}
  BY DEF IdleReader, Reader
<1>3. CASE Write
  <2>1. WriteStep
    BY <1>3, EveryWriteIsAWriteStep
  <2>2. /\ reader' = reader /\ walk'.filter = walk.filter /\ walk'.statuses = walk.statuses
        /\ \A j \in issued : held'[j] = held[j] \/ <<held[j], held'[j]>> \in AllowedTransitions
    BY <2>1 DEF WriteStep
  <2>3. \A j \in issued : held[j] \in walk.filter => held'[j] \in walk.filter
    BY <1>1, <2>2, StableMoves
  <2>4. reader.kept \subseteq issued /\ ToSet(reader.taken) \subseteq issued
    BY DEF ListingInv, ReaderInv, Snapshot
  <2> QED BY <1>1, <2>2, <2>3, <2>4
<1>4. ASSUME NEW filter \in Filters, NEW sort \in Sorts, StartWalk(filter, sort)
      PROVE  ExactInv'
  BY <1>2, <1>4, StartWalkStep
<1>5. CASE TakeRecords
  BY <1>1, <1>5, TakeRecordsStep DEF RecordsStay
<1>6. CASE FilterRecord
  <2>1. /\ walk' = walk /\ RecordsStay /\ reader'.pc = "filter"
        /\ \E j \in ToSet(reader.taken) :
             reader'.kept = IF Wanted(walk.filter, held[j]) THEN reader.kept \cup {j} ELSE reader.kept
    BY <1>6, FilterRecordStep
  <2> QED BY <1>1, <2>1 DEF RecordsStay, Wanted
<1>7. CASE CutWindow
  <2>1. /\ walk' = walk /\ RecordsStay /\ reader'.kept = {} /\ reader'.listed = <<>>
        /\ ToSet(reader'.taken) \subseteq reader.kept
    BY <1>7, CutWindowStep
  <2> QED BY <1>1, <2>1, NoElements DEF RecordsStay
<1>8. CASE Summarise
  <2>1. /\ walk' = walk /\ RecordsStay /\ reader.pc = "summarise" /\ reader'.kept = reader.kept
        /\ reader.taken # <<>> /\ reader'.taken = Tail(reader.taken)
    BY <1>8, SummariseStep
  <2>2. PICK j \in ToSet(reader.taken) :
          reader'.listed = Append(reader.listed, [job |-> j, status |-> held[j]])
    BY <1>8, SummariseStep
  <2>3. reader.taken \in Seq(JobIds) /\ reader.listed \in Seq(Summaries)
    BY DEF ListingInv, ReaderInv, Readers
  <2>4. ToSet(Tail(reader.taken)) \subseteq ToSet(reader.taken)
    BY <2>1, <2>3, ElementsOfTail
  <2>5. \A i \in DOMAIN reader'.listed : \/ i \in DOMAIN reader.listed /\ reader'.listed[i] = reader.listed[i]
                                         \/ reader'.listed[i].status = held[j]
    <3>1. [job |-> j, status |-> held[j]] \in Summaries
      BY DEF ListingInv, ReaderInv, RecordsInv, Snapshot, Readers, Summaries, JobTypeOK
    <3>2. PICK n \in Nat : n = Len(reader.listed) /\ DOMAIN reader.listed = 1 .. n
      BY <2>3, LenProperties
    <3>3. /\ DOMAIN reader'.listed = 1 .. (n + 1)
          /\ \A i \in 1 .. n : reader'.listed[i] = reader.listed[i]
          /\ reader'.listed[n + 1] = [job |-> j, status |-> held[j]]
      BY <2>2, <2>3, <3>1, <3>2, AppendProperties, LenProperties
    <3> QED BY <3>2, <3>3
  <2> QED BY <1>1, <2>1, <2>4, <2>5 DEF RecordsStay
<1>9. CASE DeliverPage
  BY <1>1, <1>2, <1>9, DeliverPageStep
<1>10. CASE LosePage
  BY <1>1, <1>2, <1>10, LosePageStep
<1>11. CASE UNCHANGED listingVars
  BY <1>1, <1>11 DEF listingVars
<1> QED BY <1>3, <1>4, <1>5, <1>6, <1>7, <1>8, <1>9, <1>10, <1>11 DEF ListingNext

\* A page whose filter no job leaves shows wanted jobs only, although each
\* status is read twice without the lock.
THEOREM StableFiltersAreExact == ListingSpec => []StableFilterIsExact
<1>1. ListingInit => ExactInv
  BY NoElements DEF ListingInit, ExactInv, NoWalk
<1>2. ListingInv /\ ExactInv /\ [ListingNext]_listingVars => ExactInv'
  BY ExactInvIsInductive
<1>3. ExactInv => StableFilterIsExact
  BY DEF ExactInv, StableFilterIsExact
<1> QED BY <1>1, <1>2, <1>3, ListingInvariant, PTL DEF ListingSpec
-----------------------------------------------------------------------------
(***************************************************************************)
(* A walk skips nothing.  Under a filter that no job leaves, and as long   *)
(* as no record is deleted, the matching jobs only grow in number, so that *)
(* a job never comes to stand further to the front: one the walk has still *)
(* to list stays at or behind the offset of the next page.                 *)
(***************************************************************************)
Matching == {j \in Stored : Wanted(walk.filter, held[j])}

\* The matching jobs that the reader has kept, or will keep.
Keeping == reader.kept \cup (ToSet(reader.taken) \cap Matching)

Missing == walk.expected \ Listed

\* The page being made shows the job, or one of the next pages does.
Covered(j) == j \in Page \/ (reader.more /\ Rank(Matching, j) >= reader.end)

\* The walk has not passed the job by.
NotPassed(j) ==
  /\ Rank(Matching, j) >= walk.offset
  /\ reader.pc = "filter" => j \in Keeping /\ Rank(Keeping, j) >= walk.offset
  /\ reader.pc = "summarise" => Covered(j)

SkipInv ==
  Stable(walk.filter) /\ ~ walk.shrunk =>
    /\ walk.expected \cup reader.kept \subseteq Matching
    /\ ToSet(reader.taken) \subseteq Stored
    /\ walk.over => Missing = {}
    /\ ~ walk.over => \A j \in Missing : NotPassed(j)

LEMMA RankAcrossAStep ==
  ASSUME NEW T, NEW U, IsFiniteSet(U), NEW j,
         \A k \in T : Before(walk.sort, k, j) => k \in U /\ Before(walk.sort, k, j)'
  PROVE  Rank(T, j) <= Cardinality({k \in U : Before(walk.sort, k, j)'})
<1> DEFINE later == {k \in U : Before(walk.sort, k, j)'}
<1>1. Ahead(T, j) \subseteq later /\ later \subseteq U
  BY DEF Ahead
<1>2. IsFiniteSet(later)
  BY <1>1, FS_Subset
<1> HIDE DEF later
<1>3. Cardinality(Ahead(T, j)) <= Cardinality(later)
  BY <1>1, <1>2, FS_Subset
<1> QED BY <1>3 DEF Rank, later

Finite ==
  /\ IsFiniteSet(Stored) /\ Stored \subseteq issued /\ issued \subseteq JobIds
  /\ IsFiniteSet(Matching) /\ IsFiniteSet(Keeping) /\ Keeping \subseteq JobIds
  /\ \A j \in JobIds : Rank(Matching, j) \in Nat /\ Rank(Keeping, j) \in Nat
  /\ walk.offset \in Nat /\ reader.end \in Nat

LEMMA ListingIsFinite == ListingInv => Finite
<1> SUFFICES ASSUME ListingInv PROVE Finite
  OBVIOUS
<1>1. /\ order \in Seq(JobIds) /\ ToSet(order) = Stored /\ Stored \subseteq issued
      /\ issued \subseteq JobIds /\ Dated
  BY DEF ListingInv, RecordsInv, JobTypeOK, Dated, WalkInv, Walks
<1>2. IsFiniteSet(Stored)
  BY <1>1, ElementsOfSeq
<1>3. Matching \subseteq Stored /\ IsFiniteSet(Matching)
  BY <1>2, FS_Subset DEF Matching
<1>4. /\ IsFiniteSet(reader.kept) /\ reader.kept \subseteq JobIds
      /\ walk.offset \in Nat /\ reader.end \in Nat
  BY DEF ListingInv, ReaderInv, Readers, WalkInv, Walks
<1>5. ToSet(reader.taken) \cap Matching \subseteq Matching
  OBVIOUS
<1>6. IsFiniteSet(ToSet(reader.taken) \cap Matching)
  BY <1>3, <1>5, FS_Subset
<1>7. IsFiniteSet(Keeping) /\ Keeping \subseteq JobIds
  BY <1>1, <1>3, <1>4, <1>6, FS_Union DEF Keeping
<1>8. Matching \in SUBSET JobIds /\ Keeping \in SUBSET JobIds
  BY <1>1, <1>3, <1>7
<1>9. \A j \in JobIds : Rank(Matching, j) \in Nat /\ Rank(Keeping, j) \in Nat
  BY <1>1, <1>3, <1>7, <1>8, RankGrows
<1> QED BY <1>1, <1>2, <1>3, <1>4, <1>7, <1>9 DEF Finite

LEMMA ListingStaysFinite == ListingInv' => Finite'
BY ListingIsFinite, PTL

\* A write changes the ranks of no pair of jobs that were there before it.
LEMMA WriteKeepsOrder ==
  ASSUME ListingInv, WriteStep, NEW i \in issued, NEW j \in issued
  PROVE  Before(walk.sort, i, j)' <=> Before(walk.sort, i, j)
BY DEF WriteStep, Before

LEMMA WriteKeepsSkipInv ==
  ASSUME ListingInv, ListingInv', SkipInv, WriteStep
  PROVE  SkipInv'
<1> SUFFICES ASSUME Stable(walk.filter)', ~ walk'.shrunk
             PROVE  /\ (walk.expected \cup reader.kept \subseteq Matching)'
                    /\ (ToSet(reader.taken) \subseteq Stored)'
                    /\ (walk.over => Missing = {})'
                    /\ (~ walk.over => \A j \in Missing : NotPassed(j))'
  BY DEF SkipInv
<1>1. /\ reader' = reader /\ walk'.filter = walk.filter /\ walk'.over = walk.over
      /\ walk'.ids = walk.ids /\ walk'.expected = walk.expected /\ walk'.offset = walk.offset
      /\ Stored \subseteq Stored' /\ ~ walk.shrunk /\ ~ walk.over
      /\ \A j \in issued : held'[j] = held[j] \/ <<held[j], held'[j]>> \in AllowedTransitions
  BY DEF WriteStep
<1>2. Stable(walk.filter)
  BY <1>1 DEF Stable
<1>3. /\ walk.expected \cup reader.kept \subseteq Matching /\ ToSet(reader.taken) \subseteq Stored
      /\ \A j \in Missing : NotPassed(j)
  BY <1>1, <1>2 DEF SkipInv
<1>4. Stored \subseteq issued /\ issued \subseteq JobIds
  BY ListingIsFinite DEF Finite
<1>5. Matching \subseteq Matching'
  <2>1. ASSUME NEW j \in Matching
        PROVE  j \in Stored' /\ Wanted(walk.filter, held'[j])
    BY <1>1, <1>2, <1>4, <2>1, StableMoves DEF Matching, Wanted
  <2> QED BY <1>1, <2>1 DEF Matching
<1>6. Missing' = Missing /\ Missing \subseteq issued /\ Missing \subseteq walk.expected
  BY <1>1 DEF Missing, Listed, ListingInv, WalkInv
<1>7. Keeping \subseteq Keeping' /\ Keeping \subseteq Matching /\ Matching \subseteq issued
  BY <1>1, <1>3, <1>4, <1>5 DEF Keeping, Matching
<1>8. IsFiniteSet(Matching') /\ IsFiniteSet(Keeping')
      /\ \A j \in JobIds : Rank(Matching, j)' \in Nat /\ Rank(Keeping, j)' \in Nat
  BY ListingStaysFinite DEF Finite
<1>9. ASSUME NEW j \in Missing
      PROVE  Rank(Matching, j) <= Rank(Matching, j)' /\ Rank(Keeping, j) <= Rank(Keeping, j)'
  <2>1. \A k \in Matching : Before(walk.sort, k, j) => k \in Matching' /\ Before(walk.sort, k, j)'
    BY <1>5, <1>6, <1>7, WriteKeepsOrder
  <2>2. \A k \in Keeping : Before(walk.sort, k, j) => k \in Keeping' /\ Before(walk.sort, k, j)'
    BY <1>6, <1>7, WriteKeepsOrder
  <2>3. Rank(Matching, j) <= Cardinality({k \in Matching' : Before(walk.sort, k, j)'})
    BY <1>8, <2>1, RankAcrossAStep
  <2>4. Rank(Keeping, j) <= Cardinality({k \in Keeping' : Before(walk.sort, k, j)'})
    BY <1>8, <2>2, RankAcrossAStep
  <2> QED BY <2>3, <2>4 DEF Rank, Ahead
<1>10. ASSUME NEW j \in Missing
       PROVE  NotPassed(j)'
  <2>1. NotPassed(j) /\ Page' = Page /\ j \in JobIds
    BY <1>1, <1>3, <1>4, <1>6 DEF Page, Summarised
  <2> DEFINE r == Rank(Matching, j)
             q == Rank(Keeping, j)
             s == Rank(Matching, j)'
             p == Rank(Keeping, j)'
  <2>2. r \in Nat /\ q \in Nat /\ s \in Nat /\ p \in Nat /\ r <= s /\ q <= p
    BY <1>8, <1>9, <2>1, ListingIsFinite DEF Finite
  <2>3. walk.offset \in Nat /\ reader.end \in Nat
    BY ListingIsFinite DEF Finite
  <2>4. /\ r >= walk.offset
        /\ reader.pc = "filter" => j \in Keeping /\ q >= walk.offset
        /\ reader.pc = "summarise" => j \in Page \/ (reader.more /\ r >= reader.end)
    BY <2>1 DEF NotPassed, Covered
  <2>5. /\ s >= walk.offset
        /\ reader.pc = "filter" => j \in Keeping' /\ p >= walk.offset
        /\ reader.pc = "summarise" => j \in Page \/ (reader.more /\ s >= reader.end)
    <3> HIDE DEF r, q, s, p
    <3> QED BY <1>7, <2>2, <2>3, <2>4
  <2> QED BY <1>1, <2>1, <2>5 DEF NotPassed, Covered
<1> QED BY <1>1, <1>3, <1>5, <1>6, <1>10
\* Summarising a record of the page moves it from one part to the other.
LEMMA SummariseKeepsPage ==
  ASSUME ListingInv, reader.taken # <<>>, reader'.taken = Tail(reader.taken),
         NEW j, j = Head(reader.taken),
         reader'.listed = Append(reader.listed, [job |-> j, status |-> held[j]])
  PROVE  /\ Page' = Page
         /\ ToSet(reader.taken) = ToSet(reader'.taken) \cup {j}
         /\ Summarised' = Summarised \cup {j}
         /\ \E n \in Nat :
              /\ DOMAIN reader.listed = 1 .. n /\ DOMAIN reader'.listed = 1 .. (n + 1)
              /\ \A i \in 1 .. n : reader'.listed[i] = reader.listed[i]
              /\ reader'.listed[n + 1] = [job |-> j, status |-> held[j]]
<1>1. /\ reader.taken \in Seq(JobIds) /\ reader.listed \in Seq(Summaries)
      /\ ToSet(reader.taken) \subseteq issued
  BY DEF ListingInv, ReaderInv, Readers, Snapshot
<1>2. ToSet(reader.taken) = ToSet(reader'.taken) \cup {j} /\ j \in JobIds
  BY <1>1, ElementsOfTail
<1>3. [job |-> j, status |-> held[j]] \in Summaries
  BY <1>1, <1>2 DEF ListingInv, RecordsInv, Summaries
<1>4. PICK n \in Nat : n = Len(reader.listed) /\ DOMAIN reader.listed = 1 .. n
  BY <1>1, LenProperties
<1>5. /\ DOMAIN reader'.listed = 1 .. (n + 1)
      /\ \A i \in 1 .. n : reader'.listed[i] = reader.listed[i]
      /\ reader'.listed[n + 1] = [job |-> j, status |-> held[j]]
  BY <1>1, <1>3, <1>4, AppendProperties, LenProperties
<1>6. Summarised' = Summarised \cup {j}
  <2>1. n + 1 \in 1 .. (n + 1) /\ \A i \in 1 .. (n + 1) : i \in 1 .. n \/ i = n + 1
    OBVIOUS
  <2>2. \A i \in 1 .. n : i \in 1 .. (n + 1)
    OBVIOUS
  <2>3. reader'.listed[n + 1].job = j
    BY <1>5
  <2>4. Summarised \subseteq Summarised'
    BY <1>4, <1>5, <2>2 DEF Summarised
  <2>5. j \in Summarised'
    BY <1>5, <2>1, <2>3 DEF Summarised
  <2>6. Summarised' \subseteq Summarised \cup {j}
    BY <1>4, <1>5, <2>1, <2>3 DEF Summarised
  <2> QED BY <2>4, <2>5, <2>6
<1>7. Page' = Page
  BY <1>2, <1>6 DEF Page
<1> QED BY <1>2, <1>4, <1>5, <1>6, <1>7
\* A step of the reader or the client writes nothing, so that jobs keep their
\* ranks among the matching ones.
LEMMA RankStays ==
  ASSUME RecordsStay, walk'.filter = walk.filter, walk'.sort = walk.sort
  PROVE  /\ Matching' = Matching /\ Stored' = Stored
         /\ \A j : Rank(Matching, j)' = Rank(Matching, j)
         /\ \A j : Rank(Stored, j)' = Rank(Stored, j)
         /\ Keeping' = Keeping => \A j : Rank(Keeping, j)' = Rank(Keeping, j)
<1>1. Matching' = Matching /\ Stored' = Stored
  BY DEF RecordsStay, Matching
<1>2. \A k, j : Before(walk.sort, k, j)' <=> Before(walk.sort, k, j)
  BY DEF RecordsStay, Before
<1>3. \A j : Ahead(Matching, j)' = Ahead(Matching, j)
  BY <1>1, <1>2 DEF Ahead
<1>4. \A j : Ahead(Stored, j)' = Ahead(Stored, j)
  BY <1>1, <1>2 DEF Ahead
<1>5. Keeping' = Keeping => \A j : Ahead(Keeping, j)' = Ahead(Keeping, j)
  BY <1>2 DEF Ahead
<1> QED BY <1>1, <1>3, <1>4, <1>5 DEF Rank

LEMMA ReaderKeepsSkipInv ==
  ASSUME ListingInv, SkipInv,
         TakeRecords \/ FilterRecord \/ CutWindow \/ Summarise \/ LosePage
  PROVE  SkipInv'
<1>1. RecordsStay /\ walk' = walk
  BY TakeRecordsStep, FilterRecordStep, CutWindowStep, SummariseStep, LosePageStep
<1> SUFFICES ASSUME Stable(walk.filter), ~ walk.shrunk
             PROVE  /\ walk.expected \cup reader'.kept \subseteq Matching
                    /\ ToSet(reader'.taken) \subseteq Stored
                    /\ walk.over => Missing = {}
                    /\ ~ walk.over => \A j \in Missing : NotPassed(j)'
  <2>1. /\ Matching' = Matching /\ Stored' = Stored /\ Missing' = Missing
        /\ Stable(walk.filter)' <=> Stable(walk.filter)
    BY <1>1, RankStays DEF Missing, Listed, Stable
  <2> QED BY <1>1, <2>1 DEF SkipInv
<1>2. /\ walk.expected \cup reader.kept \subseteq Matching /\ ToSet(reader.taken) \subseteq Stored
      /\ walk.over => Missing = {}
      /\ ~ walk.over => \A j \in Missing : NotPassed(j)
  BY DEF SkipInv
<1>3. \A j : Rank(Matching, j)' = Rank(Matching, j)
  BY <1>1, RankStays
<1>4. Missing \subseteq Matching /\ Missing \subseteq JobIds /\ Matching \subseteq Stored
  BY <1>2, ListingIsFinite DEF Missing, Matching, Finite
<1>5. \A j \in Missing : ~ walk.over => Rank(Matching, j) >= walk.offset
  BY <1>2 DEF NotPassed
<1>6. IdleReader.pc = "idle" /\ IdleReader.kept = {} /\ IdleReader.taken = <<>>
  BY DEF IdleReader, Reader
<1>7. CASE TakeRecords
  <2>1. /\ reader'.pc = "filter" /\ ToSet(reader'.taken) = Stored /\ reader'.kept = {}
        /\ ~ walk.over
    BY <1>7, TakeRecordsStep
  <2>2. Matching' = Matching /\ Keeping' = Matching
    BY <1>1, <1>4, <2>1, RankStays DEF Keeping
  <2>3. \A j : Rank(Keeping, j)' = Rank(Matching, j)
    <3>1. \A k, j : Before(walk.sort, k, j)' <=> Before(walk.sort, k, j)
      BY <1>1 DEF RecordsStay, Before
    <3>2. \A j : Ahead(Keeping, j)' = Ahead(Matching, j)
      BY <2>2, <3>1 DEF Ahead
    <3> QED BY <3>2 DEF Rank
  <2>4. ASSUME NEW j \in Missing
        PROVE  NotPassed(j)'
    BY <1>1, <1>3, <1>4, <1>5, <2>1, <2>2, <2>3, <2>4 DEF NotPassed
  <2> QED BY <1>2, <2>1, <2>4
<1>8. CASE FilterRecord
  <2>1. reader.pc = "filter" /\ reader'.pc = "filter"
    BY <1>8, FilterRecordStep
  <2>2. PICK j \in ToSet(reader.taken) :
          /\ ToSet(reader.taken) = ToSet(reader'.taken) \cup {j}
          /\ reader'.kept = IF Wanted(walk.filter, held[j]) THEN reader.kept \cup {j} ELSE reader.kept
    BY <1>8, FilterRecordStep
  <2>3. Wanted(walk.filter, held[j]) <=> j \in Matching
    BY <1>2 DEF Matching
  <2>4. Matching' = Matching
    BY <1>1, RankStays
  <2>5. Keeping' = Keeping
    BY <2>2, <2>3, <2>4 DEF Keeping
  <2>6. \A i : Rank(Keeping, i)' = Rank(Keeping, i)
    BY <1>1, <2>5, RankStays
  <2>7. reader'.kept \subseteq Matching /\ ToSet(reader'.taken) \subseteq Stored
    BY <1>2, <2>2, <2>3
  <2>8. ASSUME NEW i \in Missing, ~ walk.over
        PROVE  NotPassed(i)'
    BY <1>1, <1>2, <1>3, <2>1, <2>5, <2>6, <2>8 DEF NotPassed
  <2> QED BY <1>2, <2>7, <2>8
<1>9. CASE CutWindow
  <2>1. /\ reader.pc = "filter" /\ reader.taken = <<>> /\ reader'.pc = "summarise"
        /\ reader'.kept = {}
    BY <1>9, CutWindowStep
  <2>2. PICK from \in Nat, n \in Nat :
          /\ from = IF walk.offset > n THEN n ELSE walk.offset
          /\ n = Cardinality(reader.kept)
          /\ reader'.end = NextOffset(from, n)
          /\ reader'.more <=> NextOffset(from, n) < n
          /\ ToSet(reader'.taken) = {j \in reader.kept : /\ from <= Rank(reader.kept, j)
                                                         /\ Rank(reader.kept, j) < reader'.end}
    BY <1>9, CutWindowStep
  <2>3. Keeping = reader.kept
    BY <2>1, NoElements DEF Keeping
  <2>4. Dated /\ IsFiniteSet(reader.kept) /\ reader.kept \in SUBSET JobIds
    BY DEF ListingInv, RecordsInv, ReaderInv, Readers, WalkInv, Walks, Dated
  <2>5. \A j \in reader.kept : Rank(reader.kept, j) \in Nat /\ Rank(reader.kept, j) < n
    BY <2>2, <2>4, RankGrows
  <2>6. walk.offset \in Nat /\ \A j \in JobIds : Rank(Matching, j) \in Nat
    BY ListingIsFinite DEF Finite
  <2>7. IsFiniteSet(Matching)
    BY ListingIsFinite DEF Finite
  <2>8. ASSUME NEW j \in Missing, ~ walk.over
        PROVE  NotPassed(j)'
    <3> DEFINE r == Rank(reader.kept, j)
               s == Rank(Matching, j)
               e == NextOffset(from, n)
    <3>1. j \in reader.kept /\ r >= walk.offset
      BY <1>2, <2>1, <2>3, <2>8 DEF NotPassed
    <3>2. r \in Nat /\ r < n /\ s \in Nat
      BY <1>4, <2>5, <2>6, <3>1
    <3>3. r <= s
      BY <1>2, <2>7, RankOfLarger
    <3>4. e \in Nat
      BY <2>2, <2>6, PageEnds
    <3>5. (from <= r /\ r < e) \/ (e < n /\ s >= e)
      <4> HIDE DEF r, s, e
      <4> QED BY <2>2, <2>6, <3>1, <3>2, <3>3, <3>4
    <3>6. j \in ToSet(reader'.taken) \/ (reader'.more /\ s >= reader'.end)
      BY <2>2, <3>1, <3>5
    <3>7. Covered(j)'
      BY <1>3, <3>6 DEF Covered, Page
    <3> QED BY <1>1, <1>3, <1>5, <2>1, <2>8, <3>7 DEF NotPassed
  <2>9. ToSet(reader'.taken) \subseteq Stored
    BY <1>2, <1>4, <2>2
  <2> QED BY <1>2, <2>1, <2>8, <2>9
<1>10. CASE Summarise
  <2>1. /\ reader.pc = "summarise" /\ reader'.pc = "summarise" /\ reader'.kept = reader.kept
        /\ reader'.end = reader.end /\ reader'.more = reader.more
        /\ reader.taken # <<>> /\ reader'.taken = Tail(reader.taken)
    BY <1>10, SummariseStep
  <2>2. PICK j \in ToSet(reader.taken) :
          /\ j = Head(reader.taken)
          /\ reader'.listed = Append(reader.listed, [job |-> j, status |-> held[j]])
    BY <1>10, SummariseStep
  <2>3. Page' = Page /\ ToSet(reader'.taken) \subseteq ToSet(reader.taken)
    BY <2>1, <2>2, SummariseKeepsPage
  <2>4. ASSUME NEW i \in Missing, ~ walk.over
        PROVE  NotPassed(i)'
    BY <1>1, <1>2, <1>3, <2>1, <2>3, <2>4 DEF NotPassed, Covered
  <2> QED BY <1>2, <2>1, <2>3, <2>4
<1>11. CASE LosePage
  <2>1. reader'.pc = "idle" /\ reader'.kept = {} /\ ToSet(reader'.taken) = {}
    BY <1>6, <1>11, LosePageStep, NoElements
  <2>2. ASSUME NEW i \in Missing, ~ walk.over
        PROVE  NotPassed(i)'
    BY <1>1, <1>3, <1>5, <2>1, <2>2 DEF NotPassed
  <2> QED BY <1>2, <2>1, <2>2
<1> QED BY <1>7, <1>8, <1>9, <1>10, <1>11
LEMMA DeliverPageKeepsSkipInv ==
  ASSUME ListingInv, SkipInv, DeliverPage
  PROVE  SkipInv'
<1>1. /\ RecordsStay /\ ~ walk.over
      /\ reader.pc = "summarise" /\ reader.taken = <<>> /\ reader' = IdleReader
      /\ walk'.filter = walk.filter /\ walk'.sort = walk.sort
      /\ walk'.expected = walk.expected /\ walk'.shrunk = walk.shrunk
      /\ walk'.offset = IF reader.more THEN reader.end ELSE 0
      /\ walk'.over <=> ~ reader.more
      /\ Listed' = Listed \cup Summarised
  BY DeliverPageStep
<1> SUFFICES ASSUME Stable(walk.filter), ~ walk.shrunk
             PROVE  /\ walk.expected \cup reader'.kept \subseteq Matching
                    /\ ToSet(reader'.taken) \subseteq Stored
                    /\ walk'.over => Missing' = {}
                    /\ ~ walk'.over => \A j \in Missing' : NotPassed(j)'
  <2>1. /\ Matching' = Matching /\ Stored' = Stored
        /\ Stable(walk.filter)' <=> Stable(walk.filter)
    BY <1>1, RankStays DEF Stable
  <2> QED BY <1>1, <2>1 DEF SkipInv
<1>2. /\ walk.expected \cup reader.kept \subseteq Matching
      /\ \A j \in Missing : NotPassed(j)
  BY <1>1 DEF SkipInv
<1>3. reader'.pc = "idle" /\ reader'.kept = {} /\ ToSet(reader'.taken) = {}
  BY <1>1, NoElements DEF IdleReader, Reader
<1>4. Missing' \subseteq Missing /\ Missing' \cap Page = {}
  BY <1>1, NoElements DEF Missing, Page
<1>5. ASSUME NEW j \in Missing'
      PROVE  reader.more /\ Rank(Matching, j) >= reader.end
  BY <1>1, <1>2, <1>4, <1>5 DEF NotPassed, Covered
<1>6. \A j : Rank(Matching, j)' = Rank(Matching, j)
  BY <1>1, RankStays
<1>7. ASSUME NEW j \in Missing'
      PROVE  NotPassed(j)'
  BY <1>1, <1>3, <1>5, <1>6, <1>7 DEF NotPassed
<1> QED BY <1>1, <1>2, <1>3, <1>5, <1>7

LEMMA StartWalkKeepsSkipInv ==
  ASSUME ListingInv, NEW filter \in Filters, NEW sort \in Sorts, StartWalk(filter, sort)
  PROVE  SkipInv'
<1>1. /\ RecordsStay /\ ListingInv' /\ reader' = IdleReader
      /\ walk'.filter = filter /\ ~ walk'.over /\ walk'.offset = 0
      /\ walk'.expected = {j \in Stored : Wanted(filter, held[j])}
  BY StartWalkStep
<1>2. Matching' = walk'.expected /\ Stored' = Stored
  BY <1>1 DEF Matching, RecordsStay
<1>3. reader'.pc = "idle" /\ reader'.kept = {} /\ ToSet(reader'.taken) = {}
  BY <1>1, NoElements DEF IdleReader, Reader
<1>4. Missing' \subseteq JobIds /\ \A j \in JobIds : Rank(Matching, j)' \in Nat
  BY <1>1, ListingStaysFinite DEF Finite, Missing, ListingInv, WalkInv, Walks
<1>5. ASSUME NEW j \in Missing'
      PROVE  NotPassed(j)'
  <2>1. Rank(Matching, j)' \in Nat
    BY <1>4
  <2>2. Rank(Matching, j)' >= walk'.offset
    BY <1>1, <2>1
  <2> QED BY <1>3, <2>2 DEF NotPassed
<1> QED BY <1>1, <1>2, <1>3, <1>5 DEF SkipInv

LEMMA SkipInvIsInductive ==
  ASSUME ListingInv, ListingInv', SkipInv, [ListingNext]_listingVars
  PROVE  SkipInv'
<1>1. CASE Write
  BY <1>1, EveryWriteIsAWriteStep, WriteKeepsSkipInv
<1>2. ASSUME NEW filter \in Filters, NEW sort \in Sorts, StartWalk(filter, sort)
      PROVE  SkipInv'
  BY <1>2, StartWalkKeepsSkipInv
<1>3. CASE TakeRecords \/ FilterRecord \/ CutWindow \/ Summarise \/ LosePage
  BY <1>3, ReaderKeepsSkipInv
<1>4. CASE DeliverPage
  BY <1>4, DeliverPageKeepsSkipInv
<1>5. CASE UNCHANGED listingVars
  <2>1. /\ reader' = reader /\ walk' = walk /\ created' = created /\ held' = held
        /\ Stored' = Stored
    BY <1>5 DEF listingVars, jobVars, Stored, Known
  <2>2. /\ Matching' = Matching /\ Page' = Page /\ Missing' = Missing
        /\ \A k, j : Before(walk.sort, k, j)' <=> Before(walk.sort, k, j)
    BY <2>1 DEF Matching, Page, Summarised, Missing, Listed, Before
  <2>3. Keeping' = Keeping
    BY <2>1, <2>2 DEF Keeping
  <2>4. \A j : Rank(Matching, j)' = Rank(Matching, j) /\ Rank(Keeping, j)' = Rank(Keeping, j)
    <3>1. \A j : Ahead(Matching, j)' = Ahead(Matching, j) /\ Ahead(Keeping, j)' = Ahead(Keeping, j)
      BY <2>2, <2>3 DEF Ahead
    <3> QED BY <3>1 DEF Rank
  <2>5. \A j : NotPassed(j)' <=> NotPassed(j)
    BY <2>1, <2>2, <2>3, <2>4 DEF NotPassed, Covered
  <2>6. Stable(walk.filter)' <=> Stable(walk.filter)
    BY <2>1 DEF Stable
  <2> QED BY <2>1, <2>2, <2>5, <2>6 DEF SkipInv
<1> QED BY <1>1, <1>2, <1>3, <1>4, <1>5 DEF ListingNext

\* A walk whose filter no job leaves lists every job that matched when it
\* began, whatever is created or moved on between its pages and however often a
\* page is lost, as long as no record is deleted.
THEOREM WalksSkipNothing == ListingSpec => []WalkSkipsNothing
<1>1. ListingInit => SkipInv
  <2> SUFFICES ASSUME ListingInit PROVE SkipInv
    OBVIOUS
  <2>1. /\ walk.expected = {} /\ walk.over = FALSE /\ reader.kept = {} /\ reader.taken = <<>>
    BY DEF ListingInit, NoWalk, IdleReader, Reader
  <2>2. Missing = {} /\ ToSet(reader.taken) = {}
    BY <2>1, NoElements DEF Missing
  <2> QED BY <2>1, <2>2 DEF SkipInv
<1>2. ListingInv /\ ListingInv' /\ SkipInv /\ [ListingNext]_listingVars => SkipInv'
  BY SkipInvIsInductive
<1>3. SkipInv => WalkSkipsNothing
  BY DEF SkipInv, WalkSkipsNothing, Missing, Listed, ToSet
<1> QED BY <1>1, <1>2, <1>3, ListingInvariant, PTL DEF ListingSpec
-----------------------------------------------------------------------------
(***************************************************************************)
(* An ascending walk repeats nothing.  Jobs created later stand behind     *)
(* those that were there, and a deletion only moves jobs to the front, so  *)
(* that a job the walk has listed stays before the offset of the next page.*)
(***************************************************************************)
Ascending == walk.filter = {} /\ walk.sort = "CREATED_AT_ASC" /\ ~ walk.tied

\* Among the jobs in T, those in U are before the offset.
Passed(T, U, offset) == \A j \in T \cap U : Rank(T, j) < offset

\* What the reader filters: a job created since it took the records is later.
Filtering ==
  /\ Passed(Snapshot, Listed, walk.offset)
  /\ \A j \in Stored \cap Snapshot, k \in Stored \ Snapshot : created[j] < created[k]

\* The page the reader makes: jobs that are not yet listed, each once.
Fresh ==
  /\ Page \cap Listed = {}
  /\ IsInjective(reader.taken) /\ Summarised \cap ToSet(reader.taken) = {}
  /\ \A i, k \in DOMAIN reader.listed : reader.listed[i].job = reader.listed[k].job => i = k
  /\ reader.more => Passed(Stored, Listed \cup Page, reader.end)

RepeatInv ==
  Ascending =>
    /\ IsInjective(walk.ids)
    /\ ~ walk.over =>
         /\ Passed(Stored, Listed, walk.offset)
         /\ reader.pc = "filter" => Filtering
         /\ reader.pc = "summarise" => Fresh

LEMMA WriteKeepsPassed ==
  ASSUME ListingInv, ListingInv', WriteStep, Ascending', NEW U \in SUBSET issued,
         NEW offset \in Nat, Passed(Stored, U, offset)
  PROVE  \A j \in Stored' \cap U : Rank(Stored, j)' < offset
<1>1. /\ Stored \subseteq issued /\ IsFiniteSet(Stored) /\ issued \subseteq JobIds
      /\ issued' \subseteq JobIds /\ Stored' \subseteq issued' /\ IsFiniteSet(Stored')
  BY ListingIsFinite, ListingStaysFinite DEF Finite
<1>2. /\ walk'.sort = "CREATED_AT_ASC" /\ walk.sort = "CREATED_AT_ASC"
      /\ \A j \in issued : created'[j] = created[j]
      /\ \A k \in Stored' \ Stored : k \notin issued /\ \A j \in Stored : created[j] < created'[k]
  BY DEF WriteStep, Ascending
<1>3. \A j \in JobIds : created[j] \in Nat /\ created'[j] \in Nat
  BY BoundsAssumption DEF ListingInv, RecordsInv
<1>4. ASSUME NEW j \in Stored' \cap U
      PROVE  Rank(Stored, j)' < offset
  <2>1. j \in Stored /\ j \in issued
    BY <1>1, <1>2
  <2>2. Rank(Stored, j) < offset
    BY <2>1 DEF Passed
  <2>3. ASSUME NEW k \in Stored', Before(walk.sort, k, j)'
        PROVE  k \in Stored /\ Before(walk.sort, k, j)
    <3>1. CASE k \in Stored
      BY <1>1, <2>1, <2>3, <3>1, WriteKeepsOrder
    <3>2. CASE k \notin Stored
      <4>1. created[j] < created'[k] /\ created'[j] = created[j] /\ k \in JobIds /\ j \in JobIds
        BY <1>1, <1>2, <2>1, <3>2
      <4>2. ~ Before(walk.sort, k, j)'
        BY <1>2, <1>3, <4>1 DEF Before
      <4> QED BY <2>3, <4>2
    <3> QED BY <3>1, <3>2
  <2> DEFINE later == {k \in Stored' : Before(walk.sort, k, j)'}
  <2>4. later \subseteq Ahead(Stored, j) /\ Ahead(Stored, j) \subseteq Stored
    BY <2>3 DEF Ahead
  <2>5. IsFiniteSet(Ahead(Stored, j))
    BY <1>1, <2>4, FS_Subset
  <2>6. IsFiniteSet(later) /\ Cardinality(later) <= Cardinality(Ahead(Stored, j))
    <3> HIDE DEF later
    <3> QED BY <2>4, <2>5, FS_Subset
  <2>7. Cardinality(later) \in Nat /\ Cardinality(Ahead(Stored, j)) \in Nat
    <3> HIDE DEF later
    <3> QED BY <2>5, <2>6, FS_CardinalityType
  <2>8. Cardinality(later) < offset
    <3> HIDE DEF later
    <3> QED BY <2>2, <2>6, <2>7 DEF Rank
  <2> QED BY <2>8 DEF Rank, Ahead
<1> QED BY <1>4

LEMMA WriteKeepsRepeatInv ==
  ASSUME ListingInv, ListingInv', RepeatInv, WriteStep
  PROVE  RepeatInv'
<1> SUFFICES ASSUME Ascending'
             PROVE  /\ IsInjective(walk'.ids)
                    /\ Passed(Stored, Listed, walk.offset)'
                    /\ reader'.pc = "filter" => Filtering'
                    /\ reader'.pc = "summarise" => Fresh'
  BY DEF RepeatInv
<1>1. /\ reader' = reader /\ walk'.ids = walk.ids /\ walk'.offset = walk.offset /\ ~ walk.over
      /\ Ascending
  BY DEF WriteStep, Ascending
<1>2. /\ IsInjective(walk.ids) /\ Passed(Stored, Listed, walk.offset)
      /\ reader.pc = "filter" => Filtering
      /\ reader.pc = "summarise" => Fresh
  BY <1>1 DEF RepeatInv
<1>3. Snapshot' = Snapshot /\ Page' = Page /\ Listed' = Listed /\ Summarised' = Summarised
  BY <1>1 DEF Snapshot, Page, Summarised, Listed
<1>4. /\ Snapshot \subseteq issued /\ Listed \cup Page \in SUBSET issued /\ Listed \in SUBSET issued
      /\ walk.offset \in Nat /\ reader.end \in Nat
  BY DEF ListingInv, ReaderInv, Readers, WalkInv, Walks
<1>5. /\ Stored \subseteq issued /\ issued \subseteq JobIds
      /\ \A k \in Stored' \ Stored : k \notin issued /\ \A j \in Stored : created[j] < created'[k]
      /\ \A j \in issued : created'[j] = created[j]
  BY ListingIsFinite DEF Finite, WriteStep, Ascending
<1>6. Passed(Stored, Listed, walk.offset)'
  <2>1. \A j \in Stored' \cap Listed : Rank(Stored, j)' < walk.offset
    BY <1>2, <1>4, WriteKeepsPassed
  <2> QED BY <1>1, <1>3, <2>1 DEF Passed
<1>7. ASSUME reader.pc = "filter"
      PROVE  Filtering'
  <2>1. \A j \in Snapshot : Rank(Snapshot, j)' = Rank(Snapshot, j)
    <3>1. \A k \in Snapshot, j \in Snapshot : Before(walk.sort, k, j)' <=> Before(walk.sort, k, j)
      BY <1>4, WriteKeepsOrder
    <3>2. \A j \in Snapshot : Ahead(Snapshot, j)' = Ahead(Snapshot, j)
      BY <1>3, <3>1 DEF Ahead
    <3> QED BY <3>2 DEF Rank
  <2>2. Passed(Snapshot, Listed, walk.offset)'
    BY <1>1, <1>2, <1>3, <1>7, <2>1 DEF Passed, Filtering
  <2>3. ASSUME NEW j \in Stored' \cap Snapshot, NEW k \in Stored' \ Snapshot
        PROVE  created'[j] < created'[k]
    <3>1. j \in Stored /\ j \in issued /\ created'[j] = created[j]
      BY <1>4, <1>5
    <3>2. CASE k \in Stored
      BY <1>2, <1>5, <1>7, <3>1, <3>2 DEF Filtering
    <3>3. CASE k \notin Stored
      BY <1>5, <3>1, <3>3
    <3> QED BY <3>2, <3>3
  <2> QED BY <1>3, <2>2, <2>3 DEF Filtering
<1>8. ASSUME reader.pc = "summarise"
      PROVE  Fresh'
  <2>1. ASSUME reader.more
        PROVE  Passed(Stored, Listed \cup Page, reader.end)'
    <3>1. \A j \in Stored' \cap (Listed \cup Page) : Rank(Stored, j)' < reader.end
      BY <1>2, <1>4, <1>8, <2>1, WriteKeepsPassed DEF Fresh
    <3> QED BY <1>1, <1>3, <3>1 DEF Passed
  <2> QED BY <1>1, <1>2, <1>3, <1>8, <2>1 DEF Fresh
<1> QED BY <1>1, <1>2, <1>6, <1>7, <1>8
LEMMA PassedStays ==
  ASSUME RecordsStay, walk'.sort = walk.sort
  PROVE  /\ \A j : Rank(Stored, j)' = Rank(Stored, j)
         /\ Snapshot' = Snapshot => \A j : Rank(Snapshot, j)' = Rank(Snapshot, j)
<1>1. \A k, j : Before(walk.sort, k, j)' <=> Before(walk.sort, k, j)
  BY DEF RecordsStay, Before
<1>2. \A j : Ahead(Stored, j)' = Ahead(Stored, j)
  BY <1>1 DEF RecordsStay, Ahead
<1>3. Snapshot' = Snapshot => \A j : Ahead(Snapshot, j)' = Ahead(Snapshot, j)
  BY <1>1 DEF Ahead
<1> QED BY <1>2, <1>3 DEF Rank

LEMMA CutWindowIsFresh ==
  ASSUME ListingInv, Ascending, Filtering, Passed(Stored, Listed, walk.offset),
         reader.pc = "filter", CutWindow
  PROVE  Fresh'
<1>1. /\ RecordsStay /\ walk' = walk /\ reader.taken = <<>>
      /\ reader'.listed = <<>> /\ IsInjective(reader'.taken)
  BY CutWindowStep
<1>2. PICK from \in Nat, n \in Nat :
        /\ from = IF walk.offset > n THEN n ELSE walk.offset
        /\ n = Cardinality(reader.kept)
        /\ reader'.end = NextOffset(from, n)
        /\ reader'.more <=> NextOffset(from, n) < n
        /\ ToSet(reader'.taken) = {j \in reader.kept : /\ from <= Rank(reader.kept, j)
                                                       /\ Rank(reader.kept, j) < reader'.end}
  BY CutWindowStep
<1> DEFINE T == reader.kept
           e == NextOffset(from, n)
<1>3. Snapshot = T
  BY <1>1, NoElements DEF Snapshot
<1>4. Dated /\ IsFiniteSet(T) /\ T \in SUBSET JobIds
  BY DEF ListingInv, RecordsInv, ReaderInv, Readers, WalkInv, Walks, Dated
<1>5. \A j \in T : Rank(T, j) \in Nat /\ Rank(T, j) < n
  BY <1>2, <1>4, RankGrows
<1>6. /\ walk.offset \in Nat /\ IsFiniteSet(Stored) /\ Stored \subseteq JobIds
  BY ListingIsFinite DEF Finite
<1>7. /\ e \in Nat
      /\ from # walk.offset => from = n
      /\ e < n => walk.offset < e
  BY <1>2, <1>6, PageEnds
<1>8. Page' = ToSet(reader'.taken) /\ Summarised' = {} /\ Listed' = Listed
  BY <1>1, NoElements DEF Page, Summarised, Listed
<1>9. Page' \cap Listed = {}
  <2> SUFFICES ASSUME NEW j \in Page', j \in Listed PROVE FALSE
    OBVIOUS
  <2>1. j \in T /\ from <= Rank(T, j)
    BY <1>2, <1>8
  <2>2. Rank(T, j) < walk.offset
    BY <1>3, <2>1 DEF Filtering, Passed
  <2>3. PICK r \in Nat : r = Rank(T, j) /\ r < n
    BY <1>5, <2>1
  <2> QED BY <1>2, <1>6, <1>7, <2>1, <2>2, <2>3
<1>10. ASSUME reader'.more, NEW j \in Stored, j \in Listed \cup Page'
       PROVE  Rank(Stored, j) < e
  <2>1. Rank(Stored, j) \in Nat
    BY <1>4, <1>6, RankGrows
  <2>2. CASE j \in Listed
    <3>1. Rank(Stored, j) < walk.offset /\ walk.offset < e
      BY <1>2, <1>7, <1>10, <2>2 DEF Passed
    <3> DEFINE q == Rank(Stored, j)
    <3>2. q \in Nat /\ e \in Nat /\ q < walk.offset /\ walk.offset < e
      BY <1>7, <2>1, <3>1
    <3>3. q < e
      <4> HIDE DEF q, e
      <4> QED BY <1>6, <3>2
    <3> QED BY <3>3
  <2>3. CASE j \in Page'
    <3>1. j \in T /\ Rank(T, j) < e
      BY <1>2, <1>8, <2>3
    <3>2. ASSUME NEW k \in Stored, Before(walk.sort, k, j)
          PROVE  k \in T
      <4> SUFFICES ASSUME k \notin T PROVE FALSE
        OBVIOUS
      <4>1. created[j] < created[k]
        BY <1>3, <3>1 DEF Filtering
      <4>2. created[j] \in Nat /\ created[k] \in Nat
        BY <1>6, BoundsAssumption DEF ListingInv, RecordsInv
      <4> QED BY <3>2, <4>1, <4>2 DEF Before, Ascending
    <3>3. Rank(Stored, j) <= Rank(T, j)
      BY <1>4, <3>2, RankOfLarger
    <3> DEFINE q == Rank(Stored, j)
               r == Rank(T, j)
    <3>4. q \in Nat /\ r \in Nat /\ e \in Nat /\ q <= r /\ r < e
      BY <1>5, <1>7, <2>1, <3>1, <3>3
    <3>5. q < e
      <4> HIDE DEF q, r, e
      <4> QED BY <3>4
    <3> QED BY <3>5
  <2> QED BY <1>10, <2>2, <2>3
<1>11. ASSUME reader'.more
       PROVE  Passed(Stored, Listed \cup Page, reader.end)'
  <2>1. \A j : Rank(Stored, j)' = Rank(Stored, j)
    BY <1>1, PassedStays
  <2> QED BY <1>1, <1>2, <1>8, <1>10, <1>11, <2>1 DEF Passed, RecordsStay
<1> QED BY <1>1, <1>8, <1>9, <1>11, NoElements DEF Fresh

LEMMA SummariseIsFresh ==
  ASSUME ListingInv, Fresh, Summarise
  PROVE  Fresh'
<1>1. /\ RecordsStay /\ walk' = walk /\ reader'.end = reader.end /\ reader'.more = reader.more
      /\ reader.taken # <<>> /\ reader'.taken = Tail(reader.taken)
  BY SummariseStep
<1>2. PICK j \in ToSet(reader.taken) :
        /\ j = Head(reader.taken)
        /\ reader'.listed = Append(reader.listed, [job |-> j, status |-> held[j]])
  BY SummariseStep
<1>3. /\ Page' = Page
      /\ ToSet(reader.taken) = ToSet(reader'.taken) \cup {j}
      /\ Summarised' = Summarised \cup {j}
  BY <1>1, <1>2, SummariseKeepsPage
<1>4. PICK n \in Nat :
        /\ DOMAIN reader.listed = 1 .. n /\ DOMAIN reader'.listed = 1 .. (n + 1)
        /\ \A i \in 1 .. n : reader'.listed[i] = reader.listed[i]
        /\ reader'.listed[n + 1] = [job |-> j, status |-> held[j]]
  BY <1>1, <1>2, SummariseKeepsPage
<1>5. reader.taken \in Seq(JobIds)
  BY DEF ListingInv, ReaderInv, Readers
<1>6. IsInjective(reader'.taken) /\ j \notin ToSet(reader'.taken)
  BY <1>1, <1>2, <1>5, ElementsOfTail DEF Fresh
<1>7. Summarised' \cap ToSet(reader'.taken) = {}
  BY <1>3, <1>6 DEF Fresh
<1>8. ASSUME NEW i \in 1 .. (n + 1), NEW k \in 1 .. (n + 1),
             reader'.listed[i].job = reader'.listed[k].job
      PROVE  i = k
  <2>1. reader'.listed[n + 1].job = j
    BY <1>4
  <2>2. \A l \in 1 .. n : reader'.listed[l].job = reader.listed[l].job /\ reader.listed[l].job # j
    BY <1>2, <1>4 DEF Fresh, Summarised
  <2>3. CASE i \in 1 .. n /\ k \in 1 .. n
    BY <1>4, <1>8, <2>2, <2>3 DEF Fresh
  <2>4. CASE i = n + 1 /\ k = n + 1
    BY <2>4
  <2>5. CASE (i \in 1 .. n /\ k = n + 1) \/ (i = n + 1 /\ k \in 1 .. n)
    BY <1>8, <2>1, <2>2, <2>5
  <2>6. (i \in 1 .. n \/ i = n + 1) /\ (k \in 1 .. n \/ k = n + 1)
    OBVIOUS
  <2> QED BY <2>3, <2>4, <2>5, <2>6
<1>9. ASSUME reader'.more
      PROVE  Passed(Stored, Listed \cup Page, reader.end)'
  <2>1. \A i : Rank(Stored, i)' = Rank(Stored, i)
    BY <1>1, PassedStays
  <2> QED BY <1>1, <1>3, <1>9, <2>1 DEF Passed, RecordsStay, Listed, Fresh
<1>10. Page' \cap Listed' = {}
  BY <1>1, <1>3 DEF Fresh, Listed
<1> QED BY <1>4, <1>6, <1>7, <1>8, <1>9, <1>10 DEF Fresh

LEMMA RepeatInvIsInductive ==
  ASSUME ListingInv, ListingInv', RepeatInv, [ListingNext]_listingVars
  PROVE  RepeatInv'
<1>1. CASE Write
  BY <1>1, EveryWriteIsAWriteStep, WriteKeepsRepeatInv
<1>2. IdleReader.pc = "idle"
  BY DEF IdleReader, Reader
<1>3. ASSUME NEW filter \in Filters, NEW sort \in Sorts, StartWalk(filter, sort)
      PROVE  RepeatInv'
  <2>1. reader' = IdleReader /\ walk'.ids = <<>>
    BY <1>3, StartWalkStep
  <2>2. Listed' = {}
    BY <2>1, NoElements DEF Listed
  <2> QED BY <1>2, <2>1, <2>2, NoElements DEF RepeatInv, Passed
<1>4. ASSUME RecordsStay, walk' = walk, Ascending'
      PROVE  /\ Ascending /\ IsInjective(walk'.ids)
             /\ ~ walk'.over => Passed(Stored, Listed, walk.offset)'
             /\ Listed' = Listed
  <2>1. Ascending
    BY <1>4 DEF Ascending
  <2>2. \A i : Rank(Stored, i)' = Rank(Stored, i)
    BY <1>4, PassedStays
  <2> QED BY <1>4, <2>1, <2>2 DEF RepeatInv, Passed, RecordsStay, Listed
<1>5. CASE TakeRecords
  <2> SUFFICES ASSUME Ascending' PROVE RepeatInv'
    BY DEF RepeatInv
  <2>1. /\ RecordsStay /\ walk' = walk /\ ~ walk.over
        /\ reader'.pc = "filter" /\ ToSet(reader'.taken) = Stored /\ reader'.kept = {}
    BY <1>5, TakeRecordsStep
  <2>2. Snapshot' = Stored' /\ Snapshot' = Stored
    BY <2>1 DEF Snapshot, RecordsStay
  <2>3. Passed(Snapshot, Listed, walk.offset)'
    <3>1. Passed(Stored, Listed, walk.offset)'
      BY <1>4, <2>1
    <3>2. \A j : Rank(Snapshot, j)' = Rank(Stored, j)'
      <4>1. \A j : Ahead(Snapshot, j)' = Ahead(Stored, j)'
        BY <2>2 DEF Ahead
      <4> QED BY <4>1 DEF Rank
    <3> QED BY <2>2, <3>1, <3>2 DEF Passed
  <2>4. Filtering'
    BY <2>2, <2>3 DEF Filtering
  <2> QED BY <1>4, <2>1, <2>4 DEF RepeatInv
<1>6. CASE FilterRecord
  <2> SUFFICES ASSUME Ascending' PROVE RepeatInv'
    BY DEF RepeatInv
  <2>1. RecordsStay /\ walk' = walk /\ reader.pc = "filter" /\ reader'.pc = "filter"
    BY <1>6, FilterRecordStep
  <2>2. PICK j \in ToSet(reader.taken) :
          /\ ToSet(reader.taken) = ToSet(reader'.taken) \cup {j}
          /\ reader'.kept = IF Wanted(walk.filter, held[j]) THEN reader.kept \cup {j} ELSE reader.kept
    BY <1>6, FilterRecordStep
  <2>3. Ascending /\ Listed' = Listed
    BY <1>4, <2>1
  <2>4. Snapshot' = Snapshot
    BY <2>2, <2>3 DEF Snapshot, Ascending, Wanted
  <2>5. ASSUME ~ walk.over
        PROVE  Filtering'
    <3>1. Filtering
      BY <2>1, <2>3, <2>5 DEF RepeatInv
    <3>2. \A i : Rank(Snapshot, i)' = Rank(Snapshot, i)
      BY <2>1, <2>4, PassedStays
    <3>3. Passed(Snapshot, Listed, walk.offset)'
      BY <2>1, <2>3, <2>4, <3>1, <3>2 DEF Filtering, Passed
    <3> QED BY <2>1, <2>4, <3>1, <3>3 DEF Filtering, RecordsStay
  <2> QED BY <1>4, <2>1, <2>5 DEF RepeatInv
<1>7. CASE CutWindow
  <2> SUFFICES ASSUME Ascending' PROVE RepeatInv'
    BY DEF RepeatInv
  <2>1. RecordsStay /\ walk' = walk /\ reader.pc = "filter" /\ reader'.pc = "summarise"
    BY <1>7, CutWindowStep
  <2>2. ASSUME ~ walk.over
        PROVE  Fresh'
    <3>1. Ascending /\ Filtering /\ Passed(Stored, Listed, walk.offset)
      BY <1>4, <2>1, <2>2 DEF RepeatInv
    <3> QED BY <1>7, <2>1, <3>1, CutWindowIsFresh
  <2> QED BY <1>4, <2>1, <2>2 DEF RepeatInv
<1>8. CASE Summarise
  <2> SUFFICES ASSUME Ascending' PROVE RepeatInv'
    BY DEF RepeatInv
  <2>1. RecordsStay /\ walk' = walk /\ reader.pc = "summarise" /\ reader'.pc = "summarise"
    BY <1>8, SummariseStep
  <2>2. ASSUME ~ walk.over
        PROVE  Fresh'
    <3>1. Fresh
      BY <1>4, <2>1, <2>2 DEF RepeatInv
    <3> QED BY <1>8, <3>1, SummariseIsFresh
  <2> QED BY <1>4, <2>1, <2>2 DEF RepeatInv
<1>9. CASE DeliverPage
  <2> SUFFICES ASSUME Ascending' PROVE RepeatInv'
    BY DEF RepeatInv
  <2>1. /\ RecordsStay /\ ~ walk.over
        /\ reader.pc = "summarise" /\ reader.taken = <<>> /\ reader' = IdleReader
        /\ walk'.filter = walk.filter /\ walk'.sort = walk.sort /\ walk'.tied = walk.tied
        /\ walk'.offset = IF reader.more THEN reader.end ELSE 0
        /\ walk'.over <=> ~ reader.more
        /\ Listed' = Listed \cup Summarised
        /\ IsInjective(walk.ids) /\ Listed \cap Summarised = {}
              /\ (\A i, k \in DOMAIN reader.listed :
                    reader.listed[i].job = reader.listed[k].job => i = k)
            => IsInjective(walk'.ids)
    BY <1>9, DeliverPageStep
  <2>2. Ascending
    BY <2>1 DEF Ascending
  <2>3. IsInjective(walk.ids) /\ Fresh
    BY <2>1, <2>2 DEF RepeatInv
  <2>4. Page = Summarised
    BY <2>1, NoElements DEF Page
  <2>5. IsInjective(walk'.ids)
    BY <2>1, <2>3, <2>4 DEF Fresh
  <2>6. ASSUME ~ walk'.over
        PROVE  Passed(Stored, Listed, walk.offset)'
    <3>1. Passed(Stored, Listed \cup Page, reader.end)
      BY <2>1, <2>3, <2>6 DEF Fresh
    <3>2. \A i : Rank(Stored, i)' = Rank(Stored, i)
      BY <2>1, PassedStays
    <3> QED BY <2>1, <2>4, <2>6, <3>1, <3>2 DEF Passed, RecordsStay
  <2> QED BY <1>2, <2>1, <2>5, <2>6 DEF RepeatInv
<1>10. CASE LosePage
  <2>1. RecordsStay /\ walk' = walk /\ reader' = IdleReader
    BY <1>10, LosePageStep
  <2> QED BY <1>2, <1>4, <2>1 DEF RepeatInv
<1>11. CASE UNCHANGED listingVars
  <2> SUFFICES ASSUME Ascending' PROVE RepeatInv'
    BY DEF RepeatInv
  <2>1. /\ reader' = reader /\ walk' = walk /\ RecordsStay
    BY <1>11 DEF listingVars, jobVars, RecordsStay, Stored, Known
  <2>2. Ascending /\ Listed' = Listed /\ Snapshot' = Snapshot /\ Page' = Page /\ Summarised' = Summarised
    BY <2>1 DEF Ascending, Listed, Snapshot, Page, Summarised
  <2>3. \A j : Rank(Stored, j)' = Rank(Stored, j) /\ Rank(Snapshot, j)' = Rank(Snapshot, j)
    BY <2>1, <2>2, PassedStays
  <2>4. Filtering => Filtering'
    BY <2>1, <2>2, <2>3 DEF Filtering, Passed, RecordsStay
  <2>5. Fresh => Fresh'
    BY <2>1, <2>2, <2>3 DEF Fresh, Passed, RecordsStay
  <2> QED BY <1>4, <2>1, <2>2, <2>4, <2>5 DEF RepeatInv
<1> QED BY <1>1, <1>3, <1>5, <1>6, <1>7, <1>8, <1>9, <1>10, <1>11 DEF ListingNext

\* An unfiltered walk in ascending order of creation lists no job twice, as long
\* as no two jobs are created at the same time: deletions may make it skip jobs,
\* lost pages make it ask again, but neither makes it repeat one.
THEOREM AscendingWalksRepeatNothing == ListingSpec => []AscendingWalkRepeatsNothing
<1>1. ListingInit => RepeatInv
  <2> SUFFICES ASSUME ListingInit PROVE RepeatInv
    OBVIOUS
  <2>1. walk.ids = <<>> /\ reader.pc = "idle"
    BY DEF ListingInit, NoWalk, IdleReader, Reader
  <2>2. Listed = {} /\ IsInjective(walk.ids)
    BY <2>1, NoElements DEF Listed
  <2> QED BY <2>1, <2>2 DEF RepeatInv, Passed
<1>2. ListingInv /\ ListingInv' /\ RepeatInv /\ [ListingNext]_listingVars => RepeatInv'
  BY RepeatInvIsInductive
<1>3. RepeatInv => AscendingWalkRepeatsNothing
  BY DEF RepeatInv, AscendingWalkRepeatsNothing, Ascending
<1> QED BY <1>1, <1>2, <1>3, ListingInvariant, PTL DEF ListingSpec
=============================================================================
