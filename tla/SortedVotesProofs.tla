-------------------------- MODULE SortedVotesProofs --------------------------
(***************************************************************************)
(* What the operators of SortedVotes do, for any lists: lemmas that the    *)
(* theorems about VoteRevocation, Epochs and GovernanceQueue rest on; and  *)
(* the hints that findLesserAndGreaterAfterVote computes fit.              *)
(***************************************************************************)
EXTENDS SortedVotes, FiniteSetTheorems, SequenceTheorems, WellFoundedInduction, TLAPS

\* No group twice.
Distinct(s) == \A i, j \in DOMAIN s : s[i] = s[j] => i = j

-----------------------------------------------------------------------------
(* Sets of natural numbers.                                                *)

\* A set of natural numbers has a least one.
LEMMA LeastNatural ==
  ASSUME NEW S \in SUBSET Nat, S # {}
  PROVE  \E i \in S : \A j \in S : i <= j
<1>1. PICK i \in S : \A j \in S : <<j, i>> \notin OpToRel(<, Nat)
  BY NatLessThanWellFounded, WFMin
<1>2. \A j \in S : ~(j < i)
  BY <1>1 DEF OpToRel
<1>3. \A j \in S : i <= j
  BY ONLY <1>2, i \in S, S \in SUBSET Nat
<1> QED BY ONLY <1>3, i \in S

\* The first element of a set of indexes is one of it and none is smaller.
LEMMA FirstIsLeast ==
  ASSUME NEW S \in SUBSET Nat, S # {}
  PROVE  First(S) \in S /\ \A j \in S : First(S) <= j
BY LeastNatural DEF First

\* A set of indexes up to n has a latest one.
LEMMA LatestIsGreatest ==
  ASSUME NEW n \in Nat, NEW S \in SUBSET (0 .. n), S # {}
  PROVE  Latest(S) \in S /\ \A j \in S : j <= Latest(S)
<1> DEFINE T == {n - i : i \in S}
<1>1. T \in SUBSET Nat /\ T # {}
  <2>1. \A i \in S : n - i \in Nat
    OBVIOUS
  <2> QED BY <2>1
<1>2. PICK m \in T : \A j \in T : m <= j
  BY <1>1, LeastNatural
<1>3. PICK i \in S : m = n - i
  BY <1>2
<1>4. \A j \in S : j <= i
  <2> TAKE j \in S
  <2>1. m <= n - j
    BY <1>2
  <2> QED BY <1>3, <2>1
<1>5. \E k \in S : \A j \in S : j <= k
  BY <1>4
<1> QED BY <1>5 DEF Latest

-----------------------------------------------------------------------------
(* Ranks in a finite set.                                                  *)

\* R puts the elements of P in an order.
InOrder(R, P) ==
  /\ \A i \in P : <<i, i>> \in R
  /\ \A i, j \in P : <<i, j>> \in R \/ <<j, i>> \in R
  /\ \A i, j \in P : <<i, j>> \in R /\ <<j, i>> \in R => i = j
  /\ \A i, j, k \in P : <<i, j>> \in R /\ <<j, k>> \in R => <<i, k>> \in R

\* How many come up to i.
RankIn(R, P, i) == Cardinality({j \in P : <<j, i>> \in R})

\* Who comes later has a higher rank.
LEMMA RankGrows ==
  ASSUME NEW P, IsFiniteSet(P), NEW R, InOrder(R, P),
         NEW i \in P, NEW k \in P, <<i, k>> \in R, i # k
  PROVE  RankIn(R, P, i) < RankIn(R, P, k)
  <1> DEFINE A == {j \in P : <<j, i>> \in R}
             B == {j \in P : <<j, k>> \in R}
  <1>1. A \in SUBSET B /\ k \in B /\ k \notin A /\ B \in SUBSET P
    BY DEF InOrder
  <1> HIDE DEF A, B
  <1>2. IsFiniteSet(B)
    BY <1>1, FS_Subset
  <1>3. IsFiniteSet(A) /\ Cardinality(A) <= Cardinality(B) /\ Cardinality(A) # Cardinality(B)
    BY <1>1, <1>2, FS_Subset
  <1>4. Cardinality(A) \in Nat /\ Cardinality(B) \in Nat
    BY <1>2, <1>3, FS_CardinalityType
  <1>5. Cardinality(A) < Cardinality(B)
    BY <1>3, <1>4
  <1> QED BY <1>5 DEF RankIn, A, B

\* The ranks are the numbers from 1 on, each of them once.
LEMMA Ranks ==
  ASSUME NEW P, IsFiniteSet(P), NEW R, InOrder(R, P)
  PROVE  /\ Cardinality(P) \in Nat
         /\ \A i \in P : RankIn(R, P, i) \in 1 .. Cardinality(P)
         /\ \A i, k \in P : RankIn(R, P, i) = RankIn(R, P, k) => i = k
         /\ \A n \in 1 .. Cardinality(P) : \E i \in P : RankIn(R, P, i) = n
  <1>1. Cardinality(P) \in Nat
    BY FS_CardinalityType
  <1>2. ASSUME NEW i \in P PROVE RankIn(R, P, i) \in 1 .. Cardinality(P)
    <2> DEFINE A == {j \in P : <<j, i>> \in R}
    <2>1. i \in A /\ A \in SUBSET P
      BY DEF InOrder
    <2> HIDE DEF A
    <2>2. IsFiniteSet(A) /\ Cardinality(A) <= Cardinality(P)
      BY <2>1, FS_Subset
    <2>3. Cardinality(A) \in Nat /\ Cardinality(A) # 0
      BY <2>1, <2>2, FS_CardinalityType, FS_EmptySet
    <2>4. Cardinality(A) \in 1 .. Cardinality(P)
      BY <1>1, <2>2, <2>3
    <2> QED BY <2>4 DEF RankIn, A
  <1>3. ASSUME NEW i \in P, NEW k \in P, i # k PROVE RankIn(R, P, i) # RankIn(R, P, k)
    <2>1. RankIn(R, P, i) \in Nat /\ RankIn(R, P, k) \in Nat
      BY <1>1, <1>2
    <2>2. CASE <<i, k>> \in R
      <3>1. RankIn(R, P, i) < RankIn(R, P, k)
        BY <1>3, <2>2, RankGrows
      <3> QED BY <2>1, <3>1
    <2>3. CASE <<k, i>> \in R
      <3>1. RankIn(R, P, k) < RankIn(R, P, i)
        BY <1>3, <2>3, RankGrows
      <3> QED BY <2>1, <3>1
    <2> QED BY <2>2, <2>3 DEF InOrder
  <1>4. ASSUME NEW n \in 1 .. Cardinality(P) PROVE \E i \in P : RankIn(R, P, i) = n
    <2> DEFINE T == 1 .. Cardinality(P)
               f == [i \in P |-> RankIn(R, P, i)]
    <2>1. f \in Injection(P, T)
      BY <1>2, <1>3 DEF Injection, IsInjective
    <2>2. IsFiniteSet(T) /\ Cardinality(T) = Cardinality(P)
      BY <1>1, FS_Interval
    <2> HIDE DEF T, f
    <2>3. f \in Surjection(P, T)
      BY <2>1, <2>2, FS_Injection
    <2>4. PICK i \in P : f[i] = n
      BY <2>3 DEF Surjection, T
    <2> QED BY <2>4 DEF f
  <1> QED BY <1>1, <1>2, <1>3, <1>4

-----------------------------------------------------------------------------
(* Parts of a list.                                                        *)

\* The index in s of the n-th element of a subsequence.
IndexIn(P, n) == CHOOSE i \in P : Cardinality({j \in P : j <= i}) = n

\* Each index of P is that of one element, and of one only.
LEMMA IndexesAre ==
  ASSUME NEW m \in Nat, NEW P \in SUBSET (1 .. m)
  PROVE  /\ IsFiniteSet(P) /\ Cardinality(P) \in Nat
         /\ \A n \in 1 .. Cardinality(P) : IndexIn(P, n) \in P
         /\ \A i \in P : \E n \in 1 .. Cardinality(P) : IndexIn(P, n) = i
         /\ \A n, k \in 1 .. Cardinality(P) : IndexIn(P, n) = IndexIn(P, k) => n = k
         /\ \A n, k \in 1 .. Cardinality(P) : n < k => IndexIn(P, n) < IndexIn(P, k)
         /\ P = 1 .. m => \A n \in 1 .. Cardinality(P) : IndexIn(P, n) = n
  <1> DEFINE R == {w \in P \X P : w[1] <= w[2]}
  <1>1. IsFiniteSet(P)
    <2>1. IsFiniteSet(1 .. m)
      BY FS_Interval
    <2> QED BY <2>1, FS_Subset
  <1>2. \A i, j \in P : <<i, j>> \in R <=> i <= j
    OBVIOUS
  <1>3. InOrder(R, P)
    <2> HIDE DEF R
    <2> QED BY <1>2 DEF InOrder
  <1>4. ASSUME NEW i \in P PROVE RankIn(R, P, i) = Cardinality({j \in P : j <= i})
    <2>1. {j \in P : <<j, i>> \in R} = {j \in P : j <= i}
      BY <1>2
    <2> QED BY <2>1 DEF RankIn
  <1> HIDE DEF R
  <1>5. /\ Cardinality(P) \in Nat
        /\ \A i \in P : RankIn(R, P, i) \in 1 .. Cardinality(P)
        /\ \A i, k \in P : RankIn(R, P, i) = RankIn(R, P, k) => i = k
        /\ \A n \in 1 .. Cardinality(P) : \E i \in P : RankIn(R, P, i) = n
    BY <1>1, <1>3, Ranks
  <1>6. ASSUME NEW n \in 1 .. Cardinality(P)
        PROVE  IndexIn(P, n) \in P /\ RankIn(R, P, IndexIn(P, n)) = n
    <2>1. \E i \in P : Cardinality({j \in P : j <= i}) = n
      BY <1>4, <1>5
    <2>2. IndexIn(P, n) \in P /\ Cardinality({j \in P : j <= IndexIn(P, n)}) = n
      BY <2>1 DEF IndexIn
    <2> QED BY <1>4, <2>2
  <1>7. ASSUME NEW i \in P PROVE IndexIn(P, RankIn(R, P, i)) = i
    <2>1. RankIn(R, P, i) \in 1 .. Cardinality(P)
      BY <1>5
    <2> QED BY <1>5, <1>6, <2>1
  <1>8. ASSUME NEW n \in 1 .. Cardinality(P), NEW k \in 1 .. Cardinality(P), n < k
        PROVE  IndexIn(P, n) < IndexIn(P, k)
    <2>1. PICK i \in P, j \in P : i = IndexIn(P, n) /\ j = IndexIn(P, k)
      BY <1>6
    <2>2. RankIn(R, P, i) = n /\ RankIn(R, P, j) = k
      BY <1>6, <2>1
    <2>3. ~(k < n) /\ n # k
      BY <1>5, <1>8
    <2>4. ~(<<j, i>> \in R)
      BY <1>1, <1>3, <2>2, <2>3, RankGrows
    <2>5. ~(j <= i)
      BY <1>2, <2>4
    <2> QED BY <2>1, <2>5
  <1>9. ASSUME P = 1 .. m, NEW n \in 1 .. Cardinality(P) PROVE IndexIn(P, n) = n
    <2>1. PICK i \in 1 .. m : i = IndexIn(P, n)
      BY <1>6, <1>9
    <2>2. Cardinality({j \in P : j <= i}) = n
      BY <1>4, <1>6, <1>9, <2>1
    <2>3. {j \in P : j <= i} = 1 .. i /\ i \in Nat
      BY <1>9
    <2>4. Cardinality(1 .. i) = i
      BY <2>3, FS_Interval
    <2> QED BY <2>1, <2>2, <2>3, <2>4
  <1> QED BY <1>1, <1>5, <1>6, <1>7, <1>8, <1>9

\* A subsequence has the elements at the given indexes.
LEMMA SubsequenceIs ==
  ASSUME NEW S, NEW s \in Seq(S), NEW P \in SUBSET (1 .. Len(s))
  PROVE  LET t == Subsequence(s, P) IN
         /\ t \in Seq(S) /\ IsFiniteSet(P) /\ Len(t) = Cardinality(P)
         /\ Members(t) = {s[i] : i \in P}
         /\ (\A i, j \in P : s[i] = s[j] => i = j) => Distinct(t)
         /\ \A k, l \in DOMAIN t : k < l => \E i, j \in P : i < j /\ t[k] = s[i] /\ t[l] = s[j]
         /\ P = 1 .. Len(s) => t = s
  <1> DEFINE t == Subsequence(s, P)
  <1>1. Len(s) \in Nat /\ \A i \in P : s[i] \in S
    OBVIOUS
  <1>2. PICK n : n = Cardinality(P)
    OBVIOUS
  <1>3. /\ IsFiniteSet(P) /\ n \in Nat
        /\ \A k \in 1 .. n : IndexIn(P, k) \in P
        /\ \A i \in P : \E k \in 1 .. n : IndexIn(P, k) = i
        /\ \A k, l \in 1 .. n : IndexIn(P, k) = IndexIn(P, l) => k = l
        /\ \A k, l \in 1 .. n : k < l => IndexIn(P, k) < IndexIn(P, l)
        /\ P = 1 .. Len(s) => \A k \in 1 .. n : IndexIn(P, k) = k
    BY <1>1, <1>2, IndexesAre
  <1>4. t = [k \in 1 .. n |-> s[IndexIn(P, k)]]
    BY <1>2 DEF Subsequence, IndexIn
  <1>5. t \in Seq(S) /\ Len(t) = n /\ DOMAIN t = 1 .. n
    <2>1. t \in [1 .. n -> S]
      BY <1>1, <1>3, <1>4
    <2> HIDE DEF t
    <2> QED BY <1>3, <2>1
  <1>6. \A k \in 1 .. n : t[k] = s[IndexIn(P, k)]
    BY <1>4
  <1> HIDE DEF t
  <1>7. Members(t) = {s[i] : i \in P}
    <2>1. Members(t) = {t[k] : k \in 1 .. n}
      BY <1>5 DEF Members
    <2>2. \A k \in 1 .. n : t[k] \in {s[i] : i \in P}
      BY <1>3, <1>6
    <2>3. ASSUME NEW i \in P PROVE s[i] \in {t[k] : k \in 1 .. n}
      <3>1. PICK k \in 1 .. n : IndexIn(P, k) = i
        BY <1>3
      <3> QED BY <1>6, <3>1
    <2> QED BY <2>1, <2>2, <2>3
  <1>8. ASSUME \A i, j \in P : s[i] = s[j] => i = j PROVE Distinct(t)
    <2>1. ASSUME NEW k \in 1 .. n, NEW l \in 1 .. n, t[k] = t[l] PROVE k = l
      <3>1. IndexIn(P, k) \in P /\ IndexIn(P, l) \in P
        BY <1>3
      <3>2. s[IndexIn(P, k)] = s[IndexIn(P, l)]
        BY <1>6, <2>1
      <3> QED BY <1>3, <1>8, <3>1, <3>2
    <2> QED BY <1>5, <2>1 DEF Distinct
  <1>9. ASSUME NEW k \in DOMAIN t, NEW l \in DOMAIN t, k < l
        PROVE  \E i, j \in P : i < j /\ t[k] = s[i] /\ t[l] = s[j]
    <2>1. k \in 1 .. n /\ l \in 1 .. n
      BY <1>5
    <2>2. PICK i \in P, j \in P : i = IndexIn(P, k) /\ j = IndexIn(P, l)
      BY <1>3, <2>1
    <2>3. i < j /\ t[k] = s[i] /\ t[l] = s[j]
      BY <1>3, <1>6, <1>9, <2>1, <2>2
    <2> QED BY <2>3
  <1>10. ASSUME P = 1 .. Len(s) PROVE t = s
    <2>1. n = Len(s)
      <3>1. PICK m \in Nat : m = Len(s)
        BY <1>1
      <3>2. Cardinality(1 .. m) = m
        BY FS_Interval
      <3> QED BY <1>2, <1>10, <3>1, <3>2
    <2>2. \A k \in 1 .. n : t[k] = s[k]
      BY <1>3, <1>6, <1>10
    <2> QED BY <1>5, <2>1, <2>2
  <1> QED BY <1>2, <1>3, <1>5, <1>7, <1>8, <1>9, <1>10 DEF t

-----------------------------------------------------------------------------
(* Removing a group from a list and putting it back.                       *)

\* PlaceOf finds a group of the list.
LEMMA PlaceOfMember ==
  ASSUME NEW Groups, NEW s \in Seq(Groups), NEW group \in Members(s)
  PROVE  PlaceOf(s, group) \in DOMAIN s /\ s[PlaceOf(s, group)] = group
BY DEF Members, PlaceOf

\* What is left when a group is removed: the others, in their order.
LEMMA RestShifts ==
  ASSUME NEW Groups, NEW s \in Seq(Groups), NEW group \in Members(s), Distinct(s)
  PROVE  LET k == PlaceOf(s, group)
             rest == Rest(s, group)
         IN /\ k \in 1 .. Len(s)
            /\ rest \in Seq(Groups) /\ Len(rest) = Len(s) - 1
            /\ Distinct(rest)
            /\ \A i \in 1 .. Len(rest) :
                 rest[i] = s[IF i < k THEN i ELSE i + 1]
            /\ Others(s, group) = (1 .. Len(s)) \ {k}
            /\ group \notin Members(rest)
<1> DEFINE k == PlaceOf(s, group)
           rest == Rest(s, group)
<1>1. k \in 1 .. Len(s) /\ s[k] = group
  BY PlaceOfMember
<1>2. rest = [i \in 1 .. Len(s) - 1 |-> s[IF i < k THEN i ELSE i + 1]]
  BY DEF Rest
<1>3. Len(s) \in Nat /\ \A i \in 1 .. Len(s) : s[i] \in Groups
  OBVIOUS
<1> HIDE DEF k, rest
<1>4. \A i \in 1 .. Len(s) - 1 :
        (IF i < k THEN i ELSE i + 1) \in (1 .. Len(s)) \ {k}
  BY ONLY <1>1, <1>3
<1>5. rest \in Seq(Groups) /\ Len(rest) = Len(s) - 1 /\ DOMAIN rest = 1 .. Len(s) - 1
  <2>1. rest \in [1 .. Len(s) - 1 -> Groups]
    BY ONLY <1>2, <1>3, <1>4
  <2>2. Len(s) - 1 \in Nat
    BY ONLY <1>1, <1>3
  <2> QED BY ONLY <2>1, <2>2
<1>6. \A i \in 1 .. Len(rest) : rest[i] = s[IF i < k THEN i ELSE i + 1]
  BY ONLY <1>2, <1>5
<1>7. \A i, j \in 1 .. Len(s) : s[i] = s[j] => i = j
  BY DEF Distinct
<1>8. Distinct(rest)
  <2> SUFFICES ASSUME NEW i \in 1 .. Len(s) - 1, NEW j \in 1 .. Len(s) - 1,
                      rest[i] = rest[j]
               PROVE  i = j
    BY <1>5 DEF Distinct
  <2>1. (IF i < k THEN i ELSE i + 1) = (IF j < k THEN j ELSE j + 1)
    BY <1>4, <1>5, <1>6, <1>7
  <2> QED BY ONLY <2>1, <1>1, <1>3, i \in 1 .. Len(s) - 1, j \in 1 .. Len(s) - 1
<1>9. Others(s, group) = (1 .. Len(s)) \ {k}
  BY <1>1, <1>7 DEF Others
<1>10. group \notin Members(rest)
  <2> SUFFICES ASSUME NEW i \in 1 .. Len(s) - 1, rest[i] = group
               PROVE  FALSE
    BY <1>5 DEF Members
  <2>1. s[IF i < k THEN i ELSE i + 1] = s[k]
    BY <1>1, <1>5, <1>6
  <2> QED BY <2>1, <1>1, <1>4, <1>7
<1> QED BY <1>1, <1>5, <1>6, <1>8, <1>9, <1>10 DEF k, rest

\* A group that is put into a list is in it once, as the others are.
LEMMA PutAtKeeps ==
  ASSUME NEW Groups, NEW s \in Seq(Groups), Distinct(s),
         NEW group \in Groups, group \notin Members(s),
         NEW p \in 0 .. Len(s)
  PROVE  PutAt(s, group, p) \in Seq(Groups) /\ Distinct(PutAt(s, group, p))
<1> DEFINE at(i) == CASE i <= p     -> s[i]
                      [] i = p + 1  -> group
                      [] OTHER      -> s[i - 1]
           r == PutAt(s, group, p)
<1>1. Len(s) \in Nat /\ \A i \in 1 .. Len(s) : s[i] \in Groups /\ s[i] # group
  BY DEF Members
<1>2. r = [i \in 1 .. Len(s) + 1 |-> at(i)]
  BY DEF PutAt
<1>3. \A i, j \in 1 .. Len(s) : s[i] = s[j] => i = j
  BY DEF Distinct
<1>4. \A i \in 1 .. Len(s) + 1 :
        \/ i <= p /\ i \in 1 .. Len(s) /\ at(i) = s[i]
        \/ i = p + 1 /\ at(i) = group
        \/ i > p + 1 /\ i - 1 \in 1 .. Len(s) /\ at(i) = s[i - 1]
  BY ONLY <1>1, p \in 0 .. Len(s)
<1>5. \A i \in 1 .. Len(s) + 1 : at(i) \in Groups
  BY <1>1, <1>4
<1>6. \A i, j \in 1 .. Len(s) + 1 : at(i) = at(j) => i = j
  <2> HIDE DEF at
  <2> QED BY ONLY <1>1, <1>3, <1>4, p \in 0 .. Len(s)
<1> HIDE DEF at, r
<1>7. r \in [1 .. Len(s) + 1 -> Groups] /\ Len(s) + 1 \in Nat
  BY <1>1, <1>2, <1>5
<1>8. r \in Seq(Groups) /\ DOMAIN r = 1 .. Len(s) + 1
  BY <1>7
<1>9. Distinct(r)
  BY <1>2, <1>6, <1>8 DEF Distinct
<1> QED BY <1>8, <1>9 DEF r

\* The members of a list after one of them is removed.
LEMMA RestIs ==
  ASSUME NEW S, NEW list \in Seq(S), Distinct(list), NEW p \in Members(list),
         NEW votes, Sorted(list, votes)
  PROVE  /\ Sorted(Rest(list, p), votes)
         /\ Members(Rest(list, p)) = Members(list) \ {p}
  <1> DEFINE k == PlaceOf(list, p)
             n == Len(list)
             rest == Rest(list, p)
             of(i) == IF i < k THEN i ELSE i + 1
  <1>1. /\ k \in 1 .. n /\ list[k] = p
        /\ rest \in Seq(S) /\ Len(rest) = n - 1
        /\ \A i \in 1 .. n - 1 : rest[i] = list[of(i)]
        /\ p \notin Members(rest)
    BY RestShifts, PlaceOfMember
  <1>2. n \in Nat /\ DOMAIN list = 1 .. n
    OBVIOUS
  <1> HIDE DEF k, n, rest
  <1>3. /\ \A i \in 1 .. n - 1 : of(i) \in 1 .. n
        /\ \A l \in (1 .. n) \ {k} : \E i \in 1 .. n - 1 : l = of(i)
        /\ \A i, j \in 1 .. n - 1 : i < j => of(i) < of(j)
    <2>1. \A i \in 1 .. n - 1 : of(i) \in 1 .. n
      BY ONLY <1>1, <1>2
    <2>2. ASSUME NEW l \in (1 .. n) \ {k} PROVE \E i \in 1 .. n - 1 : l = of(i)
      <3>1. (IF l < k THEN l ELSE l - 1) \in 1 .. n - 1
        BY ONLY <1>1, <1>2, l \in (1 .. n) \ {k}
      <3>2. l = of(IF l < k THEN l ELSE l - 1)
        BY ONLY <1>1, <1>2, l \in (1 .. n) \ {k}
      <3> QED BY <3>1, <3>2
    <2>3. \A i, j \in 1 .. n - 1 : i < j => of(i) < of(j)
      BY ONLY <1>1, <1>2
    <2> QED BY <2>1, <2>2, <2>3
  <1> HIDE DEF of
  <1>4. DOMAIN rest = 1 .. n - 1
    BY <1>1
  <1>5. Sorted(rest, votes)
    <2> SUFFICES ASSUME NEW i \in 1 .. n - 1, NEW j \in 1 .. n - 1, i < j
                 PROVE  votes[rest[i]] >= votes[rest[j]]
      BY <1>4 DEF Sorted
    <2> QED BY <1>1, <1>2, <1>3 DEF Sorted
  <1>6. Members(rest) = Members(list) \ {p}
    <2>1. \A i \in 1 .. n - 1 : rest[i] \in Members(list) \ {p}
      BY <1>1, <1>2, <1>3, <1>4 DEF Members
    <2>2. ASSUME NEW x \in Members(list) \ {p} PROVE x \in Members(rest)
      <3>1. PICK l \in 1 .. n : x = list[l]
        BY <1>2 DEF Members
      <3>2. PICK i \in 1 .. n - 1 : l = of(i)
        BY <3>1, <1>1, <1>3
      <3> QED BY <3>1, <3>2, <1>1, <1>4 DEF Members
    <2> QED BY <1>4, <2>1, <2>2 DEF Members
  <1> QED BY <1>5, <1>6 DEF rest

\* A list into which p is put where its total fits.
LEMMA PutAtIs ==
  ASSUME NEW S, NEW rest \in Seq(S), NEW p \in S, p \notin Members(rest),
         NEW votes, \A x \in S : votes[x] \in Int, Sorted(rest, votes), NEW total \in Int,
         NEW then, then[p] = total, \A x \in S \ {p} : then[x] = votes[x],
         NEW place \in 0 .. Len(rest), Fits(rest, votes, total, place)
  PROVE  /\ Sorted(PutAt(rest, p, place), then)
         /\ Members(PutAt(rest, p, place)) = Members(rest) \cup {p}
  <1> DEFINE n == Len(rest)
             at(i) == CASE i <= place     -> rest[i]
                        [] i = place + 1  -> p
                        [] OTHER          -> rest[i - 1]
             r == PutAt(rest, p, place)
             u(i) == votes[rest[i]]
  <1>1. /\ n \in Nat /\ DOMAIN rest = 1 .. n /\ place \in 0 .. n
        /\ \A i \in 1 .. n : rest[i] \in S /\ rest[i] # p /\ rest[i] \in Members(rest)
    BY DEF Members
  <1>2. DOMAIN r = 1 .. n + 1 /\ \A i \in 1 .. n + 1 : r[i] = at(i)
    BY DEF PutAt
  <1>3. \A i \in 1 .. n : then[rest[i]] = u(i) /\ u(i) \in Int
    BY <1>1
  <1>4. \A i, j \in 1 .. n : i < j => u(i) >= u(j)
    BY <1>1 DEF Sorted
  <1>5. /\ place > 0 => u(place) >= total
        /\ place < n => u(place + 1) <= total
    BY DEF Fits
  <1> HIDE DEF n, r, u
  <1>6. \A i \in 1 .. n + 1 :
          \/ i <= place /\ i \in 1 .. n /\ at(i) = rest[i]
          \/ i = place + 1 /\ at(i) = p
          \/ i > place + 1 /\ i - 1 \in 1 .. n /\ at(i) = rest[i - 1]
    BY ONLY <1>1
  <1>7. /\ \A i \in 1 .. n : i <= place => u(i) >= total
        /\ \A i \in 1 .. n : i > place => u(i) <= total
    <2>1. ASSUME NEW i \in 1 .. n, i <= place PROVE u(i) >= total
      <3>1. place \in 1 .. n /\ u(place) >= total
        BY <1>1, <1>5, <2>1
      <3>2. i = place \/ u(i) >= u(place)
        BY ONLY <1>1, <1>4, <2>1, <3>1
      <3> QED BY <1>3, <3>1, <3>2
    <2>2. ASSUME NEW i \in 1 .. n, i > place PROVE u(i) <= total
      <3>1. PICK m \in 1 .. n : m = place + 1 /\ u(m) <= total
        BY <1>1, <1>5, <2>2
      <3>2. i = m \/ m < i
        BY ONLY <1>1, <2>2, <3>1
      <3>3. i = m \/ u(m) >= u(i)
        BY <1>4, <3>2
      <3> QED BY <1>3, <3>1, <3>3
    <2> QED BY <2>1, <2>2
  <1> HIDE DEF at
  <1>8. Sorted(r, then)
    <2> SUFFICES ASSUME NEW i \in 1 .. n + 1, NEW j \in 1 .. n + 1, i < j
                 PROVE  then[at(i)] >= then[at(j)]
      BY <1>2 DEF Sorted
    <2>1. CASE j <= place
      <3>1. /\ i \in 1 .. n /\ j \in 1 .. n /\ at(i) = rest[i] /\ at(j) = rest[j]
        BY ONLY <1>1, <1>6, <2>1, i < j, i \in 1 .. n + 1, j \in 1 .. n + 1
      <3> QED BY <1>3, <1>4, <3>1
    <2>2. CASE j = place + 1
      <3>1. i \in 1 .. n /\ i <= place /\ at(i) = rest[i] /\ at(j) = p
        BY ONLY <1>1, <1>6, <2>2, i < j, i \in 1 .. n + 1, j \in 1 .. n + 1
      <3> QED BY <1>3, <1>7, <3>1
    <2>3. CASE j > place + 1
      <3>1. PICK l \in 1 .. n : l = j - 1 /\ l > place /\ at(j) = rest[l]
        BY ONLY <1>1, <1>6, <2>3, j \in 1 .. n + 1
      <3>2. \/ i = place + 1 /\ at(i) = p
            \/ \E k \in 1 .. n : k < l /\ at(i) = rest[k]
        BY ONLY <1>1, <1>6, <3>1, i < j, i \in 1 .. n + 1, j \in 1 .. n + 1
      <3>3. CASE at(i) = p
        BY <1>3, <1>7, <3>1, <3>3
      <3>4. ASSUME NEW k \in 1 .. n, k < l, at(i) = rest[k] PROVE then[at(i)] >= then[at(j)]
        BY <1>3, <1>4, <3>1, <3>4
      <3> QED BY <3>2, <3>3, <3>4
    <2> QED BY ONLY <1>1, <2>1, <2>2, <2>3, j \in 1 .. n + 1
  <1>9. Members(r) = Members(rest) \cup {p}
    <2>1. \A i \in 1 .. n + 1 : r[i] \in Members(rest) \cup {p}
      BY <1>1, <1>2, <1>6
    <2>2. p \in Members(r)
      <3>1. PICK m \in 1 .. n + 1 : m = place + 1
        BY <1>1
      <3>2. at(m) = p
        BY <1>1, <3>1 DEF at
      <3> QED BY <1>2, <3>1, <3>2 DEF Members
    <2>3. ASSUME NEW i \in 1 .. n PROVE rest[i] \in Members(r)
      <3>1. PICK m \in 1 .. n + 1 : m = IF i <= place THEN i ELSE i + 1
        BY <1>1
      <3>2. at(m) = rest[i]
        BY <1>1, <3>1 DEF at
      <3> QED BY <1>2, <3>2 DEF Members
    <2> QED BY <1>1, <1>2, <2>1, <2>2, <2>3 DEF Members
  <1> QED BY <1>8, <1>9 DEF r

-----------------------------------------------------------------------------
(* The hints.                                                              *)

\* findLesserAndGreaterAfterVote of contractkit's Election wrapper: for every
\* list without repetitions, every group of it and every weight, the contract
\* finds a place with the two neighbours.
THEOREM HintsFit ==
  ASSUME NEW Groups, NEW s \in Seq(Groups), Distinct(s), Nobody \notin Groups,
         NEW votes \in [Groups -> Int],
         NEW group \in Members(s), NEW weight \in Int
  PROVE  Accepts(s, votes, group, votes[group] + weight,
                 LesserAndGreater(s, votes, group, weight))
<1> DEFINE total == votes[group] + weight
           k == PlaceOf(s, group)
           n == Len(s)
           rest == Rest(s, group)
           B == Below(s, votes, group, total)
           A == Above(s, votes, group, total)
           O == Others(s, group)
           hint == LesserAndGreater(s, votes, group, weight)
           of(i) == IF i < k THEN i ELSE i + 1
           to(i) == IF i < k THEN i ELSE i - 1
<1>1. /\ k \in 1 .. n
      /\ rest \in Seq(Groups) /\ Len(rest) = n - 1
      /\ \A i \in 1 .. n - 1 : rest[i] = s[of(i)]
      /\ O = (1 .. n) \ {k}
  BY RestShifts
<1>2. n \in Nat /\ \A i \in 1 .. n : s[i] \in Groups /\ votes[s[i]] \in Int
  OBVIOUS
<1>3. total \in Int
  BY DEF Members
<1>4. /\ hint.lesser = IF B = {} THEN Nobody ELSE s[First(B)]
      /\ hint.greater = IF A = {} THEN Nobody ELSE s[Latest(A)]
  BY DEF LesserAndGreater, VoteTotal
<1>5. /\ B = {i \in O : votes[s[i]] <= total}
      /\ A = {i \in O : \A j \in B : i < j}
  BY DEF Below, Above
<1> HIDE DEF total, k, n, rest, B, A, O, hint
<1>6. A \in SUBSET (0 .. n) /\ B \in SUBSET Nat /\ A \subseteq O /\ B \subseteq O
  BY ONLY <1>1, <1>2, <1>5
<1>7. /\ \A i \in 1 .. n - 1 : of(i) \in O /\ to(of(i)) = i
      /\ \A i \in O : to(i) \in 1 .. n - 1 /\ of(to(i)) = i
      /\ \A i, j \in O : i < j => to(i) < to(j)
  BY ONLY <1>1, <1>2
<1>8. \A i \in O : s[i] = rest[to(i)] /\ s[i] \in Members(rest) /\ s[i] # Nobody
  <2> TAKE i \in O
  <2>1. to(i) \in 1 .. n - 1 /\ of(to(i)) = i
    BY ONLY <1>7, i \in O
  <2>2. s[i] = rest[to(i)]
    BY ONLY <1>1, <2>1
  <2>3. s[i] \in Groups
    BY ONLY <1>1, <1>2, i \in O
  <2>4. DOMAIN rest = 1 .. n - 1
    BY <1>1
  <2>5. s[i] \in Members(rest)
    BY ONLY <2>1, <2>2, <2>4 DEF Members
  <2> QED BY <2>2, <2>3, <2>5
<1>9. B # {} => First(B) \in B /\ \A j \in B : First(B) <= j
  BY <1>6, FirstIsLeast
<1>10. A # {} => Latest(A) \in A
  BY <1>2, <1>6, LatestIsGreatest
<1>11. {hint.lesser, hint.greater} \subseteq Members(rest) \cup {Nobody}
  BY ONLY <1>4, <1>6, <1>8, <1>9, <1>10
<1>12. hint.lesser # Nobody \/ hint.greater # Nobody \/ rest = <<>>
  <2>1. CASE B # {}
    BY ONLY <2>1, <1>4, <1>6, <1>8, <1>9
  <2>2. CASE B = {} /\ A # {}
    BY ONLY <2>2, <1>4, <1>6, <1>8, <1>10
  <2>3. CASE B = {} /\ A = {}
    <3>1. O = {}
      BY ONLY <2>3, <1>5
    <3>2. 1 = k /\ n = k
      <4>1. 1 \in 1 .. n /\ n \in 1 .. n
        BY ONLY <1>1, <1>2
      <4> QED BY ONLY <4>1, <3>1, <1>1
    <3>3. Len(rest) = 0
      BY <3>2, <1>1, <1>2
    <3> QED BY <3>3, <1>1
  <2> QED BY <2>1, <2>2, <2>3
<1>13. \E p \in 0 .. Len(rest) :
         /\ Fits(rest, votes, total, p)
         /\ \/ hint.lesser = Nobody /\ p = Len(rest)
            \/ p < Len(rest) /\ rest[p + 1] = hint.lesser
  <2>1. CASE B = {}
    <3>1. hint.lesser = Nobody
      BY <2>1, <1>4
    <3>2. n - 1 > 0 => votes[rest[n - 1]] >= total
      <4> SUFFICES ASSUME n - 1 > 0 PROVE votes[rest[n - 1]] >= total
        OBVIOUS
      <4>1. n - 1 \in 1 .. n - 1
        BY <1>2
      <4>2. of(n - 1) \in O /\ rest[n - 1] = s[of(n - 1)]
        BY ONLY <4>1, <1>1, <1>7
      <4>3. ~(votes[s[of(n - 1)]] <= total)
        BY ONLY <4>2, <2>1, <1>5
      <4>4. votes[s[of(n - 1)]] \in Int
        BY ONLY <4>2, <1>1, <1>2
      <4> QED BY ONLY <4>2, <4>3, <4>4, <1>3
    <3>3. Len(rest) \in 0 .. Len(rest) /\ Fits(rest, votes, total, Len(rest))
      BY <3>2, <1>1, <1>2 DEF Fits
    <3> QED BY <3>1, <3>3
  <2>2. CASE B # {}
    <3> DEFINE b == First(B)
               p == to(b) - 1
    <3>1. b \in B /\ b \in O /\ (\A j \in B : b <= j) /\ votes[s[b]] <= total
      BY ONLY <2>2, <1>5, <1>9
    <3> HIDE DEF b
    <3>2. p \in 0 .. n - 2 /\ p + 1 = to(b)
      BY ONLY <3>1, <1>1, <1>2, <1>7
    <3>3. rest[p + 1] = s[b] /\ hint.lesser = s[b]
      BY <3>1, <3>2, <2>2, <1>4, <1>8 DEF b
    <3>4. p > 0 => votes[rest[p]] >= total
      <4> SUFFICES ASSUME p > 0 PROVE votes[rest[p]] >= total
        OBVIOUS
      <4>1. p \in 1 .. n - 1
        BY ONLY <3>2, p > 0, <1>2
      <4>2. of(p) \in O /\ rest[p] = s[of(p)] /\ of(p) < b
        BY ONLY <4>1, <3>1, <3>2, <1>1, <1>2, <1>7
      <4>3. of(p) \notin B
        BY ONLY <4>2, <3>1, <1>1, <1>2
      <4>4. ~(votes[s[of(p)]] <= total) /\ votes[s[of(p)]] \in Int
        BY ONLY <4>2, <4>3, <1>1, <1>2, <1>5
      <4> QED BY ONLY <4>2, <4>4, <1>3
    <3>5. Fits(rest, votes, total, p)
      BY <3>1, <3>3, <3>4 DEF Fits
    <3>6. p \in 0 .. Len(rest) /\ p < Len(rest)
      BY ONLY <3>2, <1>1, <1>2
    <3> QED BY <3>3, <3>5, <3>6
  <2> QED BY <2>1, <2>2
<1>14. Places(rest, votes, total, hint) # {}
  BY <1>13 DEF Places
<1> QED BY <1>11, <1>12, <1>14 DEF Accepts, total, rest, hint
=============================================================================
