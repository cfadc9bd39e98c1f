------------------------- MODULE LockedGoldProofs --------------------------
(***************************************************************************)
(* Theorems about LockedGold, for any terminals, amounts and times.        *)
(***************************************************************************)
EXTENDS LockedGold, NaturalsInduction, WellFoundedInduction, SequenceTheorems,
        TLAPS

-----------------------------------------------------------------------------
(* Recursion over the indexes of a list.                                   *)

\* A set of natural numbers that is not empty has a least one.
LEMMA LeastNatural ==
  ASSUME NEW S \in SUBSET Nat, S # {}
  PROVE  \E i \in S : \A j \in S : i <= j
  <1>1. PICK i \in S : \A j \in S : <<j, i>> \notin OpToRel(<, Nat)
    BY NatLessThanWellFounded, WFMin
  <1>2. \A j \in S : ~(j < i)
    BY <1>1 DEF OpToRel
  <1>3. \A j \in S : i <= j
    BY ONLY <1>2, i \in S, S \in SUBSET Nat
  <1> QED BY ONLY <1>3, i \in S

\* What holds of 0, and of k + 1 when it holds of k, holds up to n.
LEMMA UpTo ==
  ASSUME NEW n \in Nat, NEW S, 0 \in S,
         \A k \in 0 .. n - 1 : k \in S => k + 1 \in S
  PROVE  \A k \in 0 .. n : k \in S
  <1> DEFINE Missing == {k \in 0 .. n : k \notin S}
  <1>1. SUFFICES ASSUME Missing # {} PROVE FALSE
    OBVIOUS
  <1>2. PICK k \in Missing : \A j \in Missing : k <= j
    <2>1. Missing \in SUBSET Nat
      OBVIOUS
    <2> HIDE DEF Missing
    <2> QED BY <1>1, <2>1, LeastNatural
  <1>3. \A j \in Missing : ~(j < k)
    BY <1>2
  <1>4. k \in 1 .. n /\ k \notin S
    OBVIOUS
  <1>5. k - 1 \in 0 .. n - 1 /\ k - 1 + 1 = k
    BY <1>4
  <1>6. k - 1 \in S
    BY <1>3, <1>5
  <1> QED BY <1>4, <1>5, <1>6

\* n steps from a, the k-th of which is the function G[k].
Steps(G, n, A) == \A k \in 1 .. n : \A x \in A : G[k][x] \in A
Iterates(f, a, G, n, A) ==
  /\ f \in [0 .. n -> A]
  /\ f[0] = a /\ \A k \in 1 .. n : f[k] = G[k][f[k - 1]]

\* They can be taken.
LEMMA Iterated ==
  ASSUME NEW A, NEW a \in A, NEW n \in Nat, NEW G, Steps(G, n, A)
  PROVE  \E f : Iterates(f, a, G, n, A)
  <1> DEFINE Good(m, f) ==
        /\ f \in [0 .. m -> A]
        /\ f[0] = a /\ \A k \in 1 .. m : f[k] = G[k][f[k - 1]]
      S == {m \in 0 .. n : \E f : Good(m, f)}
  <1>1. 0 \in S
    <2>1. Good(0, [k \in 0 .. 0 |-> a])
      OBVIOUS
    <2> HIDE DEF Good
    <2>2. 0 \in 0 .. n
      OBVIOUS
    <2> QED BY <2>1, <2>2
  <1>2. ASSUME NEW m \in 0 .. n - 1, m \in S PROVE m + 1 \in S
    <2>1. PICK f : Good(m, f)
      BY <1>2
    <2> DEFINE g == [k \in 0 .. m + 1 |-> IF k = m + 1 THEN G[m + 1][f[m]] ELSE f[k]]
    <2>2. m + 1 \in 1 .. n /\ f[m] \in A
      BY <2>1
    <2>3. G[m + 1][f[m]] \in A
      BY <2>2 DEF Steps
    <2>4. g \in [0 .. m + 1 -> A] /\ g[0] = a
      BY <2>1, <2>3
    <2>5. ASSUME NEW k \in 1 .. m + 1 PROVE g[k] = G[k][g[k - 1]]
      <3>1. k - 1 \in 0 .. m /\ g[k - 1] = f[k - 1]
        OBVIOUS
      <3>2. CASE k = m + 1
        BY <3>1, <3>2
      <3>3. CASE k \in 1 .. m
        BY <2>1, <3>1, <3>3
      <3> QED BY <3>2, <3>3
    <2>6. Good(m + 1, g)
      BY <2>4, <2>5
    <2> HIDE DEF Good, g
    <2> QED BY <2>2, <2>6
  <1>3. n \in S
    <2>1. \A k \in 0 .. n : k \in S
      <3> HIDE DEF S
      <3> QED BY <1>1, <1>2, UpTo
    <2> HIDE DEF S
    <2> QED BY <2>1
  <1> QED BY <1>3 DEF Iterates

-----------------------------------------------------------------------------
(* Sums.                                                                   *)

\* A list of what has a value.
Valued(s) == Len(s) \in Nat /\ \A i \in 1 .. Len(s) : s[i].value \in Nat

\* Each sum is the one before it and the next value.
LEMMA SumsAre ==
  ASSUME NEW s, Valued(s)
  PROVE  /\ Sums(s) \in [0 .. Len(s) -> Nat]
         /\ Sums(s)[0] = 0
         /\ \A k \in 1 .. Len(s) : Sums(s)[k] = Sums(s)[k - 1] + s[k].value
  <1> USE DEF Valued
  <1> DEFINE G == [k \in 1 .. Len(s) |-> [x \in Nat |-> x + s[k].value]]
      Solves(f) == f = [n \in 0 .. Len(s) |->
                          IF n = 0 THEN 0 ELSE f[n - 1] + s[n].value]
  <1>1. Steps(G, Len(s), Nat) /\ 0 \in Nat
    BY DEF Steps
  <1>2. PICK f : Iterates(f, 0, G, Len(s), Nat)
    <2> HIDE DEF G
    <2> QED BY <1>1, Iterated
  <1>3. ASSUME NEW k \in 1 .. Len(s) PROVE f[k] = f[k - 1] + s[k].value
    <2>1. f \in [0 .. Len(s) -> Nat] /\ k - 1 \in 0 .. Len(s)
      BY <1>2 DEF Iterates
    <2>2. f[k - 1] \in Nat
      BY <2>1
    <2>3. f[k] = G[k][f[k - 1]]
      <3> HIDE DEF G
      <3> QED BY <1>2 DEF Iterates
    <2> QED BY <2>2, <2>3
  <1>4. Solves(f)
    BY <1>2, <1>3 DEF Iterates
  <1>5. Solves(Sums(s))
    <2>1. Sums(s) = CHOOSE g : Solves(g)
      BY DEF Sums
    <2> HIDE DEF Solves
    <2> QED BY <1>4, <2>1
  <1>6. Sums(s)[0] = 0
    BY <1>5
  <1>7. \A k \in 1 .. Len(s) : Sums(s)[k] = Sums(s)[k - 1] + s[k].value
    BY <1>5
  <1>8. \A k \in 0 .. Len(s) : Sums(s)[k] \in Nat
    <2> DEFINE S == {k \in 0 .. Len(s) : Sums(s)[k] \in Nat}
    <2>1. 0 \in S
      BY <1>6
    <2>2. \A k \in 0 .. Len(s) - 1 : k \in S => k + 1 \in S
      <3> TAKE k \in 0 .. Len(s) - 1
      <3>1. k + 1 \in 1 .. Len(s) /\ k + 1 - 1 = k
        OBVIOUS
      <3>2. ASSUME Sums(s)[k] \in Nat PROVE Sums(s)[k + 1] \in Nat
        <4>1. s[k + 1].value \in Nat /\ Sums(s)[k + 1] = Sums(s)[k] + s[k + 1].value
          BY <1>7, <3>1
        <4> QED BY <3>2, <4>1
      <3> QED BY <3>1, <3>2
    <2>3. \A k \in 0 .. Len(s) : k \in S
      <3> HIDE DEF S
      <3> QED BY <2>1, <2>2, UpTo
    <2> QED BY <2>3
  <1>9. DOMAIN Sums(s) = 0 .. Len(s) /\ Sums(s) = [k \in 0 .. Len(s) |-> Sums(s)[k]]
    BY <1>5
  <1> QED BY <1>6, <1>7, <1>8, <1>9

\* Lists that begin with the same values have the same first sums.
LEMMA SumsOfSame ==
  ASSUME NEW s, NEW t, Valued(s), Valued(t), NEW n \in Nat, n <= Len(s), n <= Len(t),
         \A i \in 1 .. n : s[i].value = t[i].value
  PROVE  \A k \in 0 .. n : Sums(s)[k] = Sums(t)[k]
  <1> DEFINE S == {k \in 0 .. n : Sums(s)[k] = Sums(t)[k]}
  <1>1. 0 \in S
    BY SumsAre
  <1>2. ASSUME NEW k \in 0 .. n - 1, k \in S PROVE k + 1 \in S
    <2>1. k + 1 \in 1 .. n /\ k + 1 \in 1 .. Len(s) /\ k + 1 \in 1 .. Len(t) /\ k + 1 - 1 = k
      BY DEF Valued
    <2>2. Sums(s)[k + 1] = Sums(s)[k] + s[k + 1].value
      BY <2>1, SumsAre
    <2>3. Sums(t)[k + 1] = Sums(t)[k] + t[k + 1].value
      BY <2>1, SumsAre
    <2>4. Sums(s)[k + 1] = Sums(t)[k + 1]
      BY <1>2, <2>1, <2>2, <2>3
    <2> QED BY <2>1, <2>4
  <1>3. \A k \in 0 .. n : k \in S
    <2> HIDE DEF S
    <2> QED BY <1>1, <1>2, UpTo
  <1> QED BY <1>3

\* Sums grow.
LEMMA SumsGrow ==
  ASSUME NEW s, Valued(s), NEW i \in 0 .. Len(s)
  PROVE  Sums(s)[i] \in Nat /\ SumOf(s) \in Nat /\ Sums(s)[i] <= SumOf(s)
  <1> USE DEF Valued
  <1> DEFINE S == {k \in 0 .. Len(s) : k >= i => Sums(s)[i] <= Sums(s)[k]}
  <1>1. \A k \in 0 .. Len(s) : Sums(s)[k] \in Nat
    BY SumsAre
  <1>2. 0 \in S
    BY <1>1
  <1>3. ASSUME NEW k \in 0 .. Len(s) - 1, k \in S PROVE k + 1 \in S
    <2>1. k + 1 \in 1 .. Len(s) /\ k + 1 - 1 = k /\ k \in 0 .. Len(s)
      OBVIOUS
    <2>2. Sums(s)[k + 1] = Sums(s)[k] + s[k + 1].value /\ s[k + 1].value \in Nat
      BY <2>1, SumsAre
    <2>3. CASE k + 1 = i
      BY <1>1, <2>1, <2>3
    <2>4. CASE k + 1 # i
      <3>1. ASSUME k + 1 >= i PROVE Sums(s)[i] <= Sums(s)[k + 1]
        <4>1. Sums(s)[i] <= Sums(s)[k]
          BY <1>3, <2>1, <2>4, <3>1
        <4>2. Sums(s)[k] \in Nat /\ Sums(s)[i] \in Nat
          BY <1>1, <2>1
        <4> QED BY <2>2, <4>1, <4>2
      <3> QED BY <2>1, <3>1
    <2> QED BY <2>3, <2>4
  <1>4. \A k \in 0 .. Len(s) : k \in S
    <2> HIDE DEF S
    <2> QED BY <1>2, <1>3, UpTo
  <1>5. Len(s) \in S
    BY <1>4
  <1> QED BY <1>1, <1>5 DEF SumOf

\* A list that another one is appended to ...
LEMMA SumOfAppend ==
  ASSUME NEW R, NEW s \in Seq(R), NEW e \in R, \A r \in R : r.value \in Nat
  PROVE  SumOf(Append(s, e)) = SumOf(s) + e.value
  <1> DEFINE t == Append(s, e)
  <1>1. /\ Len(s) \in Nat /\ Len(t) = Len(s) + 1 /\ t[Len(s) + 1] = e
        /\ \A i \in 1 .. Len(s) : t[i] = s[i] /\ s[i] \in R
    OBVIOUS
  <1>2. Valued(s) /\ Valued(t)
    <2>1. \A i \in 1 .. Len(t) : t[i] \in R
      BY <1>1
    <2> HIDE DEF t
    <2> QED BY <1>1, <2>1 DEF Valued
  <1> HIDE DEF t
  <1>3. Sums(t)[Len(s)] = Sums(s)[Len(s)]
    BY <1>1, <1>2, SumsOfSame
  <1>4. Sums(t)[Len(t)] = Sums(t)[Len(s)] + e.value
    <2>1. Len(t) \in 1 .. Len(t) /\ Len(t) - 1 = Len(s)
      BY <1>1
    <2> QED BY <1>1, <1>2, <2>1, SumsAre
  <1> QED BY <1>3, <1>4 DEF t, SumOf

\* ... one of which one element changes ...
LEMMA SumOfChanged ==
  ASSUME NEW s, NEW t, Valued(s), Valued(t), Len(s) = Len(t), NEW i \in 1 .. Len(s),
         \A j \in 1 .. Len(s) : j # i => s[j].value = t[j].value
  PROVE  SumOf(t) + s[i].value = SumOf(s) + t[i].value
  <1> USE DEF Valued
  <1> DEFINE S == {k \in 0 .. Len(s) :
                     k >= i => Sums(t)[k] + s[i].value = Sums(s)[k] + t[i].value}
  <1>0. /\ \A k \in 0 .. Len(s) : Sums(s)[k] \in Nat /\ Sums(t)[k] \in Nat
        /\ s[i].value \in Nat /\ t[i].value \in Nat
    BY SumsAre
  <1>1. 0 \in S
    OBVIOUS
  <1>2. ASSUME NEW k \in 0 .. Len(s) - 1, k \in S PROVE k + 1 \in S
    <2>1. k + 1 \in 1 .. Len(s) /\ k + 1 - 1 = k /\ k \in 0 .. Len(s)
      OBVIOUS
    <2>2. /\ Sums(s)[k + 1] = Sums(s)[k] + s[k + 1].value
          /\ Sums(t)[k + 1] = Sums(t)[k] + t[k + 1].value
          /\ s[k + 1].value \in Nat /\ t[k + 1].value \in Nat
      <3>1. PICK m \in Nat : m = k + 1
        OBVIOUS
      <3>2. m \in 1 .. Len(s) /\ m \in 1 .. Len(t) /\ m - 1 = k
        BY <3>1
      <3> HIDE DEF S
      <3>3. Sums(s)[m] = Sums(s)[m - 1] + s[m].value
        BY <3>2, SumsAre
      <3>4. Sums(t)[m] = Sums(t)[m - 1] + t[m].value
        BY <3>2, SumsAre
      <3>5. s[m].value \in Nat /\ t[m].value \in Nat
        BY <3>2
      <3> QED BY <3>1, <3>2, <3>3, <3>4, <3>5
    <2>3. CASE k + 1 = i
      <3>1. k \in Nat /\ k <= Len(s) /\ k <= Len(t) /\ \A j \in 1 .. k : s[j].value = t[j].value
        BY <2>3
      <3>2. Sums(s)[k] = Sums(t)[k]
        <4>1. k \in 0 .. k
          BY <3>1
        <4> HIDE DEF S
        <4> QED BY <3>1, <4>1, SumsOfSame
      <3> QED BY <1>0, <2>1, <2>2, <2>3, <3>2
    <2>4. CASE k + 1 > i
      <3>1. Sums(t)[k] + s[i].value = Sums(s)[k] + t[i].value
        BY <1>2, <2>1, <2>4
      <3>2. s[k + 1].value = t[k + 1].value
        BY <2>1, <2>4
      <3>3. /\ Sums(s)[k] \in Nat /\ Sums(t)[k] \in Nat
            /\ s[i].value \in Nat /\ t[i].value \in Nat
        BY <1>0, <2>1
      <3>4. Sums(t)[k + 1] + s[i].value = Sums(s)[k + 1] + t[i].value
        <4> HIDE DEF S, Valued
        <4>1. PICK a \in Nat : a = Sums(s)[k]
          BY ONLY <3>3
        <4>2. PICK b \in Nat : b = Sums(t)[k]
          BY ONLY <3>3
        <4>3. PICK x \in Nat : x = s[k + 1].value
          BY ONLY <2>2
        <4>4. PICK u \in Nat, v \in Nat : u = s[i].value /\ v = t[i].value
          BY ONLY <3>3
        <4>5. b + u = a + v
          BY <3>1, <4>1, <4>2, <4>4
        <4>6. b + x + u = a + x + v
          BY ONLY <4>5, a \in Nat, b \in Nat, u \in Nat, v \in Nat, x \in Nat
        <4>7. Sums(s)[k + 1] = a + x /\ Sums(t)[k + 1] = b + x
          BY <2>2, <3>2, <4>1, <4>2, <4>3
        <4> QED BY <4>4, <4>6, <4>7
      <3> QED BY <2>1, <3>4
    <2>5. CASE k + 1 < i
      BY <2>1, <2>5
    <2> QED BY <2>3, <2>4, <2>5
  <1>3. \A k \in 0 .. Len(s) : k \in S
    <2> HIDE DEF S
    <2> QED BY <1>1, <1>2, UpTo
  <1>4. Len(s) \in S
    BY <1>3
  <1> QED BY <1>4 DEF SumOf

\* ... and one of which the last element is cut off.
LEMMA SumOfShorter ==
  ASSUME NEW R, NEW s \in Seq(R), Len(s) > 0, \A r \in R : r.value \in Nat
  PROVE  SumOf(s) = SumOf(SubSeq(s, 1, Len(s) - 1)) + s[Len(s)].value
  <1> DEFINE t == SubSeq(s, 1, Len(s) - 1)
  <1>1. /\ Len(s) \in Nat /\ Len(t) = Len(s) - 1 /\ Len(s) \in 1 .. Len(s)
        /\ \A i \in 1 .. Len(t) : t[i] = s[i]
        /\ \A i \in 1 .. Len(s) : s[i] \in R
    <2>1. Len(s) \in Nat /\ Len(s) - 1 \in Nat /\ \A i \in 1 .. Len(s) : s[i] \in R
      OBVIOUS
    <2>2. /\ Len(t) = Len(s) - 1
          /\ \A i \in 1 .. Len(s) - 1 : t[i] = s[i]
      <3>1. PICK m \in Nat : m = Len(s) - 1
        BY <2>1
      <3>2. \A i \in 1 .. m : s[i] \in R
        BY <2>1, <3>1
      <3>3. /\ Len(SubSeq(s, 1, m)) = IF 1 <= m THEN m - 1 + 1 ELSE 0
            /\ \A i \in 1 .. m - 1 + 1 : SubSeq(s, 1, m)[i] = s[1 + i - 1]
        BY <3>2, SubSeqProperties
      <3>4. m - 1 + 1 = m /\ \A i \in 1 .. m : 1 + i - 1 = i
        OBVIOUS
      <3>5. Len(SubSeq(s, 1, m)) = m /\ \A i \in 1 .. m : SubSeq(s, 1, m)[i] = s[i]
        BY <3>3, <3>4
      <3> QED BY <3>1, <3>5
    <2> QED BY <2>1, <2>2
  <1> HIDE DEF t
  <1>2. Valued(s) /\ Valued(t)
    BY <1>1 DEF Valued
  <1>3. Sums(t)[Len(t)] = Sums(s)[Len(t)]
    <2>1. Len(t) \in Nat /\ Len(t) <= Len(s) /\ Len(t) \in 0 .. Len(t)
      BY <1>1
    <2>2. \A i \in 1 .. Len(t) : t[i].value = s[i].value
      BY <1>1
    <2> QED BY <1>2, <2>1, <2>2, SumsOfSame
  <1>4. Sums(s)[Len(s)] = Sums(s)[Len(t)] + s[Len(s)].value
    BY <1>1, <1>2, SumsAre
  <1> QED BY <1>3, <1>4 DEF t, SumOf

-----------------------------------------------------------------------------
(* The transactions of relock.                                             *)

Accumulators == [remaining : Nat, txos : Seq(Txos)]

\* One turn of reduceRight, on what it has accumulated.
Turn(w, k, x) ==
  LET part == Minimum(w[Len(w) + 1 - k].value, x.remaining) IN
  IF part = 0 THEN x
  ELSE [remaining |-> x.remaining - part,
        txos |-> Append(x.txos, [index |-> Len(w) + 1 - k, value |-> part])]

\* A turn accumulates a value that is left and transactions.
LEMMA TurnType ==
  ASSUME NEW w, Valued(w), NEW k \in 1 .. Len(w), NEW x \in Accumulators
  PROVE  Turn(w, k, x) \in Accumulators
  <1>1. Len(w) \in Nat /\ Len(w) + 1 - k \in 1 .. Len(w)
    BY DEF Valued
  <1>2. PICK a \in Nat, r \in Nat : a = w[Len(w) + 1 - k].value /\ r = x.remaining
    BY <1>1 DEF Valued, Accumulators
  <1>3. Minimum(a, r) \in Nat /\ r - Minimum(a, r) \in Nat
    BY DEF Minimum
  <1>4. ASSUME Minimum(a, r) # 0
        PROVE  Append(x.txos, [index |-> Len(w) + 1 - k, value |-> Minimum(a, r)])
                 \in Seq(Txos)
    <2>1. [index |-> Len(w) + 1 - k, value |-> Minimum(a, r)] \in Txos
      BY <1>1, <1>3, <1>4 DEF Txos
    <2> QED BY <2>1 DEF Accumulators
  <1> QED BY <1>2, <1>3, <1>4 DEF Turn, Accumulators

\* It begins with the whole value, and goes on from turn to turn.
LEMMA RelockedTurns ==
  ASSUME NEW w, Valued(w), NEW v \in Nat
  PROVE  /\ Relocked(w, v)[0] = [remaining |-> v, txos |-> <<>>]
         /\ \A k \in 1 .. Len(w) :
              Relocked(w, v)[k] = Turn(w, k, Relocked(w, v)[k - 1])
  <1> DEFINE a == [remaining |-> v, txos |-> <<>>]
      G == [k \in 1 .. Len(w) |-> [x \in Accumulators |-> Turn(w, k, x)]]
      Solves(f) == f = [k \in 0 .. Len(w) |->
                          IF k = 0 THEN a ELSE Turn(w, k, f[k - 1])]
  <1>1. Steps(G, Len(w), Accumulators)
    BY TurnType DEF Steps
  <1>2. a \in Accumulators /\ Len(w) \in Nat
    BY DEF Accumulators, Valued
  <1>3. PICK f : Iterates(f, a, G, Len(w), Accumulators)
    <2> HIDE DEF G, a
    <2> QED BY <1>1, <1>2, Iterated
  <1>4. ASSUME NEW k \in 1 .. Len(w) PROVE f[k] = Turn(w, k, f[k - 1])
    <2>1. f \in [0 .. Len(w) -> Accumulators] /\ k - 1 \in 0 .. Len(w)
      BY <1>2, <1>3 DEF Iterates
    <2>2. f[k - 1] \in Accumulators
      BY <2>1
    <2>3. f[k] = G[k][f[k - 1]]
      <3> HIDE DEF G
      <3> QED BY <1>3 DEF Iterates
    <2> QED BY <2>2, <2>3
  <1>5. Solves(f)
    BY <1>3, <1>4 DEF Iterates
  <1>6. Solves(Relocked(w, v))
    <2>1. Relocked(w, v) = CHOOSE g : Solves(g)
      BY Zenon DEF Relocked, Turn
    <2> HIDE DEF Solves
    <2> QED BY <1>5, <2>1
  <1> QED BY <1>2, <1>6

\* Each takes from a withdrawal of its own, counted from the end, all of it but for
\* the last one.
FromTheEnd(w, txs) ==
  /\ txs \in Seq([index : 1 .. Len(w), value : Nat \ {0}])
  /\ Len(txs) <= Len(w)
  /\ \A j \in 1 .. Len(txs) :
       /\ txs[j].index = Len(w) + 1 - j
       /\ txs[j].value <= w[Len(w) + 1 - j].value
       /\ j < Len(txs) => txs[j].value = w[Len(w) + 1 - j].value

\* After k turns: as many withdrawals, and all of each, as long as something remains.
Turned(w, v, k) ==
  LET x == Relocked(w, v)[k] IN
  /\ x.remaining \in 0 .. v /\ FromTheEnd(w, x.txos) /\ Len(x.txos) <= k
  /\ SumOf(x.txos) + x.remaining = v
  /\ x.remaining > 0 =>
       /\ Len(x.txos) = k
       /\ \A j \in 1 .. k : x.txos[j].value = w[Len(w) + 1 - j].value
       /\ SumOf(x.txos) + Sums(w)[Len(w) - k] = SumOf(w)
  /\ x.remaining = 0 => v <= SumOf(w)

Positive(w) == Len(w) \in Nat /\ \A i \in 1 .. Len(w) : w[i].value \in Nat \ {0}

\* What is positive is a value.
LEMMA PositiveIsValued == ASSUME NEW w, Positive(w) PROVE Valued(w)
  BY DEF Positive, Valued

\* Transactions have values.
LEMMA FromTheEndIsValued ==
  ASSUME NEW w, NEW txs, FromTheEnd(w, txs)
  PROVE  Valued(txs) /\ SumOf(txs) \in Nat
  <1>1. PICK R : R = [index : 1 .. Len(w), value : Nat \ {0}]
    OBVIOUS
  <1>4. txs \in Seq(R)
    BY <1>1 DEF FromTheEnd
  <1>5. Len(txs) \in Nat /\ \A i \in 1 .. Len(txs) : txs[i] \in R
    BY <1>4
  <1>6. \A i \in 1 .. Len(txs) : txs[i].value \in Nat
    BY <1>1, <1>5
  <1>2. Valued(txs)
    BY <1>5, <1>6 DEF Valued
  <1>3. 0 \in 0 .. Len(txs)
    BY <1>5
  <1> QED BY <1>2, <1>3, SumsGrow

\* Nothing is accumulated before the first turn ...
LEMMA TurnedFirst ==
  ASSUME NEW w, Positive(w), NEW v \in Nat
  PROVE  Turned(w, v, 0)
  <1>1. Valued(w)
    BY PositiveIsValued
  <1>2. Len(w) \in Nat /\ SumOf(w) \in Nat
    <2>1. 0 \in 0 .. Len(w)
      BY <1>1 DEF Valued
    <2> QED BY <1>1, <2>1, SumsGrow DEF Valued
  <1>3. Valued(<<>>) /\ Len(<<>>) = 0
    BY DEF Valued
  <1>4. SumOf(<<>>) = 0
    BY <1>3, SumsAre DEF SumOf
  <1>5. FromTheEnd(w, <<>>)
    BY <1>2, <1>3 DEF FromTheEnd
  <1>6. Relocked(w, v)[0].remaining = v /\ Relocked(w, v)[0].txos = <<>>
    <2>1. Relocked(w, v)[0] = [remaining |-> v, txos |-> <<>>]
      BY <1>1, RelockedTurns
    <2> QED BY <2>1
  <1>7. Sums(w)[Len(w) - 0] = SumOf(w)
    BY <1>2 DEF SumOf
  <1> QED BY <1>2, <1>3, <1>4, <1>5, <1>6, <1>7 DEF Turned

\* Nothing remains only when there was enough.
LEMMA EnoughIsFound ==
  ASSUME NEW taken \in Nat, NEW left \in Nat, NEW rest \in Nat, NEW sum \in Nat,
         NEW value \in Nat, NEW r \in Nat, NEW a \in Nat,
         taken + left = sum, left = rest + a, taken + r = value, r <= a
  PROVE  value <= sum
  OBVIOUS

\* ... and each turn takes what it should from the next withdrawal.
LEMMA TurnedNext ==
  ASSUME NEW w, Positive(w), NEW v \in Nat, NEW k \in 0 .. Len(w) - 1, Turned(w, v, k)
  PROVE  Turned(w, v, k + 1)
  <1>1. Valued(w)
    BY PositiveIsValued
  <1>2. PICK n \in Nat : n = Len(w) /\ k + 1 \in 1 .. n /\ n - k \in 1 .. n
    BY DEF Positive
  <1>3. PICK x, r, T : x = Relocked(w, v)[k] /\ r = x.remaining /\ T = x.txos
    OBVIOUS
  <1>4. PICK y : y = Relocked(w, v)[k + 1]
    OBVIOUS
  <1>5. PICK a \in Nat \ {0} : a = w[n - k].value
    BY <1>2 DEF Positive
  <1>6. y = Turn(w, k + 1, x)
    <2>1. PICK m \in 1 .. Len(w) : m = k + 1 /\ m - 1 = k
      BY <1>2
    <2>2. Relocked(w, v)[m] = Turn(w, m, Relocked(w, v)[m - 1])
      BY <1>1, RelockedTurns
    <2> QED BY <1>3, <1>4, <2>1, <2>2
  <1>7. /\ r \in 0 .. v /\ FromTheEnd(w, T) /\ Len(T) <= k /\ SumOf(T) + r = v
        /\ r > 0 => /\ Len(T) = k
                    /\ \A j \in 1 .. k : T[j].value = w[n + 1 - j].value
                    /\ SumOf(T) + Sums(w)[n - k] = SumOf(w)
        /\ r = 0 => v <= SumOf(w)
    BY <1>2, <1>3 DEF Turned
  <1>8. n + 1 - (k + 1) = n - k
    OBVIOUS
  <1>9. CASE r = 0
    <2>1. Minimum(a, r) = 0
      BY <1>9 DEF Minimum
    <2>2. y = x
      BY <1>2, <1>3, <1>5, <1>6, <1>8, <2>1 DEF Turn
    <2>3. Len(T) <= k + 1
      BY <1>7 DEF FromTheEnd
    <2>4. Relocked(w, v)[k + 1].remaining = r /\ Relocked(w, v)[k + 1].txos = T
      BY <1>3, <1>4, <2>2
    <2>5. ~(r > 0)
      BY <1>9
    <2> QED BY <1>7, <2>3, <2>4, <2>5 DEF Turned
  <1>10. CASE r > 0
    <2> DEFINE part == Minimum(a, r)
               e == [index |-> n - k, value |-> part]
               U == Append(T, e)
    <2>1. part \in Nat \ {0} /\ part <= a /\ part <= r /\ (part < r => part = a)
      BY <1>7, <1>10 DEF Minimum
    <2>2. y.remaining = r - part /\ y.txos = U
      <3>1. y = [remaining |-> r - part, txos |-> U]
        BY <1>2, <1>3, <1>5, <1>6, <1>8, <2>1 DEF Turn
      <3> HIDE DEF U, part
      <3> QED BY <3>1
    <2> HIDE DEF part
    <2>3. e \in [index : 1 .. n, value : Nat \ {0}] /\ e.index = n - k /\ e.value = part
      BY <1>2, <2>1
    <2>4. T \in Seq([index : 1 .. n, value : Nat \ {0}]) /\ Len(T) = k
      BY <1>2, <1>7, <1>10 DEF FromTheEnd
    <2>5. /\ U \in Seq([index : 1 .. n, value : Nat \ {0}])
          /\ Len(U) = k + 1 /\ U[k + 1] = e
          /\ \A j \in 1 .. k : U[j] = T[j]
      <3> HIDE DEF e
      <3> QED BY <2>3, <2>4, AppendProperties
    <2>6. SumOf(U) = SumOf(T) + part
      <3>1. PICK R : R = [index : 1 .. n, value : Nat \ {0}]
        OBVIOUS
      <3>2. \A x1 \in R : x1.value \in Nat
        BY <3>1
      <3> HIDE DEF e
      <3>3. e \in R /\ T \in Seq(R)
        BY <2>3, <2>4, <3>1
      <3>4. SumOf(Append(T, e)) = SumOf(T) + e.value
        BY <3>2, <3>3, SumOfAppend
      <3> QED BY <2>3, <3>4
    <2> HIDE DEF U, e
    <2>7. \A j \in 1 .. k : U[j].index = n + 1 - j /\ U[j].value = w[n + 1 - j].value
      BY <1>2, <1>7, <1>10, <2>4, <2>5 DEF FromTheEnd
    <2>8. FromTheEnd(w, U)
      <3>1. \A j \in 1 .. k + 1 : j \in 1 .. k \/ j = k + 1
        OBVIOUS
      <3>2. \A j \in 1 .. k : w[n + 1 - j].value \in Nat
        <4>1. \A j \in 1 .. k : n + 1 - j \in 1 .. Len(w)
          BY <1>2
        <4> QED BY <1>1, <4>1 DEF Valued
      <3>3. k + 1 <= n
        BY <1>2
      <3>4. ASSUME NEW j \in 1 .. k + 1
            PROVE  /\ U[j].index = n + 1 - j
                   /\ U[j].value <= w[n + 1 - j].value
                   /\ j < k + 1 => U[j].value = w[n + 1 - j].value
        <4>1. CASE j \in 1 .. k
          BY <2>7, <3>2, <4>1
        <4>2. CASE j = k + 1
          BY <1>5, <1>8, <2>1, <2>3, <2>5, <4>2
        <4> QED BY <3>1, <4>1, <4>2
      <3> QED BY <1>2, <2>5, <3>3, <3>4 DEF FromTheEnd
    <2>9. SumOf(T) \in Nat /\ SumOf(w) \in Nat /\ Sums(w)[n - k] \in Nat
          /\ Sums(w)[n - (k + 1)] \in Nat /\ Sums(w)[n - k] = Sums(w)[n - (k + 1)] + a
      <3>1. n - k - 1 = n - (k + 1) /\ n - k \in 0 .. n /\ n - (k + 1) \in 0 .. n
        BY <1>2
      <3>2. SumOf(T) \in Nat
        BY <1>7, FromTheEndIsValued
      <3>3. Sums(w)[n - k] = Sums(w)[n - (k + 1)] + a
        BY <1>1, <1>2, <1>5, <3>1, SumsAre
      <3>4. SumOf(w) \in Nat /\ Sums(w)[n - k] \in Nat /\ Sums(w)[n - (k + 1)] \in Nat
        BY <1>1, <1>2, <3>1, SumsGrow
      <3> QED BY <3>2, <3>3, <3>4
    <2>10. SumOf(U) + (r - part) = v /\ r - part \in 0 .. v
      BY <1>7, <2>1, <2>6, <2>9
    <2>11. ASSUME r - part > 0
           PROVE  /\ \A j \in 1 .. k + 1 : U[j].value = w[n + 1 - j].value
                  /\ SumOf(U) + Sums(w)[n - (k + 1)] = SumOf(w)
      <3>1. part = a
        BY <1>7, <2>1, <2>11
      <3>2. \A j \in 1 .. k + 1 : j \in 1 .. k \/ j = k + 1
        OBVIOUS
      <3>3. \A j \in 1 .. k + 1 : U[j].value = w[n + 1 - j].value
        BY <1>5, <1>8, <2>3, <2>5, <2>7, <3>1, <3>2
      <3>4. SumOf(T) + Sums(w)[n - k] = SumOf(w)
        BY <1>7, <1>10
      <3>5. SumOf(U) + Sums(w)[n - (k + 1)] = SumOf(w)
        BY <2>1, <2>6, <2>9, <3>1, <3>4
      <3> QED BY <3>3, <3>5
    <2>12. ASSUME r - part = 0 PROVE v <= SumOf(w)
      <3>1. SumOf(T) + Sums(w)[n - k] = SumOf(w)
        BY <1>7, <1>10
      <3>2. r <= a
        BY <1>7, <2>1, <2>12
      <3>3. SumOf(T) + r = v /\ r \in Nat /\ a \in Nat
        BY <1>7, <2>1
      <3>4. Sums(w)[n - k] = Sums(w)[n - (k + 1)] + a
        BY <2>9
      <3> QED BY ONLY <2>9, <3>1, <3>2, <3>3, <3>4, v \in Nat, EnoughIsFound
    <2> QED BY <1>2, <1>4, <2>2, <2>5, <2>8, <2>10, <2>11, <2>12 DEF Turned
  <1> QED BY <1>7, <1>9, <1>10

\* relock takes what it finds, up to the value.
LEMMA RelockOfIs ==
  ASSUME NEW w, Positive(w), NEW v \in Nat
  PROVE  /\ FromTheEnd(w, RelockOf(w, v))
         /\ SumOf(RelockOf(w, v)) = Minimum(SumOf(w), v)
         /\ SumOf(w) \in Nat
  <1> DEFINE n == Len(w)
             S == {k \in 0 .. n : Turned(w, v, k)}
  <1>1. n \in Nat
    BY DEF Positive
  <1>2. 0 \in S
    BY <1>1, TurnedFirst
  <1>3. \A k \in 0 .. n - 1 : k \in S => k + 1 \in S
    BY <1>1, TurnedNext
  <1>4. \A k \in 0 .. n : k \in S
    <2> HIDE DEF S
    <2> QED BY <1>1, <1>2, <1>3, UpTo
  <1>5. Turned(w, v, n)
    BY <1>1, <1>4
  <1>6. PICK r, T : r = Relocked(w, v)[n].remaining /\ T = RelockOf(w, v)
    OBVIOUS
  <1>7. /\ r \in 0 .. v /\ FromTheEnd(w, T) /\ SumOf(T) + r = v
        /\ r > 0 => SumOf(T) + Sums(w)[n - n] = SumOf(w)
        /\ r = 0 => v <= SumOf(w)
    BY <1>5, <1>6 DEF Turned, RelockOf
  <1>8. Valued(w) /\ Sums(w)[n - n] = 0 /\ SumOf(w) \in Nat
    <2>1. n - n = 0 /\ 0 \in 0 .. n
      BY <1>1
    <2> QED BY <2>1, PositiveIsValued, SumsAre, SumsGrow
  <1>9. SumOf(T) \in Nat
    BY <1>7, FromTheEndIsValued
  <1>10. SumOf(T) = Minimum(SumOf(w), v)
    BY <1>7, <1>8, <1>9 DEF Minimum
  <1> QED BY <1>6, <1>7, <1>8, <1>10

-----------------------------------------------------------------------------
(* The invariant.                                                          *)

\* The transactions that relock built, and that those before the j-th were sent.
Built(c) == RelockOf(read[c], toRelock[c])
Sent(c, j) == /\ txos[c] = SubSeq(Built(c), j, Len(Built(c)))
              /\ done[c] = Sums(Built(c))[j - 1]

\* Where a command of each kind is before it ends.
Preparing == {"checking", "registering", "registered", "split", "affordable",
              "relockRead"}
OperationOf(c) ==
  /\ pc[c] \in Preparing \cup {"relocking"} => cmd[c].op = "lock"
  /\ pc[c] \in {"unlockChecking", "unlocking"} => cmd[c].op = "unlock"
  /\ pc[c] \in {"reading", "scanning"} => cmd[c].op = "withdraw"
  /\ pc[c] # "relocking" => txos[c] = <<>>
Operations == \A c \in Clients : OperationOf(c)

\* What a lock has locked, wherever it is.
ProgressOf(c) ==
  /\ pc[c] \in Preparing \cup {"idle", "refused"} => done[c] = 0
  /\ pc[c] = "relocking" => \E j \in 1 .. Len(Built(c)) + 1 : Sent(c, j)
  /\ pc[c] = "failed" => done[c] <= toRelock[c]
  /\ pc[c] = "done" =>
       done[c] = LockValue(c) + Minimum(SumOf(read[c]), toRelock[c])
  /\ pc[c] = "interrupted" => done[c] <= cmd[c].value
Progress == \A c \in Clients : cmd[c].op = "lock" => ProgressOf(c)

\* A terminal that was not used is idle.
Unused == \A c \in Clients : runs[c] = 0 => pc[c] = "idle"

\* In a terminal that is alone the checks of a lock stay true: the balance, with the gas
\* of its transactions, covers what is to be locked, and the pending withdrawals are those
\* that were read, without those that its transactions have used up.
Affordable(c) == celo + gas[c] >= LockValue(c)
PaidOut(c) == \E fee \in Fees : celo < LockValue(c) + fee
AloneOf(c) ==
  /\ pc[c] \in {"affordable", "relockRead", "relocking"} => Affordable(c)
  /\ pc[c] = "relockRead" => read[c] = pending
  /\ pc[c] = "relocking" =>
       \E j \in 1 .. Len(Built(c)) + 1 :
         /\ Sent(c, j)
         /\ j <= Len(Built(c)) => pending = SubSeq(read[c], 1, Len(read[c]) + 1 - j)
  /\ pc[c] = "failed" /\ done[c] > 0 => Affordable(c) /\ PaidOut(c)
Alone == Undisturbed => \A c \in Clients : cmd[c].op = "lock" => AloneOf(c)

IInv == TypeOK /\ Operations /\ Progress /\ Unused /\ Alone

-----------------------------------------------------------------------------
(* What the contract does keeps the types, and the CELO of the account.    *)

ChainOK ==
  /\ now \in 0 .. MaxTime /\ isAccount \in BOOLEAN
  /\ celo \in Nat /\ spent \in Nat /\ locked \in Nat /\ pending \in Seq(Withdrawals)
  /\ celo + spent + locked + SumOf(pending) = Total

\* Pending withdrawals have positive values.
LEMMA WithdrawalsArePositive ==
  ASSUME NEW w \in Seq(Withdrawals)
  PROVE  Positive(w) /\ Valued(w) /\ SumOf(w) \in Nat
  <1>1. Len(w) \in Nat /\ \A i \in 1 .. Len(w) : w[i] \in Withdrawals
    OBVIOUS
  <1>2. Positive(w)
    BY <1>1 DEF Positive, Withdrawals
  <1>3. Valued(w) /\ 0 \in 0 .. Len(w)
    BY <1>1, <1>2, PositiveIsValued
  <1> QED BY <1>2, <1>3, SumsGrow

\* A withdrawal that is deleted, and one of which a part is taken.
LEMMA DeletedIs ==
  ASSUME NEW p \in Seq(Withdrawals), NEW i \in 1 .. Len(p)
  PROVE  /\ SubSeq([p EXCEPT ![i] = p[Len(p)]], 1, Len(p) - 1) \in Seq(Withdrawals)
         /\ SumOf(SubSeq([p EXCEPT ![i] = p[Len(p)]], 1, Len(p) - 1)) + p[i].value
              = SumOf(p)
  <1> DEFINE q == [p EXCEPT ![i] = p[Len(p)]]
  <1>1. Len(p) \in Nat /\ Len(p) \in 1 .. Len(p) /\ \A j \in 1 .. Len(p) : p[j] \in Withdrawals
    OBVIOUS
  <1>2. /\ q \in Seq(Withdrawals) /\ Len(q) = Len(p) /\ q[i] = p[Len(p)]
        /\ \A j \in 1 .. Len(p) : j # i => q[j] = p[j]
        /\ q[Len(p)] = p[Len(p)]
    BY <1>1
  <1> HIDE DEF q
  <1>3. \A r \in Withdrawals : r.value \in Nat
    BY DEF Withdrawals
  <1>4. SumOf(q) = SumOf(SubSeq(q, 1, Len(p) - 1)) + p[Len(p)].value
    BY <1>1, <1>2, <1>3, SumOfShorter
  <1>5. SumOf(q) + p[i].value = SumOf(p) + p[Len(p)].value
    <2>1. Valued(p) /\ Valued(q)
      BY <1>2, WithdrawalsArePositive
    <2>2. \A j \in 1 .. Len(p) : j # i => p[j].value = q[j].value
      BY <1>2
    <2>3. SumOf(q) + p[i].value = SumOf(p) + q[i].value
      BY <1>2, <2>1, <2>2, SumOfChanged
    <2> QED BY <1>2, <2>3
  <1>6. SubSeq(q, 1, Len(p) - 1) \in Seq(Withdrawals)
    <2>1. \A j \in 1 .. Len(p) - 1 : q[j] \in Withdrawals
      BY <1>1, <1>2
    <2> QED BY <1>1, <2>1, SubSeqProperties
  <1>7. /\ SumOf(SubSeq(q, 1, Len(p) - 1)) \in Nat /\ SumOf(p) \in Nat
        /\ p[i].value \in Nat /\ p[Len(p)].value \in Nat
    BY <1>1, <1>3, <1>6, WithdrawalsArePositive
  <1>8. SumOf(SubSeq(q, 1, Len(p) - 1)) + p[i].value = SumOf(p)
    <2>1. PICK a \in Nat, b \in Nat, u \in Nat, v \in Nat :
            /\ a = SumOf(SubSeq(q, 1, Len(p) - 1)) /\ b = SumOf(p)
            /\ u = p[i].value /\ v = p[Len(p)].value
      BY <1>7
    <2>2. SumOf(q) = a + v /\ SumOf(q) + u = b + v
      BY <1>4, <1>5, <2>1
    <2>3. a + v + u = b + v
      BY <2>2
    <2>4. a + u = b
      BY <2>3
    <2> QED BY <2>1, <2>4
  <1> QED BY <1>6, <1>8 DEF q

\* ... of which a part is taken.
LEMMA LoweredIs ==
  ASSUME NEW p \in Seq(Withdrawals), NEW i \in 1 .. Len(p), NEW v \in Nat,
         v < p[i].value
  PROVE  /\ [p EXCEPT ![i].value = @ - v] \in Seq(Withdrawals)
         /\ SumOf([p EXCEPT ![i].value = @ - v]) + v = SumOf(p)
  <1> DEFINE q == [p EXCEPT ![i].value = @ - v]
  <1>1. Len(p) \in Nat /\ \A j \in 1 .. Len(p) : p[j] \in Withdrawals
    OBVIOUS
  <1>2. p[i] \in Withdrawals /\ p[i].value \in 1 .. Total /\ Total \in Nat
    BY <1>1, LockedGoldAssumption DEF Withdrawals
  <1>3. [p[i] EXCEPT !.value = @ - v] \in Withdrawals
    <2>1. p[i].value - v \in 1 .. Total
      BY <1>2
    <2>2. PICK lower : lower = p[i].value - v
      OBVIOUS
    <2>3. [p[i] EXCEPT !.value = lower] \in Withdrawals
      BY <1>2, <2>1, <2>2 DEF Withdrawals
    <2> QED BY <2>2, <2>3
  <1>4. /\ q \in Seq(Withdrawals) /\ Len(q) = Len(p)
        /\ q[i] = [p[i] EXCEPT !.value = @ - v]
        /\ \A j \in 1 .. Len(p) : j # i => q[j] = p[j]
    BY <1>1, <1>3
  <1>5. q[i].value = p[i].value - v
    BY <1>2, <1>4 DEF Withdrawals
  <1> HIDE DEF q
  <1>6. SumOf(q) + p[i].value = SumOf(p) + q[i].value
    <2>1. Valued(p) /\ Valued(q)
      BY <1>4, WithdrawalsArePositive
    <2>2. \A j \in 1 .. Len(p) : j # i => p[j].value = q[j].value
      BY <1>4
    <2>3. Len(p) = Len(q)
      BY <1>4
    <2> QED BY ONLY <2>1, <2>2, <2>3, SumOfChanged, i \in 1 .. Len(p)
  <1>7. SumOf(q) \in Nat /\ SumOf(p) \in Nat
    BY <1>4, WithdrawalsArePositive
  <1>8. SumOf(q) + v = SumOf(p)
    BY <1>2, <1>5, <1>6, <1>7
  <1> QED BY <1>4, <1>8 DEF q

\* What a charge leaves.
LEMMA Charged ==
  ASSUME ChainOK, NEW fee \in Fees, NEW sends \in Nat, NEW brings \in Nat,
         Charge(fee, sends, brings)
  PROVE  /\ fee \in Nat /\ {celo, spent, celo', spent'} \subseteq Nat
         /\ celo' + spent' + sends = celo + spent + brings
         /\ celo' + sends + fee = celo + brings
  <1>1. celo \in Nat /\ spent \in Nat /\ fee \in Nat /\ sends + fee <= celo
    BY LockedGoldAssumption DEF ChainOK, Charge
  <1>2. celo' = celo - sends - fee + brings /\ spent' = spent + fee
    BY DEF Charge
  <1> QED BY <1>1, <1>2

\* What is paid is no longer in the balance.
LEMMA Exchanged ==
  ASSUME NEW a \in Nat, NEW b \in Nat, NEW f \in Nat, NEW g \in Nat, b + 0 + f = a + 0
  PROVE  b + (g + f) = a + g
  OBVIOUS

\* What is paid for gas and what goes from one place to another leave the sum.
LEMMA SumStays ==
  ASSUME NEW a \in Nat, NEW b \in Nat, NEW l \in Nat, NEW p \in Nat, NEW t,
         NEW x \in Nat, NEW y \in Nat, NEW m \in Nat, NEW q \in Nat,
         a + b + l + p = t, x + y = a + b, m + q = l + p
  PROVE  x + y + m + q = t
  OBVIOUS

\* relock ...
LEMMA RelockKeepsChain ==
  ASSUME ChainOK, NEW t, t.value \in Nat, NEW fee \in Fees, ContractRelock(t, fee)
  PROVE  ChainOK'
  <1>1. t.index \in 1 .. Len(pending) /\ pending[t.index].value \in Nat
    BY WithdrawalsArePositive DEF ChainOK, ContractRelock, MayRelock, Valued
  <1>2. pending' \in Seq(Withdrawals) /\ SumOf(pending') + t.value = SumOf(pending)
    <2>1. CASE t.value = pending[t.index].value
      BY <1>1, <2>1, DeletedIs DEF ChainOK, ContractRelock, Deleted
    <2>2. CASE t.value # pending[t.index].value
      <3>1. t.value < pending[t.index].value
        BY <1>1, <2>2 DEF ContractRelock, MayRelock
      <3> QED BY <1>1, <2>2, <3>1, LoweredIs DEF ChainOK, ContractRelock
    <2> QED BY <2>1, <2>2
  <1>3. SumOf(pending') \in Nat /\ SumOf(pending) \in Nat
    BY <1>2, WithdrawalsArePositive DEF ChainOK
  <1>4. celo' \in Nat /\ spent' \in Nat /\ celo' + spent' = celo + spent
    <2>1. Charge(fee, 0, 0)
      BY DEF ContractRelock
    <2>2. /\ {celo, spent, celo', spent'} \subseteq Nat
          /\ celo' + spent' + 0 = celo + spent + 0
      BY <2>1, Charged
    <2> QED BY <2>2
  <1>5. locked' = locked + t.value /\ locked \in Nat
        /\ celo + spent + locked + SumOf(pending) = Total
    BY DEF ChainOK, ContractRelock
  <1>6. locked' \in Nat /\ celo' + spent' + locked' + SumOf(pending') = Total
    <2>1. /\ {celo, spent, locked} \subseteq Nat
          /\ celo + spent + locked + SumOf(pending) = Total
      BY DEF ChainOK
    <2>2. locked' \in Nat
      BY <1>5
    <2>3. locked' + SumOf(pending') = locked + SumOf(pending)
      BY <1>2, <1>3, <1>5
    <2> QED BY <1>3, <1>4, <2>1, <2>2, <2>3, SumStays
  <1>7. now' \in 0 .. MaxTime /\ isAccount' \in BOOLEAN
    BY DEF ChainOK, ContractRelock
  <1> QED BY <1>2, <1>4, <1>6, <1>7 DEF ChainOK

\* ... lock ...
LEMMA LockKeepsChain ==
  ASSUME ChainOK, NEW value \in Nat, NEW fee \in Fees, ContractLock(value, fee)
  PROVE  ChainOK'
  <1>1. SumOf(pending) \in Nat /\ pending' = pending
    BY WithdrawalsArePositive DEF ChainOK, ContractLock
  <1>2. celo' \in Nat /\ spent' \in Nat /\ celo' + spent' + value = celo + spent
    <2>1. Charge(fee, value, 0)
      BY DEF ContractLock
    <2>2. /\ {celo, spent, celo', spent'} \subseteq Nat
          /\ celo' + spent' + value = celo + spent + 0
      BY <2>1, Charged
    <2> QED BY <2>2
  <1>3. locked' = locked + value /\ now' = now /\ isAccount' = isAccount
    BY DEF ContractLock
  <1>4. locked' \in Nat /\ celo' + spent' + locked' + SumOf(pending) = Total
    <2>1. /\ {celo, spent, locked} \subseteq Nat
          /\ celo + spent + locked + SumOf(pending) = Total
      BY DEF ChainOK
    <2> QED BY <1>1, <1>2, <1>3, <2>1
  <1> QED BY <1>1, <1>2, <1>3, <1>4 DEF ChainOK

\* ... unlock ...
LEMMA UnlockKeepsChain ==
  ASSUME ChainOK, NEW value \in Nat \ {0}, NEW fee \in Fees, ContractUnlock(value, fee)
  PROVE  ChainOK'
  <1>1. SumOf(pending) \in Nat /\ Total \in Nat /\ Period \in Nat /\ MaxTime \in Nat
    BY WithdrawalsArePositive, LockedGoldAssumption DEF ChainOK
  <1>2. value <= Total /\ value <= locked
    BY <1>1 DEF ChainOK, ContractUnlock
  <1>3. [time |-> now + Period, value |-> value] \in Withdrawals
    BY <1>1, <1>2 DEF ChainOK, Withdrawals
  <1>4. \A r \in Withdrawals : r.value \in Nat
    BY DEF Withdrawals
  <1>5. /\ pending' \in Seq(Withdrawals) /\ SumOf(pending') = SumOf(pending) + value
    BY <1>3, <1>4, SumOfAppend DEF ChainOK, ContractUnlock
  <1>6. celo' \in Nat /\ spent' \in Nat /\ celo' + spent' = celo + spent
    <2>1. Charge(fee, 0, 0)
      BY DEF ContractUnlock
    <2>2. /\ {celo, spent, celo', spent'} \subseteq Nat
          /\ celo' + spent' + 0 = celo + spent + 0
      BY <2>1, Charged
    <2> QED BY <2>2
  <1>7. locked' = locked - value /\ now' = now /\ isAccount' = isAccount
    BY DEF ContractUnlock
  <1>8. locked' \in Nat /\ celo' + spent' + locked' + SumOf(pending') = Total
    <2>1. /\ {celo, spent, locked} \subseteq Nat
          /\ celo + spent + locked + SumOf(pending) = Total
      BY DEF ChainOK
    <2>2. locked' \in Nat /\ SumOf(pending') \in Nat
      BY <1>1, <1>2, <1>5, <1>7, <2>1
    <2>3. locked' + SumOf(pending') = locked + SumOf(pending)
      BY <1>1, <1>2, <1>5, <1>7, <2>1
    <2> QED BY <1>1, <1>6, <2>1, <2>2, <2>3, SumStays
  <1> QED BY <1>5, <1>6, <1>7, <1>8 DEF ChainOK

\* ... and withdraw.
LEMMA WithdrawKeepsChain ==
  ASSUME ChainOK, NEW i, NEW fee \in Fees, ContractWithdraw(i, fee)
  PROVE  ChainOK' /\ pending[i].value \in Nat
  <1>1. i \in 1 .. Len(pending) /\ pending[i].value \in Nat
    BY WithdrawalsArePositive DEF ChainOK, ContractWithdraw, MayWithdraw, Valued
  <1>2. pending' \in Seq(Withdrawals) /\ SumOf(pending') + pending[i].value = SumOf(pending)
    BY <1>1, DeletedIs DEF ChainOK, ContractWithdraw, Deleted
  <1>3. SumOf(pending') \in Nat /\ SumOf(pending) \in Nat
    BY <1>2, WithdrawalsArePositive DEF ChainOK
  <1>4. /\ celo' \in Nat /\ spent' \in Nat
        /\ celo' + spent' = celo + spent + pending[i].value
    <2>1. Charge(fee, 0, pending[i].value)
      BY DEF ContractWithdraw
    <2>2. /\ {celo, spent, celo', spent'} \subseteq Nat
          /\ celo' + spent' + 0 = celo + spent + pending[i].value
      BY <1>1, <2>1, Charged
    <2> QED BY <2>2
  <1>5. UNCHANGED <<now, isAccount, locked>>
    BY DEF ContractWithdraw
  <1>6. celo' + spent' + locked' + SumOf(pending') = Total
    <2>1. PICK a \in Nat, b \in Nat, u \in Nat :
            a = SumOf(pending') /\ b = SumOf(pending) /\ u = pending[i].value
      BY <1>1, <1>3
    <2>2. a + u = b /\ celo' + spent' = celo + spent + u
      BY <1>2, <1>4, <2>1
    <2>3. celo \in Nat /\ spent \in Nat /\ locked \in Nat /\ celo + spent + locked + b = Total
      BY <2>1 DEF ChainOK
    <2>4. celo' + spent' + locked + a = Total
      BY <1>4, <2>2, <2>3
    <2> QED BY <1>5, <2>1, <2>4
  <1> QED BY <1>1, <1>2, <1>4, <1>5, <1>6 DEF ChainOK

-----------------------------------------------------------------------------
(* Types.                                                                  *)

\* What commands keep of their own.
ClientsOK ==
  /\ runs \in [Clients -> 0 .. MaxRuns] /\ pc \in [Clients -> Labels]
  /\ cmd \in [Clients -> Commands \cup {NoCommand}]
  /\ toRelock \in [Clients -> Nat] /\ done \in [Clients -> Nat]
  /\ gas \in [Clients -> Nat]
  /\ read \in [Clients -> Seq(Withdrawals)]
  /\ txos \in [Clients -> Seq(Txos)]
  /\ at \in [Clients -> Nat \ {0}] /\ currentTime \in [Clients -> 0 .. MaxTime + 1]
  /\ \A c \in Clients : /\ toRelock[c] <= cmd[c].value
                        /\ pc[c] = "scanning" => at[c] <= Len(read[c]) + 1

\* The types hold at first.
LEMMA InitTypeOK == Init => TypeOK
  <1> SUFFICES ASSUME Init PROVE TypeOK
    OBVIOUS
  <1>1. {Total, Period, MaxTime, MaxRuns} \subseteq Nat
    BY LockedGoldAssumption
  <1>2. pending \in Seq(Withdrawals)
    <2>1. PICK m \in 0 .. 3 : pending \in [1 .. m -> [time : 0 .. Period, value : 1 .. Total]]
      BY DEF Init, BoundedSeq, SeqOf
    <2>2. [time : 0 .. Period, value : 1 .. Total] \subseteq Withdrawals
      BY <1>1 DEF Withdrawals
    <2>3. \A i \in 1 .. m : pending[i] \in Withdrawals
      BY <2>1, <2>2
    <2>4. pending = [i \in 1 .. m |-> pending[i]]
      BY <2>1
    <2> QED BY <2>3, <2>4
  <1>3. SumOf(pending) \in Nat
    BY <1>2, WithdrawalsArePositive
  <1>4. /\ locked \in Nat /\ celo \in Nat /\ spent \in Nat
        /\ celo + spent + locked + SumOf(pending) = Total
    BY <1>1, <1>3 DEF Init
  <1>5. now \in 0 .. MaxTime /\ isAccount \in BOOLEAN
    BY <1>1 DEF Init
  <1>6. ClientsOK
    BY <1>1 DEF Init, ClientsOK, Labels, Ended, NoCommand
  <1> QED BY <1>2, <1>4, <1>5, <1>6 DEF TypeOK, ClientsOK

\* A command has a value and a name.
LEMMA CommandIs ==
  ASSUME NEW command \in Commands \cup {NoCommand}
  PROVE  command.value \in Nat /\ command.op \in Ops \cup {"none"}
  <1>1. CASE command \in [op : Ops \ {"withdraw"}, value : Values]
    BY <1>1, LockedGoldAssumption
  <1>2. CASE command \in [op : Ops \cap {"withdraw"}, value : {0}]
    BY <1>2
  <1>3. CASE command = NoCommand
    BY <1>3 DEF NoCommand
  <1> QED BY <1>1, <1>2, <1>3 DEF Commands

\* They hold when a command begins ...
LEMMA StartTypes ==
  ASSUME ChainOK, ClientsOK, NEW c \in Clients, NEW command \in Commands,
         Start(c, command)
  PROVE  ClientsOK'
  <1>1. MaxTime \in Nat /\ MaxRuns \in Nat
    BY LockedGoldAssumption
  <1>2. pc' \in [Clients -> Labels]
    BY DEF Start, Goto, ClientsOK, Labels, Ended
  <1>3. /\ runs' \in [Clients -> 0 .. MaxRuns]
        /\ cmd' \in [Clients -> Commands \cup {NoCommand}]
        /\ toRelock' \in [Clients -> Nat] /\ done' \in [Clients -> Nat]
        /\ gas' \in [Clients -> Nat]
        /\ read' \in [Clients -> Seq(Withdrawals)]
        /\ at' \in [Clients -> Nat \ {0}]
        /\ UNCHANGED txos
    BY <1>1 DEF Start, ClientsOK
  <1>4. currentTime' \in [Clients -> 0 .. MaxTime + 1]
    <2>1. PICK t \in {0, now, now + 1} : currentTime' = [currentTime EXCEPT ![c] = t]
      BY DEF Start
    <2> QED BY <1>1, <2>1 DEF ChainOK, ClientsOK
  <1>5. \A d \in Clients : /\ toRelock'[d] <= cmd'[d].value
                           /\ pc'[d] = "scanning" => at'[d] <= Len(read'[d]) + 1
    <2> TAKE d \in Clients
    <2>1. CASE d = c
      <3>1. /\ toRelock'[d] = 0 /\ cmd'[d] = command
            /\ at'[d] = 1 /\ read'[d] = <<>>
        BY <2>1 DEF Start, ClientsOK
      <3> QED BY <3>1, CommandIs
    <2>2. CASE d # c
      <3>1. /\ toRelock'[d] = toRelock[d] /\ cmd'[d] = cmd[d]
            /\ at'[d] = at[d] /\ read'[d] = read[d] /\ pc'[d] = pc[d]
        BY <2>2 DEF Start, ClientsOK, Goto
      <3> QED BY <3>1 DEF ClientsOK
    <2> QED BY <2>1, <2>2
  <1> QED BY <1>2, <1>3, <1>4, <1>5 DEF ClientsOK

\* A step that only goes somewhere.
LEMMA GoesOn ==
  ASSUME ClientsOK, NEW c \in Clients, NEW label \in Labels, Goto(c, label),
         label # "scanning", UNCHANGED <<inputs, toRelock, read, txos, at, done, gas>>
  PROVE  ClientsOK'
  <1>1. pc' \in [Clients -> Labels] /\ \A d \in Clients : pc'[d] \in {pc[d], label}
    BY DEF ClientsOK, Goto
  <1> QED BY <1>1 DEF ClientsOK, inputs

\* ... and after each of its steps.
LEMMA StepTypes ==
  ASSUME ChainOK, ClientsOK, Operations, NEW c \in Clients, Step(c)
  PROVE  ChainOK' /\ ClientsOK'
  <1> USE DEF Labels, Ended
  <1>1. cmd[c].value \in Nat /\ toRelock[c] \in Nat /\ LockValue(c) \in Nat
    BY CommandIs DEF ClientsOK, LockValue
  <1>2. CASE CheckAccount(c)
    BY <1>2, GoesOn DEF CheckAccount, ChainOK, chain
  <1>3. CASE Register(c)
    <2>1. ClientsOK'
      BY <1>3, GoesOn DEF Register
    <2>2. CASE UNCHANGED chain
      BY <2>1, <2>2 DEF ChainOK, chain
    <2>3. ASSUME NEW fee \in Fees, Charge(fee, 0, 0), isAccount' = TRUE,
                 UNCHANGED <<now, locked, pending>>
          PROVE  ChainOK'
      <3>1. /\ {celo, spent, celo', spent'} \subseteq Nat
            /\ celo' + spent' + 0 = celo + spent + 0
        BY <2>3, Charged
      <3>2. SumOf(pending) \in Nat /\ locked \in Nat
            /\ celo + spent + locked + SumOf(pending) = Total
        BY WithdrawalsArePositive DEF ChainOK
      <3>3. celo' + spent' + locked + SumOf(pending) = Total
        BY <3>1, <3>2
      <3> QED BY <2>3, <3>1, <3>3 DEF ChainOK
    <2> QED BY <1>3, <2>1, <2>2, <2>3 DEF Register
  <1>4. CASE SplitValue(c)
    <2>1. pc' \in [Clients -> Labels] /\ \A d \in Clients : pc'[d] \in {pc[d], "split"}
      BY <1>4 DEF SplitValue, Goto, ClientsOK
    <2>2. /\ Minimum(SumOf(pending), cmd[c].value) \in Nat
          /\ Minimum(SumOf(pending), cmd[c].value) <= cmd[c].value
      BY <1>1, WithdrawalsArePositive DEF ChainOK, Minimum
    <2>3. toRelock' \in [Clients -> Nat] /\ \A d \in Clients : toRelock'[d] <= cmd[d].value
      BY <1>4, <2>2 DEF SplitValue, ClientsOK
    <2> QED BY <1>4, <2>1, <2>3 DEF SplitValue, ClientsOK, ChainOK, chain, inputs
  <1>5. CASE CheckCelo(c)
    BY <1>5, GoesOn DEF CheckCelo, ChainOK, chain
  <1>6. CASE ReadPending(c)
    <2>1. /\ pc' \in [Clients -> Labels]
          /\ \A d \in Clients : pc'[d] = IF d = c THEN "relockRead" ELSE pc[d]
      BY <1>6 DEF ReadPending, Goto, ClientsOK
    <2>2. /\ read' \in [Clients -> Seq(Withdrawals)]
          /\ \A d \in Clients : d # c => read'[d] = read[d]
      BY <1>6 DEF ReadPending, ClientsOK, ChainOK
    <2> QED BY <1>6, <2>1, <2>2 DEF ReadPending, ClientsOK, ChainOK, chain, inputs
  <1>7. CASE BuildRelock(c)
    <2>1. /\ pc' \in [Clients -> Labels]
          /\ \A d \in Clients : pc'[d] \in {pc[d], "failed", "relocking"}
      BY <1>7 DEF BuildRelock, Goto, ClientsOK
    <2>2. RelockOf(read[c], toRelock[c]) \in Seq(Txos)
      <3>1. PICK T : T = RelockOf(read[c], toRelock[c])
        OBVIOUS
      <3>2. FromTheEnd(read[c], T)
        BY <1>1, <3>1, RelockOfIs, WithdrawalsArePositive DEF ClientsOK
      <3>3. T \in Seq([index : 1 .. Len(read[c]), value : Nat \ {0}])
        BY <3>2 DEF FromTheEnd
      <3>4. PICK R : R = [index : 1 .. Len(read[c]), value : Nat \ {0}]
        OBVIOUS
      <3>5. R \subseteq Txos
        BY <3>4 DEF Txos
      <3>6. T \in Seq(R)
        BY <3>3, <3>4
      <3>7. T \in Seq(Txos)
        BY ONLY <3>5, <3>6, SeqMonotonic
      <3> QED BY <3>1, <3>7
    <2>3. txos' \in [Clients -> Seq(Txos)]
      BY <1>7, <2>2 DEF BuildRelock, ClientsOK
    <2> QED BY <1>7, <2>1, <2>3 DEF BuildRelock, ClientsOK, ChainOK, chain, inputs
  <1>8. CASE SendRelock(c)
    <2>1. PICK t : t = Head(txos[c])
      OBVIOUS
    <2>2. t \in Txos /\ Tail(txos[c]) \in Seq(Txos) /\ t.value \in Nat
      <3>1. txos[c] \in Seq(Txos) /\ txos[c] # <<>>
        BY <1>8 DEF SendRelock, ClientsOK
      <3>2. t \in Txos /\ Tail(txos[c]) \in Seq(Txos)
        BY <2>1, <3>1
      <3> QED BY <3>2 DEF Txos
    <2>3. /\ pc' \in [Clients -> Labels]
          /\ \A d \in Clients : pc'[d] \in {pc[d], "failed"}
      BY <1>8 DEF SendRelock, Goto, ClientsOK
    <2>4. txos' \in [Clients -> Seq(Txos)]
      <3>1. <<>> \in Seq(Txos)
        OBVIOUS
      <3>2. txos' = [txos EXCEPT ![c] = Tail(txos[c])] \/ txos' = [txos EXCEPT ![c] = <<>>]
        BY <1>8 DEF SendRelock
      <3> QED BY <2>2, <3>1, <3>2 DEF ClientsOK
    <2>5. done' \in [Clients -> Nat]
      <3>1. done' = [done EXCEPT ![c] = @ + t.value] \/ done' = done
        BY <1>8, <2>1 DEF SendRelock
      <3>2. done \in [Clients -> Nat] /\ done[c] + t.value \in Nat
        BY <2>2 DEF ClientsOK
      <3>3. PICK v \in Nat : v = done[c] + t.value
        BY <3>2
      <3>4. done' = [done EXCEPT ![c] = v] \/ done' = done
        BY <3>1, <3>2, <3>3
      <3> QED BY <3>2, <3>3, <3>4
    <2>6. ChainOK'
      BY <1>8, <2>1, <2>2, RelockKeepsChain DEF SendRelock, ChainOK, chain
    <2>7. gas' \in [Clients -> Nat]
      <3>1. PICK fee \in Fees : gas' = [gas EXCEPT ![c] = @ + fee] \/ gas' = gas
        BY <1>8 DEF SendRelock
      <3>2. fee \in Nat /\ gas \in [Clients -> Nat]
        BY LockedGoldAssumption DEF ClientsOK
      <3> QED BY <3>1, <3>2
    <2> QED BY <1>8, <2>3, <2>4, <2>5, <2>6, <2>7 DEF SendRelock, ClientsOK, inputs
  <1>9. CASE SendLock(c)
    <2>1. /\ pc' \in [Clients -> Labels]
          /\ \A d \in Clients : pc'[d] \in {pc[d], "failed", "done"}
      BY <1>9 DEF SendLock, Goto, ClientsOK
    <2>2. done' \in [Clients -> Nat]
      <3>1. done' = [done EXCEPT ![c] = @ + LockValue(c)] \/ done' = done
        BY <1>9 DEF SendLock
      <3>2. done \in [Clients -> Nat] /\ done[c] + LockValue(c) \in Nat
        BY <1>1 DEF ClientsOK
      <3>3. PICK v \in Nat : v = done[c] + LockValue(c)
        BY <3>2
      <3>4. done' = [done EXCEPT ![c] = v] \/ done' = done
        BY <3>1, <3>2, <3>3
      <3> QED BY <3>2, <3>3, <3>4
    <2>3. ChainOK'
      <3>1. ASSUME NEW fee \in Fees, ContractLock(LockValue(c), fee) PROVE ChainOK'
        BY <1>1, <3>1, LockKeepsChain
      <3>2. CASE UNCHANGED chain
        BY <3>2 DEF ChainOK, chain
      <3> QED BY <1>9, <3>1, <3>2 DEF SendLock
    <2> QED BY <1>9, <2>1, <2>2, <2>3 DEF SendLock, ClientsOK, inputs
  <1>10. CASE CheckUnlock(c)
    BY <1>10, GoesOn DEF CheckUnlock, ChainOK, chain
  <1>11. CASE SendUnlock(c)
    <2>1. ClientsOK'
      BY <1>11, GoesOn DEF SendUnlock
    <2>2. cmd[c].value \in Nat \ {0}
      <3>1. cmd[c].op = "unlock" /\ cmd[c] \in Commands \cup {NoCommand}
        BY <1>11 DEF SendUnlock, Operations, OperationOf, ClientsOK
      <3>2. cmd[c] \notin [op : Ops \cap {"withdraw"}, value : {0}]
        BY <3>1
      <3>3. cmd[c] \in [op : Ops \ {"withdraw"}, value : Values]
        BY <3>1, <3>2 DEF Commands, NoCommand
      <3> QED BY <3>3, LockedGoldAssumption
    <2>3. ChainOK'
      BY <1>11, <2>2, UnlockKeepsChain DEF SendUnlock, ChainOK, chain
    <2> QED BY <2>1, <2>3
  <1>12. CASE ReadWithdrawals(c)
    <2>1. /\ pc' \in [Clients -> Labels]
          /\ \A d \in Clients : d # c => pc'[d] = pc[d]
      BY <1>12 DEF ReadWithdrawals, Goto, ClientsOK
    <2>2. /\ read' \in [Clients -> Seq(Withdrawals)]
          /\ \A d \in Clients : d # c => read'[d] = read[d]
          /\ read'[c] = pending
      BY <1>12 DEF ReadWithdrawals, ClientsOK, ChainOK
    <2>3. /\ at' \in [Clients -> Nat \ {0}]
          /\ \A d \in Clients : d # c => at'[d] = at[d]
          /\ at'[c] = 1
      BY <1>12 DEF ReadWithdrawals, ClientsOK
    <2>4. Len(pending) \in Nat
      BY DEF ChainOK
    <2>5. UNCHANGED <<now, isAccount, celo, spent, locked, pending, inputs, toRelock, txos,
                      done, gas>>
      BY <1>12 DEF ReadWithdrawals, chain
    <2>6. \A d \in Clients : /\ toRelock'[d] <= cmd'[d].value
                             /\ pc'[d] = "scanning" => at'[d] <= Len(read'[d]) + 1
      <3> TAKE d \in Clients
      <3>1. toRelock'[d] <= cmd'[d].value
        BY <2>5 DEF ClientsOK, inputs
      <3>2. CASE d = c
        BY <2>2, <2>3, <2>4, <3>1, <3>2
      <3>3. CASE d # c
        BY <2>1, <2>2, <2>3, <3>1, <3>3 DEF ClientsOK
      <3> QED BY <3>2, <3>3
    <2>7. ChainOK'
      BY <2>5 DEF ChainOK
    <2> QED BY <2>1, <2>2, <2>3, <2>5, <2>6, <2>7 DEF ClientsOK, inputs
  <1>13. CASE Scan(c)
    <2>1. /\ pc' \in [Clients -> Labels]
          /\ \A d \in Clients : pc'[d] \in {pc[d], "failed"}
      BY <1>13 DEF Scan, Goto, ClientsOK
    <2>2. at[c] \in Nat \ {0} /\ Len(read[c]) \in Nat /\ at[c] <= Len(read[c])
      BY <1>13 DEF Scan, ClientsOK
    <2>3. UNCHANGED at \/ at' = [at EXCEPT ![c] = @ + 1]
      BY <1>13 DEF Scan
    <2>4. /\ at' \in [Clients -> Nat \ {0}]
          /\ \A d \in Clients : d # c => at'[d] = at[d]
          /\ at'[c] <= Len(read[c]) + 1
      <3>1. at \in [Clients -> Nat \ {0}] /\ at[c] + 1 \in Nat \ {0}
        BY <2>2 DEF ClientsOK
      <3> QED BY <2>2, <2>3, <3>1
    <2>5. ChainOK' /\ done' \in [Clients -> Nat]
      <3>1. ASSUME NEW fee \in Fees, ContractWithdraw(at[c], fee),
                   done' = [done EXCEPT ![c] = @ + pending[at[c]].value]
            PROVE  ChainOK' /\ done' \in [Clients -> Nat]
        <4>1. ChainOK' /\ pending[at[c]].value \in Nat
          BY <3>1, WithdrawKeepsChain
        <4> QED BY <3>1, <4>1 DEF ClientsOK
      <3>2. CASE UNCHANGED <<chain, done>>
        BY <3>2 DEF ChainOK, ClientsOK, chain
      <3> QED BY <1>13, <3>1, <3>2 DEF Scan
    <2>6. UNCHANGED <<inputs, toRelock, read, txos, gas>>
      BY <1>13 DEF Scan
    <2>7. \A d \in Clients : /\ toRelock'[d] <= cmd'[d].value
                             /\ pc'[d] = "scanning" => at'[d] <= Len(read'[d]) + 1
      BY <2>1, <2>2, <2>4, <2>6 DEF ClientsOK, inputs
    <2> QED BY <2>1, <2>4, <2>5, <2>6, <2>7 DEF ClientsOK, inputs
  <1>14. CASE ScanAgain(c)
    <2>1. /\ pc' \in [Clients -> Labels]
          /\ \A d \in Clients : pc'[d] \in {pc[d], "done", "reading"}
      BY <1>14 DEF ScanAgain, Goto, ClientsOK
    <2>2. ChainOK' /\ UNCHANGED <<inputs, toRelock, txos, done, gas>>
      BY <1>14 DEF ScanAgain, ChainOK, chain
    <2>3. /\ read' \in [Clients -> Seq(Withdrawals)] /\ at' \in [Clients -> Nat \ {0}]
          /\ \A d \in Clients : d # c => read'[d] = read[d] /\ at'[d] = at[d]
      BY <1>14 DEF ScanAgain, ClientsOK
    <2>4. pc'[c] # "scanning"
      BY <1>14 DEF ScanAgain, Goto, ClientsOK
    <2> QED BY <2>1, <2>2, <2>3, <2>4 DEF ClientsOK, inputs
  <1> QED BY <1>2, <1>3, <1>4, <1>5, <1>6, <1>7, <1>8, <1>9, <1>10, <1>11, <1>12,
             <1>13, <1>14 DEF Step

\* ... and when it is cut off.
LEMMA BreakTypes ==
  ASSUME ChainOK, ClientsOK, NEW c \in Clients, Break(c)
  PROVE  ChainOK' /\ ClientsOK'
  <1>1. /\ pc' \in [Clients -> Labels] /\ pc'[c] = "interrupted"
        /\ \A d \in Clients : d # c => pc'[d] = pc[d]
    BY DEF Break, Goto, ClientsOK, Labels, Ended
  <1>2. ChainOK' /\ UNCHANGED <<runs, cmd, currentTime, inputs, done, gas>>
    BY DEF inputs, Break, ChainOK, chain
  <1>3. /\ toRelock' \in [Clients -> Nat] /\ toRelock'[c] = 0
        /\ \A d \in Clients : d # c => toRelock'[d] = toRelock[d]
    BY DEF Break, ClientsOK
  <1>4. /\ read' \in [Clients -> Seq(Withdrawals)] /\ at' \in [Clients -> Nat \ {0}]
        /\ txos' \in [Clients -> Seq(Txos)]
        /\ \A d \in Clients : d # c => read'[d] = read[d] /\ at'[d] = at[d]
    BY DEF Break, ClientsOK
  <1>5. cmd[c].value \in Nat /\ cmd' = cmd
    BY <1>2, CommandIs DEF ClientsOK
  <1>6. \A d \in Clients : /\ toRelock'[d] <= cmd'[d].value
                           /\ pc'[d] = "scanning" => at'[d] <= Len(read'[d]) + 1
    <2> TAKE d \in Clients
    <2>1. CASE d = c
      BY <1>1, <1>3, <1>5, <2>1
    <2>2. CASE d # c
      BY <1>1, <1>3, <1>4, <1>5, <2>2 DEF ClientsOK
    <2> QED BY <2>1, <2>2
  <1> QED BY <1>1, <1>2, <1>3, <1>4, <1>6 DEF ClientsOK, inputs

-----------------------------------------------------------------------------
(* What a lock has locked.                                                 *)

\* A command changes what its own terminal keeps.
LEMMA OthersStay ==
  ASSUME ClientsOK, NEW c \in Clients, NEW d \in Clients, d # c,
         Step(c) \/ Break(c) \/ \E command \in Commands : Start(c, command)
  PROVE  /\ runs'[d] = runs[d] /\ pc'[d] = pc[d] /\ cmd'[d] = cmd[d]
         /\ toRelock'[d] = toRelock[d] /\ read'[d] = read[d]
         /\ txos'[d] = txos[d] /\ done'[d] = done[d] /\ gas'[d] = gas[d]
  <1> USE DEF ClientsOK, Goto, inputs
  <1>1. CASE \E command \in Commands : Start(c, command)
    BY <1>1 DEF Start
  <1>2. CASE CheckAccount(c) BY <1>2 DEF CheckAccount
  <1>3. CASE Register(c) BY <1>3 DEF Register
  <1>4. CASE SplitValue(c) BY <1>4 DEF SplitValue
  <1>5. CASE CheckCelo(c) BY <1>5 DEF CheckCelo
  <1>6. CASE ReadPending(c) BY <1>6 DEF ReadPending
  <1>7. CASE BuildRelock(c) BY <1>7 DEF BuildRelock
  <1>8. CASE SendRelock(c) BY <1>8 DEF SendRelock
  <1>9. CASE SendLock(c) BY <1>9 DEF SendLock
  <1>10. CASE CheckUnlock(c) BY <1>10 DEF CheckUnlock
  <1>11. CASE SendUnlock(c) BY <1>11 DEF SendUnlock
  <1>12. CASE ReadWithdrawals(c) BY <1>12 DEF ReadWithdrawals
  <1>13. CASE Scan(c) BY <1>13 DEF Scan
  <1>14. CASE ScanAgain(c) BY <1>14 DEF ScanAgain
  <1>15. CASE Break(c) BY <1>15 DEF Break
  <1> QED BY <1>1, <1>2, <1>3, <1>4, <1>5, <1>6, <1>7, <1>8, <1>9, <1>10, <1>11, <1>12,
             <1>13, <1>14, <1>15 DEF Step

\* The next transaction, and what is left when it is sent.
LEMMA SentNext ==
  ASSUME NEW R, NEW T \in Seq(R), NEW j \in 1 .. Len(T) + 1,
         NEW x, x = SubSeq(T, j, Len(T))
  PROVE  /\ x = <<>> => j = Len(T) + 1
         /\ x # <<>> => /\ j \in 1 .. Len(T) /\ Head(x) = T[j]
                        /\ Tail(x) = SubSeq(T, j + 1, Len(T))
  <1>1. Len(T) \in Nat /\ \A i \in 1 .. Len(T) : T[i] \in R
    OBVIOUS
  <1>2. \A i \in j .. Len(T) : T[i] \in R
    BY <1>1
  <1>3. Len(x) = IF j <= Len(T) THEN Len(T) - j + 1 ELSE 0
    BY <1>1, <1>2, SubSeqProperties
  <1>4. CASE j = Len(T) + 1
    <2>1. x = <<>>
      BY <1>1, <1>4, SubSeqEmpty
    <2> QED BY <1>4, <2>1
  <1>5. CASE j \in 1 .. Len(T)
    <2>3. Len(x) = Len(T) - j + 1 /\ Len(T) - j + 1 # 0
      BY <1>1, <1>3, <1>5
    <2>4. Len(<<>>) = 0
      OBVIOUS
    <2>1. Len(x) # 0 /\ x # <<>>
      BY <2>3, <2>4
    <2>2. Head(x) = T[j] /\ Tail(x) = SubSeq(T, j + 1, Len(T))
      BY <1>1, <1>2, <1>5, HeadTailOfSubSeq
    <2> QED BY <1>5, <2>1, <2>2
  <1> QED BY <1>1, <1>4, <1>5

\* What the transactions that relock built are.
LEMMA BuiltIs ==
  ASSUME ClientsOK, NEW c \in Clients
  PROVE  /\ FromTheEnd(read[c], Built(c)) /\ Valued(Built(c))
         /\ Len(Built(c)) \in Nat /\ SumOf(Built(c)) \in Nat
         /\ SumOf(Built(c)) = Minimum(SumOf(read[c]), toRelock[c])
         /\ SumOf(Built(c)) <= toRelock[c]
  <1>1. toRelock[c] \in Nat /\ Positive(read[c]) /\ SumOf(read[c]) \in Nat
    BY WithdrawalsArePositive DEF ClientsOK
  <1>2. PICK T : T = Built(c)
    OBVIOUS
  <1>3. FromTheEnd(read[c], T) /\ SumOf(T) = Minimum(SumOf(read[c]), toRelock[c])
    BY <1>1, <1>2, RelockOfIs DEF Built
  <1>4. Valued(T) /\ SumOf(T) \in Nat
    BY <1>3, FromTheEndIsValued
  <1>5. SumOf(T) <= toRelock[c]
    BY <1>1, <1>3 DEF Minimum
  <1> QED BY <1>2, <1>3, <1>4, <1>5 DEF Valued

\* A step stays among those of its command ...
LEMMA StepOperation ==
  ASSUME ClientsOK, NEW c \in Clients, OperationOf(c), Step(c)
  PROVE  OperationOf(c)'
  <1> USE DEF ClientsOK, Goto, inputs, OperationOf, Preparing
  <1>2. CASE CheckAccount(c) BY <1>2 DEF CheckAccount
  <1>3. CASE Register(c) BY <1>3 DEF Register
  <1>4. CASE SplitValue(c) BY <1>4 DEF SplitValue
  <1>5. CASE CheckCelo(c) BY <1>5 DEF CheckCelo
  <1>6. CASE ReadPending(c) BY <1>6 DEF ReadPending
  <1>7. CASE BuildRelock(c) BY <1>7 DEF BuildRelock
  <1>8. CASE SendRelock(c) BY <1>8 DEF SendRelock
  <1>9. CASE SendLock(c) BY <1>9 DEF SendLock
  <1>10. CASE CheckUnlock(c) BY <1>10 DEF CheckUnlock
  <1>11. CASE SendUnlock(c) BY <1>11 DEF SendUnlock
  <1>12. CASE ReadWithdrawals(c) BY <1>12 DEF ReadWithdrawals
  <1>13. CASE Scan(c) BY <1>13 DEF Scan
  <1>14. CASE ScanAgain(c) BY <1>14 DEF ScanAgain
  <1> QED BY <1>2, <1>3, <1>4, <1>5, <1>6, <1>7, <1>8, <1>9, <1>10, <1>11, <1>12,
             <1>13, <1>14 DEF Step

\* ... and ends among them when it is cut off ...
LEMMA BreakOperation ==
  ASSUME ClientsOK, NEW c \in Clients, OperationOf(c), Break(c)
  PROVE  OperationOf(c)' /\ pc'[c] = "interrupted" /\ done'[c] = done[c]
  <1>1. pc'[c] = "interrupted" /\ txos'[c] = <<>> /\ done'[c] = done[c]
    BY DEF Break, Goto, ClientsOK
  <1> QED BY <1>1 DEF OperationOf, Preparing

\* ... and so does its beginning.
LEMMA StartOperation ==
  ASSUME ClientsOK, NEW c \in Clients, OperationOf(c), NEW command \in Commands,
         Start(c, command)
  PROVE  /\ OperationOf(c)' /\ runs'[c] # 0 /\ done'[c] = 0
         /\ pc'[c] \in {"checking", "unlockChecking", "reading", "refused"}
  <1>1. /\ cmd'[c] = command /\ done'[c] = 0 /\ runs'[c] = runs[c] + 1 /\ runs[c] \in Nat
        /\ txos' = txos /\ txos[c] = <<>>
    BY DEF Start, ClientsOK, OperationOf, Ended
  <1>2. \/ command.op = "lock" /\ pc'[c] = "checking"
        \/ command.op = "unlock" /\ pc'[c] = "unlockChecking"
        \/ command.op = "withdraw" /\ pc'[c] \in {"reading", "refused"}
    BY DEF Start, Goto, ClientsOK
  <1> QED BY <1>1, <1>2 DEF OperationOf, Preparing

\* The transactions of relock, one by one.
LEMMA RelockProgress ==
  ASSUME ClientsOK, NEW c \in Clients, SendRelock(c),
         NEW j \in 1 .. Len(Built(c)) + 1, Sent(c, j)
  PROVE  /\ j \in 1 .. Len(Built(c)) /\ Head(txos[c]) = Built(c)[j]
         /\ done[c] <= toRelock[c]
         /\ Built(c)' = Built(c)
         /\ pc'[c] = "relocking" => j + 1 \in 1 .. Len(Built(c)) + 1 /\ Sent(c, j + 1)'
  <1>8. PICK T : T = Built(c) /\ Built(c)' = T
    BY DEF SendRelock, Built
  <1>1. PICK n \in Nat : T = Built(c) /\ n = Len(T) /\ Built(c)' = T
    BY <1>8, BuiltIs
  <1>2. PICK R : T \in Seq(R)
    BY <1>1, BuiltIs DEF FromTheEnd
  <1>3. Valued(T) /\ SumOf(T) \in Nat /\ SumOf(T) <= toRelock[c]
    BY <1>1, BuiltIs
  <1>4. txos[c] = SubSeq(T, j, Len(T)) /\ done[c] = Sums(T)[j - 1] /\ txos[c] # <<>>
    BY <1>1 DEF Sent, SendRelock
  <1>5. /\ j \in 1 .. n /\ Head(txos[c]) = T[j]
        /\ Tail(txos[c]) = SubSeq(T, j + 1, Len(T))
    BY <1>1, <1>2, <1>4, SentNext
  <1>6. done[c] \in Nat /\ done[c] <= toRelock[c]
    <2>1. j - 1 \in 0 .. Len(T)
      BY <1>1, <1>5
    <2>2. Sums(T)[j - 1] <= SumOf(T)
      BY <1>3, <2>1, SumsGrow
    <2>3. done[c] \in Nat /\ toRelock[c] \in Nat
      BY DEF ClientsOK
    <2> QED BY <1>3, <1>4, <2>2, <2>3
  <1>7. ASSUME pc'[c] = "relocking" PROVE Sent(c, j + 1)'
    <2>1. txos'[c] = Tail(txos[c]) /\ done'[c] = done[c] + Head(txos[c]).value
      BY <1>7 DEF SendRelock, Goto, ClientsOK
    <2>2. Sums(T)[j] = Sums(T)[j - 1] + T[j].value
      BY <1>1, <1>3, <1>5, SumsAre
    <2>3. PICK m : m = j + 1 /\ m - 1 = j
      BY <1>5
    <2>4. done'[c] = Sums(T)[m - 1] /\ txos'[c] = SubSeq(T, m, Len(T))
      BY <1>4, <1>5, <2>1, <2>2, <2>3
    <2>5. Sent(c, m)'
      BY <1>1, <2>4 DEF Sent
    <2> QED BY <2>3, <2>5
  <1> QED BY <1>1, <1>5, <1>6, <1>7

\* All transactions were sent.
LEMMA RelockedAll ==
  ASSUME ClientsOK, NEW c \in Clients, txos[c] = <<>>,
         NEW j \in 1 .. Len(Built(c)) + 1, Sent(c, j)
  PROVE  done[c] = Minimum(SumOf(read[c]), toRelock[c]) /\ done[c] <= toRelock[c]
  <1>1. PICK T : T = Built(c)
    OBVIOUS
  <1>2. PICK R : T \in Seq(R)
    BY <1>1, BuiltIs DEF FromTheEnd
  <1>3. j = Len(T) + 1 /\ Len(T) \in Nat
    BY <1>1, <1>2, SentNext DEF Sent
  <1>4. j - 1 = Len(T)
    BY <1>3
  <1>5. done[c] = SumOf(T)
    BY <1>1, <1>4 DEF Sent, SumOf
  <1> QED BY <1>1, <1>5, BuiltIs

\* relock builds them from the beginning.
LEMMA RelockBegins ==
  ASSUME ClientsOK, NEW c \in Clients, BuildRelock(c), done[c] = 0,
         pc'[c] = "relocking"
  PROVE  1 \in 1 .. Len(Built(c)) + 1 /\ Sent(c, 1)' /\ Built(c)' = Built(c)
  <1>8. PICK T : T = Built(c) /\ Built(c)' = T
    BY DEF BuildRelock, Built
  <1>1. Valued(T) /\ Len(T) \in Nat
    BY <1>8, BuiltIs
  <1>2. PICK R : T \in Seq(R)
    BY <1>8, BuiltIs DEF FromTheEnd
  <1>3. txos'[c] = T /\ done'[c] = 0
    BY <1>8 DEF BuildRelock, Goto, ClientsOK, Built
  <1>4. SubSeq(T, 1, Len(T)) = T
    BY <1>2, SubSeqFull
  <1>5. Sums(T)[1 - 1] = 0
    <2>1. 1 - 1 = 0
      OBVIOUS
    <2> QED BY <1>1, <2>1, SumsAre
  <1> QED BY <1>1, <1>3, <1>4, <1>5, <1>8 DEF Sent

\* Each step of a lock adds what it locks to what was locked before.
LEMMA StepProgress ==
  ASSUME ClientsOK, NEW c \in Clients, OperationOf(c), cmd[c].op = "lock",
         ProgressOf(c), Step(c)
  PROVE  ProgressOf(c)'
  <1> USE DEF OperationOf, Preparing
  <1>1. /\ toRelock[c] \in Nat /\ cmd[c].value \in Nat /\ LockValue(c) \in Nat
        /\ toRelock[c] <= cmd[c].value /\ done[c] \in Nat
    BY CommandIs DEF ClientsOK, LockValue
  <1>2. CASE CheckAccount(c)
    BY <1>1, <1>2 DEF CheckAccount, Goto, ClientsOK, ProgressOf
  <1>3. CASE Register(c)
    BY <1>1, <1>3 DEF Register, Goto, ClientsOK, ProgressOf
  <1>4. CASE SplitValue(c)
    BY <1>1, <1>4 DEF SplitValue, Goto, ClientsOK, ProgressOf
  <1>5. CASE CheckCelo(c)
    BY <1>1, <1>5 DEF CheckCelo, Goto, ClientsOK, ProgressOf
  <1>6. CASE ReadPending(c)
    BY <1>1, <1>6 DEF ReadPending, Goto, ClientsOK, ProgressOf
  <1>7. CASE BuildRelock(c)
    <2>1. done[c] = 0 /\ done'[c] = 0 /\ toRelock'[c] = toRelock[c]
      BY <1>7 DEF BuildRelock, ProgressOf
    <2>2. CASE pc'[c] = "failed"
      BY <1>1, <2>1, <2>2 DEF ProgressOf
    <2>3. CASE pc'[c] = "relocking"
      BY <1>7, <2>1, <2>3, RelockBegins DEF ProgressOf
    <2> QED BY <1>7, <2>2, <2>3 DEF BuildRelock, Goto, ClientsOK
  <1>8. CASE SendRelock(c)
    <2>1. PICK j \in 1 .. Len(Built(c)) + 1 : Sent(c, j)
      BY <1>8 DEF ProgressOf, SendRelock
    <2>2. /\ done[c] <= toRelock[c] /\ Built(c)' = Built(c)
          /\ pc'[c] = "relocking" =>
               j + 1 \in 1 .. Len(Built(c)) + 1 /\ Sent(c, j + 1)'
      BY <1>8, <2>1, RelockProgress
    <2>3. pc'[c] = "relocking" \/ (pc'[c] = "failed" /\ done'[c] = done[c])
      BY <1>8 DEF SendRelock, Goto, ClientsOK
    <2>4. toRelock'[c] = toRelock[c]
      BY <1>8 DEF SendRelock
    <2>5. CASE pc'[c] = "relocking"
      <3>1. \E k \in 1 .. Len(Built(c)') + 1 : Sent(c, k)'
        <4>1. PICK k : k = j + 1
          OBVIOUS
        <4> QED BY <2>2, <2>5, <4>1
      <3> QED BY <2>5, <3>1 DEF ProgressOf
    <2>6. CASE pc'[c] = "failed" /\ done'[c] = done[c]
      BY <2>2, <2>4, <2>6 DEF ProgressOf
    <2> QED BY <2>3, <2>5, <2>6
  <1>9. CASE SendLock(c)
    <2>1. PICK j \in 1 .. Len(Built(c)) + 1 : Sent(c, j)
      BY <1>9 DEF ProgressOf, SendLock
    <2>2. done[c] = Minimum(SumOf(read[c]), toRelock[c]) /\ done[c] <= toRelock[c]
      BY <1>9, <2>1, RelockedAll DEF SendLock
    <2>3. UNCHANGED <<toRelock, read, cmd>>
      BY <1>9 DEF SendLock, inputs
    <2>4. \/ pc'[c] = "failed" /\ done'[c] = done[c]
          \/ pc'[c] = "done" /\ done'[c] = done[c] + LockValue(c)
      BY <1>1, <1>9 DEF SendLock, Goto, ClientsOK
    <2>5. LockValue(c)' = LockValue(c)
      BY <2>3 DEF LockValue
    <2>6. CASE pc'[c] = "failed" /\ done'[c] = done[c]
      BY <2>2, <2>3, <2>6 DEF ProgressOf
    <2>7. CASE pc'[c] = "done" /\ done'[c] = done[c] + LockValue(c)
      <3>1. done'[c] = LockValue(c)' + Minimum(SumOf(read'[c]), toRelock'[c])
        <4>1. done'[c] = LockValue(c) + done[c]
          BY <1>1, <2>7
        <4> QED BY <2>2, <2>3, <2>5, <4>1
      <3> QED BY <2>7, <3>1 DEF ProgressOf
    <2> QED BY <2>4, <2>6, <2>7
  <1>10. CASE CheckUnlock(c) BY <1>10 DEF CheckUnlock
  <1>11. CASE SendUnlock(c) BY <1>11 DEF SendUnlock
  <1>12. CASE ReadWithdrawals(c) BY <1>12 DEF ReadWithdrawals
  <1>13. CASE Scan(c) BY <1>13 DEF Scan
  <1>14. CASE ScanAgain(c) BY <1>14 DEF ScanAgain
  <1> QED BY <1>2, <1>3, <1>4, <1>5, <1>6, <1>7, <1>8, <1>9, <1>10, <1>11, <1>12,
             <1>13, <1>14 DEF Step

\* A lock has locked no more than its value.
LEMMA LocksNoMore ==
  ASSUME ClientsOK, NEW c \in Clients, OperationOf(c), cmd[c].op = "lock", ProgressOf(c)
  PROVE  done[c] <= cmd[c].value
  <1>1. PICK v \in Nat, r \in Nat, d \in Nat, m \in Nat :
          /\ v = cmd[c].value /\ r = toRelock[c] /\ d = done[c]
          /\ m = Minimum(SumOf(read[c]), toRelock[c]) /\ r <= v
    <2>1. cmd[c].value \in Nat /\ toRelock[c] \in Nat /\ done[c] \in Nat
          /\ toRelock[c] <= cmd[c].value
      BY CommandIs DEF ClientsOK
    <2>2. Minimum(SumOf(read[c]), toRelock[c]) \in Nat
      BY BuiltIs
    <2> QED BY <2>1, <2>2
  <1>2. m <= r
    BY <1>1, BuiltIs
  <1>3. CASE pc[c] \in Preparing \cup {"idle", "refused"}
    <2>1. done[c] = 0 /\ pc[c] # "done"
      BY <1>3 DEF ProgressOf, Preparing
    <2> QED BY <1>1, <2>1
  <1>4. CASE pc[c] = "relocking"
    <2>1. PICK j \in 1 .. Len(Built(c)) + 1 : Sent(c, j)
      BY <1>4 DEF ProgressOf
    <2>2. Valued(Built(c)) /\ Len(Built(c)) \in Nat /\ SumOf(Built(c)) = m
      BY <1>1, BuiltIs
    <2>3. j - 1 \in 0 .. Len(Built(c))
      BY <2>2
    <2>4. d <= m
      BY <1>1, <2>1, <2>2, <2>3, SumsGrow DEF Sent
    <2> QED BY <1>1, <1>2, <1>4, <2>4
  <1>5. CASE pc[c] = "failed"
    BY <1>1, <1>5 DEF ProgressOf
  <1>6. CASE pc[c] = "done"
    BY <1>1, <1>2, <1>6 DEF ProgressOf, LockValue
  <1>7. CASE pc[c] = "interrupted"
    BY <1>7 DEF ProgressOf
  <1>8. \/ pc[c] \in Preparing \cup {"idle", "refused"}
        \/ pc[c] \in {"relocking", "failed", "done", "interrupted"}
    BY DEF ClientsOK, OperationOf, Labels, Ended, Preparing
  <1> QED BY <1>3, <1>4, <1>5, <1>6, <1>7, <1>8

-----------------------------------------------------------------------------
(* A terminal that is alone.                                               *)

\* The beginning of a list.
LEMMA Beginning ==
  ASSUME NEW S, NEW s, NEW m \in Nat, \A i \in 1 .. m : s[i] \in S
  PROVE  /\ SubSeq(s, 1, m) \in Seq(S) /\ Len(SubSeq(s, 1, m)) = m
         /\ \A i \in 1 .. m : SubSeq(s, 1, m)[i] = s[i]
  <1>1. PICK q : q = SubSeq(s, 1, m)
    OBVIOUS
  <1>2. /\ q \in Seq(S) /\ Len(q) = IF 1 <= m THEN m - 1 + 1 ELSE 0
        /\ \A i \in 1 .. m - 1 + 1 : q[i] = s[1 + i - 1]
    <2>1. 1 \in Int /\ m \in Int
      OBVIOUS
    <2> QED BY <1>1, <2>1, SubSeqProperties
  <1>3. m - 1 + 1 = m /\ (IF 1 <= m THEN m - 1 + 1 ELSE 0) = m
    OBVIOUS
  <1>4. \A i \in 1 .. m : i \in 1 .. m - 1 + 1 /\ 1 + i - 1 = i
    OBVIOUS
  <1>5. \A i \in 1 .. m : q[i] = s[i]
    BY ONLY <1>2, <1>4
  <1>6. Len(q) = m
    BY ONLY <1>2, <1>3
  <1> QED BY <1>1, <1>2, <1>5, <1>6

\* The last withdrawal, when it is deleted, leaves those before it.
LEMMA DeletedLast ==
  ASSUME NEW p \in Seq(Withdrawals), NEW k \in 1 .. Len(p), NEW q,
         q = SubSeq(p, 1, k)
  PROVE  /\ q \in Seq(Withdrawals) /\ Len(q) = k
         /\ \A i \in 1 .. k : q[i] = p[i]
         /\ SubSeq([q EXCEPT ![k] = q[Len(q)]], 1, Len(q) - 1) = SubSeq(p, 1, k - 1)
  <1>1. k \in Nat /\ Len(p) \in Nat /\ \A i \in 1 .. k : p[i] \in Withdrawals
    OBVIOUS
  <1>2. /\ q \in Seq(Withdrawals) /\ Len(q) = k
        /\ \A i \in 1 .. k : q[i] = p[i]
    BY <1>1, Beginning
  <1>3. [q EXCEPT ![k] = q[Len(q)]] = q
    <2>1. q = [i \in 1 .. k |-> q[i]]
      <3>1. q \in [1 .. Len(q) -> Withdrawals]
        BY <1>2, LenProperties
      <3> QED BY <1>2, <3>1
    <2>2. q[Len(q)] = q[k]
      BY <1>2
    <2> QED BY <2>1, <2>2
  <1>4. PICK m \in Nat : m = k - 1
    OBVIOUS
  <1>5. \A i \in 1 .. m : p[i] \in Withdrawals /\ q[i] \in Withdrawals /\ q[i] = p[i]
    BY <1>1, <1>2, <1>4
  <1>6. /\ SubSeq(q, 1, m) \in Seq(Withdrawals) /\ Len(SubSeq(q, 1, m)) = m
        /\ \A i \in 1 .. m : SubSeq(q, 1, m)[i] = q[i]
    BY ONLY <1>5, m \in Nat, Beginning
  <1>7. /\ SubSeq(p, 1, m) \in Seq(Withdrawals) /\ Len(SubSeq(p, 1, m)) = m
        /\ \A i \in 1 .. m : SubSeq(p, 1, m)[i] = p[i]
    BY ONLY <1>5, m \in Nat, Beginning
  <1>8. \A i \in 1 .. m : SubSeq(q, 1, m)[i] = SubSeq(p, 1, m)[i]
    BY ONLY <1>5, <1>6, <1>7
  <1>9. SubSeq(q, 1, m) = SubSeq(p, 1, m)
    BY ONLY <1>6, <1>7, <1>8, SeqEqual
  <1> QED BY <1>2, <1>3, <1>4, <1>9

\* Alone, the contract accepts a transaction that is built ...
LEMMA RelockAlone ==
  ASSUME ClientsOK, NEW c \in Clients, SendRelock(c),
         NEW j \in 1 .. Len(Built(c)) + 1, Sent(c, j),
         j <= Len(Built(c)) => pending = SubSeq(read[c], 1, Len(read[c]) + 1 - j)
  PROVE  /\ MayRelock(Head(txos[c]))
         /\ pc'[c] = "relocking" /\ j + 1 <= Len(Built(c)) =>
              pending' = SubSeq(read[c], 1, Len(read[c]) + 1 - (j + 1))
  <1>1. PICK T, n : T = Built(c) /\ n = Len(read[c])
    OBVIOUS
  <1>2. n \in Nat /\ FromTheEnd(read[c], T) /\ Len(T) \in Nat
    BY <1>1, BuiltIs DEF ClientsOK
  <1>3. j \in 1 .. Len(T) /\ Head(txos[c]) = T[j]
    BY <1>1, RelockProgress
  <1>4. PICK k \in 1 .. n : k = n + 1 - j
    <2>1. Len(T) <= n
      BY <1>1, <1>2 DEF FromTheEnd
    <2>2. n + 1 - j \in 1 .. n
      BY <1>2, <1>3, <2>1
    <2> QED BY <2>2
  <1>5. /\ pending \in Seq(Withdrawals) /\ Len(pending) = k
        /\ \A i \in 1 .. k : pending[i] = read[c][i]
        /\ SubSeq([pending EXCEPT ![k] = pending[Len(pending)]], 1, Len(pending) - 1)
             = SubSeq(read[c], 1, k - 1)
    <2>1. read[c] \in Seq(Withdrawals) /\ pending = SubSeq(read[c], 1, k)
      BY <1>1, <1>3, <1>4 DEF ClientsOK
    <2>2. k \in 1 .. Len(read[c])
      BY <1>1
    <2> QED BY <2>1, <2>2, DeletedLast
  <1>6. PICK t : t = T[j]
    OBVIOUS
  <1>7. /\ t.index = k /\ t.value <= pending[k].value
        /\ j < Len(T) => t.value = pending[k].value
    <2>1. /\ t.index = Len(read[c]) + 1 - j
          /\ t.value <= read[c][Len(read[c]) + 1 - j].value
          /\ j < Len(T) => t.value = read[c][Len(read[c]) + 1 - j].value
      BY <1>2, <1>3, <1>6 DEF FromTheEnd
    <2>2. Len(read[c]) + 1 - j = k
      BY <1>1, <1>4
    <2>3. t.index = k /\ t.value <= read[c][k].value
          /\ (j < Len(T) => t.value = read[c][k].value)
      BY <2>1, <2>2
    <2>4. pending[k] = read[c][k]
      BY <1>5
    <2> QED BY <2>3, <2>4
  <1>8. MayRelock(t)
    BY <1>5, <1>7 DEF MayRelock
  <1>9. ASSUME pc'[c] = "relocking", j + 1 <= Len(T)
        PROVE  pending' = SubSeq(read[c], 1, n + 1 - (j + 1))
    <2>1. PICK fee \in Fees : ContractRelock(t, fee)
      BY <1>3, <1>6, <1>9 DEF SendRelock, Goto, ClientsOK
    <2>2. t.value = pending[k].value
      BY <1>2, <1>3, <1>7, <1>9
    <2>3. pending' = SubSeq([pending EXCEPT ![k] = pending[Len(pending)]], 1, Len(pending) - 1)
      BY <1>7, <2>1, <2>2 DEF ContractRelock, Deleted
    <2>4. k - 1 = n + 1 - (j + 1)
      BY <1>2, <1>3, <1>4
    <2> QED BY <1>5, <2>3, <2>4
  <1> QED BY <1>1, <1>3, <1>6, <1>8, <1>9

\* ... and only the price of its transactions stops it after the first.
LEMMA StepAlone ==
  ASSUME ChainOK, ClientsOK, NEW c \in Clients, OperationOf(c), cmd[c].op = "lock",
         ProgressOf(c), AloneOf(c), Step(c)
  PROVE  AloneOf(c)'
  <1> USE DEF OperationOf, Preparing
  <1>1. /\ toRelock[c] \in Nat /\ cmd[c].value \in Nat /\ LockValue(c) \in Nat
        /\ celo \in Nat /\ gas[c] \in Nat
    BY CommandIs DEF ClientsOK, ChainOK, LockValue
  <1>2. CASE CheckAccount(c)
    BY <1>1, <1>2 DEF CheckAccount, Goto, ClientsOK, AloneOf
  <1>3. CASE Register(c)
    BY <1>1, <1>3 DEF Register, Goto, ClientsOK, ProgressOf, AloneOf
  <1>4. CASE SplitValue(c)
    BY <1>1, <1>4 DEF SplitValue, Goto, ClientsOK, AloneOf
  <1>5. CASE CheckCelo(c)
    <2>1. UNCHANGED <<celo, gas, cmd, toRelock, done>>
      BY <1>5 DEF CheckCelo, chain, inputs
    <2>2. \/ celo >= LockValue(c) /\ pc'[c] = "affordable"
          \/ pc'[c] = "refused"
      BY <1>5 DEF CheckCelo, Goto, ClientsOK
    <2> QED BY <1>1, <2>1, <2>2 DEF AloneOf, Affordable, LockValue
  <1>6. CASE ReadPending(c)
    <2>1. UNCHANGED <<celo, gas, pending, cmd, toRelock>>
      BY <1>6 DEF ReadPending, chain, inputs
    <2>2. pc[c] = "affordable" /\ pc'[c] = "relockRead" /\ read'[c] = pending
      BY <1>6 DEF ReadPending, Goto, ClientsOK
    <2> QED BY <2>1, <2>2 DEF AloneOf, Affordable, LockValue
  <1>7. CASE BuildRelock(c)
    <2>1. UNCHANGED <<celo, gas, pending, cmd, toRelock, read, done>> /\ pc[c] = "relockRead"
      BY <1>7 DEF BuildRelock, chain, inputs
    <2>2. Affordable(c) /\ Affordable(c)' /\ read[c] = pending /\ done[c] = 0
      BY <2>1 DEF AloneOf, ProgressOf, Affordable, LockValue
    <2>3. CASE pc'[c] = "failed"
      BY <2>1, <2>2, <2>3 DEF AloneOf
    <2>4. CASE pc'[c] = "relocking"
      <3>1. 1 \in 1 .. Len(Built(c)') + 1 /\ Sent(c, 1)'
        BY <1>7, <2>2, <2>4, RelockBegins
      <3>2. pending' = SubSeq(read'[c], 1, Len(read'[c]) + 1 - 1)
        <4>1. PICK p : p = pending /\ p \in Seq(Withdrawals)
          BY DEF ChainOK
        <4>2. SubSeq(p, 1, Len(p)) = p /\ Len(p) + 1 - 1 = Len(p)
          BY <4>1, SubSeqFull
        <4>3. pending' = p /\ read'[c] = p
          BY <2>1, <2>2, <4>1
        <4> QED BY <4>2, <4>3
      <3>3. \E j \in 1 .. Len(Built(c)') + 1 :
              /\ Sent(c, j)'
              /\ j <= Len(Built(c)') => pending' = SubSeq(read'[c], 1, Len(read'[c]) + 1 - j)
        BY <3>1, <3>2
      <3> QED BY <2>1, <2>2, <2>4, <3>3 DEF AloneOf
    <2> QED BY <1>7, <2>3, <2>4 DEF BuildRelock, Goto, ClientsOK
  <1>8. CASE SendRelock(c)
    <2>1. PICK j \in 1 .. Len(Built(c)) + 1 :
            /\ Sent(c, j)
            /\ j <= Len(Built(c)) => pending = SubSeq(read[c], 1, Len(read[c]) + 1 - j)
      BY <1>8 DEF AloneOf, SendRelock
    <2>2. /\ MayRelock(Head(txos[c]))
          /\ pc'[c] = "relocking" /\ j + 1 <= Len(Built(c)) =>
               pending' = SubSeq(read[c], 1, Len(read[c]) + 1 - (j + 1))
      BY <1>8, <2>1, RelockAlone
    <2>3. /\ Built(c)' = Built(c)
          /\ pc'[c] = "relocking" => j + 1 \in 1 .. Len(Built(c)) + 1 /\ Sent(c, j + 1)'
      BY <1>8, <2>1, RelockProgress
    <2>4. UNCHANGED <<cmd, toRelock, read>> /\ LockValue(c)' = LockValue(c) /\ Affordable(c)
      BY <1>8 DEF SendRelock, inputs, LockValue, AloneOf
    <2>5. CASE pc'[c] = "relocking"
      <3>1. PICK fee \in Fees : Charge(fee, 0, 0) /\ gas'[c] = gas[c] + fee
        BY <1>8, <2>5 DEF SendRelock, ContractRelock, Goto, ClientsOK
      <3>2. fee \in Nat /\ celo' \in Nat /\ celo' + 0 + fee = celo + 0
        BY <3>1, Charged
      <3>3. celo' + gas'[c] = celo + gas[c]
        <4>1. celo' + (gas[c] + fee) = celo + gas[c]
          BY <1>1, <3>2, Exchanged
        <4> QED BY <3>1, <4>1
      <3>4. Affordable(c)'
        BY <2>4, <3>3 DEF Affordable
      <3>5. \E k \in 1 .. Len(Built(c)') + 1 :
              /\ Sent(c, k)'
              /\ k <= Len(Built(c)') => pending' = SubSeq(read'[c], 1, Len(read'[c]) + 1 - k)
        <4>1. PICK k : k = j + 1
          OBVIOUS
        <4> QED BY <2>2, <2>3, <2>4, <2>5, <4>1
      <3> QED BY <2>5, <3>4, <3>5 DEF AloneOf
    <2>6. CASE pc'[c] = "failed"
      <3>1. PICK fee \in Fees : fee > celo /\ UNCHANGED <<celo, gas>>
        BY <1>8, <2>2, <2>6 DEF SendRelock, Goto, ClientsOK, chain
      <3>2. fee \in Nat
        BY LockedGoldAssumption
      <3>3. celo' < LockValue(c)' + fee
        BY <1>1, <2>4, <3>1, <3>2
      <3> QED BY <2>4, <2>6, <3>1, <3>3 DEF AloneOf, Affordable, PaidOut
    <2> QED BY <1>8, <2>5, <2>6 DEF SendRelock, Goto, ClientsOK
  <1>9. CASE SendLock(c)
    <2>1. Affordable(c) /\ LockValue(c)' = LockValue(c) /\ gas' = gas
      BY <1>9 DEF AloneOf, SendLock, inputs, LockValue
    <2>2. \/ pc'[c] = "done"
          \/ /\ pc'[c] = "failed" /\ celo' = celo
             /\ \E fee \in Fees : LockValue(c) + fee > celo
      BY <1>9 DEF SendLock, Goto, ClientsOK, chain
    <2>3. CASE pc'[c] = "done"
      BY <2>3 DEF AloneOf
    <2>4. CASE pc'[c] = "failed" /\ celo' = celo /\ \E fee \in Fees : LockValue(c) + fee > celo
      <3>1. PICK fee \in Fees : LockValue(c) + fee > celo
        BY <2>4
      <3>2. fee \in Nat
        BY LockedGoldAssumption
      <3>3. celo' < LockValue(c)' + fee
        BY <1>1, <2>1, <2>4, <3>1, <3>2
      <3> QED BY <2>1, <2>4, <3>3 DEF AloneOf, Affordable, PaidOut
    <2> QED BY <2>2, <2>3, <2>4
  <1>10. CASE CheckUnlock(c) BY <1>10 DEF CheckUnlock
  <1>11. CASE SendUnlock(c) BY <1>11 DEF SendUnlock
  <1>12. CASE ReadWithdrawals(c) BY <1>12 DEF ReadWithdrawals
  <1>13. CASE Scan(c) BY <1>13 DEF Scan
  <1>14. CASE ScanAgain(c) BY <1>14 DEF ScanAgain
  <1> QED BY <1>2, <1>3, <1>4, <1>5, <1>6, <1>7, <1>8, <1>9, <1>10, <1>11, <1>12,
             <1>13, <1>14 DEF Step

-----------------------------------------------------------------------------
\* Nothing was locked at first.
LEMMA InitIInv == Init => IInv
  <1> SUFFICES ASSUME Init PROVE IInv
    OBVIOUS
  <1>1. Operations /\ Unused
    BY DEF Init, Operations, OperationOf, Unused, Preparing
  <1>2. Progress /\ Alone
    BY DEF Init, Progress, Alone, NoCommand
  <1> QED BY <1>1, <1>2, InitTypeOK DEF IInv

\* Every step of any terminal, and time, keep the invariant.
LEMMA NextIInv == IInv /\ [Next]_vars => IInv'
  <1> SUFFICES ASSUME IInv, [Next]_vars PROVE IInv'
    OBVIOUS
  <1>1. ChainOK /\ ClientsOK /\ Operations /\ Progress /\ Unused /\ Alone
    BY DEF IInv, TypeOK, ChainOK, ClientsOK
  <1>2. ASSUME UNCHANGED <<isAccount, celo, spent, locked, pending, inputs, pc, toRelock,
                           read, txos, at, done, gas>>, now' \in 0 .. MaxTime
        PROVE  IInv'
    <2>1. UNCHANGED <<runs, cmd, currentTime>>
      BY <1>2 DEF inputs
    <2>2. TypeOK'
      BY <1>1, <1>2, <2>1 DEF ChainOK, ClientsOK, TypeOK
    <2>3. Operations' /\ Unused'
      BY <1>1, <1>2, <2>1 DEF Operations, OperationOf, Unused
    <2>4. Progress' /\ Alone'
      BY <1>1, <1>2, <2>1
         DEF Progress, ProgressOf, Alone, AloneOf, Affordable, PaidOut, Sent, Built, LockValue,
             Undisturbed
    <2> QED BY <2>2, <2>3, <2>4 DEF IInv
  <1>3. CASE UNCHANGED vars \/ Exit
    BY <1>1, <1>2, <1>3 DEF vars, Exit, chain, ChainOK
  <1>4. CASE Tick
    BY <1>1, <1>2, <1>4, LockedGoldAssumption DEF Tick, ChainOK
  <1>5. ASSUME NEW c \in Clients,
               Step(c) \/ Break(c) \/ \E command \in Commands : Start(c, command)
        PROVE  IInv'
    <2>1. \A d \in Clients : d # c =>
            /\ runs'[d] = runs[d] /\ pc'[d] = pc[d] /\ cmd'[d] = cmd[d]
            /\ toRelock'[d] = toRelock[d] /\ read'[d] = read[d]
            /\ txos'[d] = txos[d] /\ done'[d] = done[d] /\ gas'[d] = gas[d]
      BY <1>1, <1>5, OthersStay
    <2>2. TypeOK'
      <3>1. CASE Step(c)
        BY <1>1, <3>1, StepTypes DEF TypeOK, ChainOK, ClientsOK
      <3>2. CASE \E command \in Commands : Start(c, command)
        <4>1. ClientsOK'
          BY <1>1, <3>2, StartTypes
        <4>2. ChainOK'
          BY <1>1, <3>2 DEF Start, chain, ChainOK
        <4> QED BY <4>1, <4>2 DEF TypeOK, ChainOK, ClientsOK
      <3>3. CASE Break(c)
        BY <1>1, <3>3, BreakTypes DEF TypeOK, ChainOK, ClientsOK
      <3> QED BY <1>5, <3>1, <3>2, <3>3
    <2>3. Operations'
      <3>1. OperationOf(c)'
        BY <1>1, <1>5, StepOperation, BreakOperation, StartOperation DEF Operations
      <3>2. \A d \in Clients : d # c => OperationOf(d)'
        BY <1>1, <2>1 DEF Operations, OperationOf
      <3> QED BY <3>1, <3>2 DEF Operations
    <2>4. /\ runs'[c] # 0
          /\ Step(c) \/ Break(c) => runs' = runs /\ cmd' = cmd /\ pc[c] # "idle"
      <3>1. CASE \E command \in Commands : Start(c, command)
        <4>1. pc[c] \in Ended
          BY <3>1 DEF Start
        <4>2. ~Step(c) /\ ~Break(c)
          BY <4>1 DEF Step, Break, Ended, CheckAccount, Register, SplitValue, CheckCelo,
            ReadPending, BuildRelock, SendRelock, SendLock, CheckUnlock, SendUnlock,
            ReadWithdrawals, Scan, ScanAgain
        <4> QED BY <1>1, <3>1, <4>2, StartOperation DEF Operations
      <3>2. CASE Step(c)
        <4>1. runs' = runs /\ cmd' = cmd /\ pc[c] # "idle"
          BY <3>2 DEF Step, CheckAccount, Register, SplitValue, CheckCelo,
            ReadPending, BuildRelock, SendRelock, SendLock, CheckUnlock, SendUnlock,
            ReadWithdrawals, Scan, ScanAgain, inputs
        <4> QED BY <1>1, <4>1 DEF Unused
      <3>3. CASE Break(c)
        <4>1. runs' = runs /\ cmd' = cmd /\ pc[c] # "idle"
          BY <3>3 DEF Break, Ended, inputs
        <4> QED BY <1>1, <4>1 DEF Unused
      <3> QED BY <1>5, <3>1, <3>2, <3>3
    <2>5. Unused'
      BY <1>1, <2>1, <2>4 DEF Unused
    <2>6. Progress'
      <3>1. \A d \in Clients : d # c => (cmd'[d].op = "lock" => ProgressOf(d)')
        <4> TAKE d \in Clients
        <4> SUFFICES ASSUME d # c, cmd'[d].op = "lock" PROVE ProgressOf(d)'
          OBVIOUS
        <4>1. Built(d)' = Built(d) /\ LockValue(d)' = LockValue(d) /\ ProgressOf(d)
          BY <1>1, <2>1 DEF Built, LockValue, Progress
        <4>2. ASSUME NEW j \in 1 .. Len(Built(d)) + 1, Sent(d, j) PROVE Sent(d, j)'
          BY <2>1, <4>1, <4>2 DEF Sent
        <4> QED BY <2>1, <4>1, <4>2 DEF ProgressOf
      <3>2. ASSUME cmd'[c].op = "lock" PROVE ProgressOf(c)'
        <4>1. CASE Step(c)
          BY <1>1, <2>4, <3>2, <4>1, StepProgress DEF Progress, Operations
        <4>2. CASE \E command \in Commands : Start(c, command)
          <5>1. done'[c] = 0 /\ pc'[c] \in {"checking", "unlockChecking", "reading", "refused"}
            BY <1>1, <4>2, StartOperation DEF Operations
          <5> QED BY <5>1 DEF ProgressOf
        <4>3. CASE Break(c)
          <5>1. pc'[c] = "interrupted" /\ done'[c] = done[c] /\ cmd' = cmd
            BY <1>1, <2>4, <4>3, BreakOperation DEF Operations
          <5>2. done[c] <= cmd[c].value
            BY <1>1, <3>2, <5>1, LocksNoMore DEF Progress, Operations
          <5>3. done'[c] <= cmd'[c].value
            BY <5>1, <5>2
          <5> QED BY <5>1, <5>3 DEF ProgressOf, Preparing
        <4> QED BY <1>5, <4>1, <4>2, <4>3
      <3> QED BY <3>1, <3>2 DEF Progress
    <2>7. Alone'
      <3> SUFFICES ASSUME Undisturbed', NEW d \in Clients, cmd'[d].op = "lock"
                   PROVE  AloneOf(d)'
        BY DEF Alone
      <3>1. CASE d # c
        <4>1. runs'[d] = 0
          <5>1. ~(runs'[c] > 0 /\ runs'[d] > 0)
            BY <3>1 DEF Undisturbed
          <5>2. runs'[c] \in Nat /\ runs'[d] \in Nat
            BY <2>2, LockedGoldAssumption DEF TypeOK
          <5> QED BY <2>4, <5>1, <5>2
        <4>2. pc'[d] = "idle"
          BY <2>5, <4>1 DEF Unused
        <4> QED BY <4>2 DEF AloneOf
      <3>2. CASE d = c
        <4>1. CASE Step(c)
          <5>1. Undisturbed /\ cmd[c].op = "lock"
            BY <2>4, <3>2, <4>1 DEF Undisturbed
          <5>2. AloneOf(c) /\ ProgressOf(c) /\ OperationOf(c)
            BY <1>1, <5>1 DEF Alone, Progress, Operations
          <5> QED BY <1>1, <3>2, <4>1, <5>1, <5>2, StepAlone
        <4>2. CASE \E command \in Commands : Start(c, command)
          <5>1. pc'[c] \in {"checking", "unlockChecking", "reading", "refused"}
            BY <1>1, <4>2, StartOperation DEF Operations
          <5> QED BY <3>2, <5>1 DEF AloneOf
        <4>3. CASE Break(c)
          <5>1. pc'[c] = "interrupted"
            BY <1>1, <4>3, BreakOperation DEF Operations
          <5> QED BY <3>2, <5>1 DEF AloneOf
        <4> QED BY <1>5, <4>1, <4>2, <4>3
      <3> QED BY <3>1, <3>2
    <2> QED BY <2>2, <2>3, <2>5, <2>6, <2>7 DEF IInv
  <1> QED BY <1>3, <1>4, <1>5 DEF Next

\* It always holds.
LEMMA Invariance == Spec => []IInv
  BY InitIInv, NextIInv, PTL DEF Spec

-----------------------------------------------------------------------------
\* The types, and that the CELO of an account is in its balance, locked, pending or spent
\* on gas, whatever relocks, locks, unlocks and withdrawals do (LockedGold.ts).
THEOREM TypesAndConservation == Spec => []TypeOK
  <1>1. IInv => TypeOK
    BY DEF IInv
  <1> QED BY <1>1, Invariance, PTL

\* However other terminals interleave, lockedcelo:lock never locks more than --value, and
\* when it ends well it locked that, less what relock did not find in the list that it
\* read first (lock.ts, LockedGold.relock).
THEOREM LockIsExact == Spec => []LocksExactly
  <1>1. IInv => LocksExactly
    BY LocksNoMore
       DEF IInv, TypeOK, ClientsOK, Progress, Operations, ProgressOf, LocksExactly
  <1> QED BY <1>1, Invariance, PTL

\* While one terminal is used, a lock that fails after it has locked a part cannot pay for
\* its next transaction, and only because of the gas of those it has sent or of that one:
\* its checks and reads find everything else before the first (lock.ts, LockedGold.relock).
THEOREM LockStopsOnlyForGas == Spec => []LocksPartlyOnlyForGas
  <1>1. IInv => LocksPartlyOnlyForGas
    BY DEF IInv, LocksPartlyOnlyForGas, Alone, AloneOf, Affordable, PaidOut, Progress,
           ProgressOf, Preparing
  <1> QED BY <1>1, Invariance, PTL

\* Relocks that cost nothing have cost nothing.
LEMMA FreeOfGas ==
  ASSUME Fees \subseteq {0}
  PROVE  Spec => [](\A c \in Clients : gas[c] = 0)
  <1> DEFINE Free == \A c \in Clients : gas[c] = 0
  <1>1. Init => Free
    BY DEF Init
  <1>2. ASSUME IInv, Free, [Next]_vars PROVE Free'
    <2>1. gas \in [Clients -> Nat]
      BY <1>2 DEF IInv, TypeOK
    <2>2. CASE UNCHANGED gas
      BY <1>2, <2>2
    <2>3. ASSUME NEW c \in Clients, SendRelock(c) PROVE Free'
      <3>1. PICK fee \in Fees : gas' = [gas EXCEPT ![c] = @ + fee] \/ gas' = gas
        BY <2>3 DEF SendRelock
      <3>2. fee = 0 /\ gas[c] = 0
        BY <1>2
      <3> QED BY <1>2, <2>1, <3>1, <3>2
    <2>4. ASSUME NEW c \in Clients, \E command \in Commands : Start(c, command) PROVE Free'
      BY <1>2, <2>1, <2>4 DEF Start
    <2>5. \/ UNCHANGED gas \/ \E c \in Clients : SendRelock(c)
          \/ \E c \in Clients : \E command \in Commands : Start(c, command)
      BY <1>2 DEF Next, Step, Break, vars, Tick, Exit, CheckAccount, Register, SplitValue,
        CheckCelo, ReadPending, BuildRelock, SendLock, CheckUnlock, SendUnlock,
        ReadWithdrawals, Scan, ScanAgain
    <2> QED BY <2>2, <2>3, <2>4, <2>5
  <1> HIDE DEF Free
  <1>3. Spec => []Free
    BY <1>1, <1>2, Invariance, PTL DEF Spec
  <1> QED BY <1>3 DEF Free

\* When gas is paid for in another currency (or the node gives it away), a lock that
\* fails has locked nothing.
COROLLARY LockIsAllOrNothing ==
  ASSUME Fees \subseteq {0}
  PROVE  Spec => []LockAllOrNothing
  <1>1. IInv /\ (\A c \in Clients : gas[c] = 0) => LockAllOrNothing
    <2> SUFFICES ASSUME IInv, \A d \in Clients : gas[d] = 0, Undisturbed, NEW c \in Clients, cmd[c].op = "lock",
                        pc[c] \in {"failed", "refused"}, done[c] # 0
                 PROVE  FALSE
      BY DEF LockAllOrNothing
    <2>1. ClientsOK /\ ProgressOf(c) /\ AloneOf(c)
      BY DEF IInv, TypeOK, ClientsOK, Progress, Alone
    <2>2. pc[c] = "failed" /\ done[c] > 0
      BY <2>1 DEF ProgressOf, Preparing, ClientsOK
    <2>3. Affordable(c) /\ PaidOut(c)
      BY <2>1, <2>2 DEF AloneOf
    <2>4. celo \in Nat
      BY DEF IInv, TypeOK
    <2>5. LockValue(c) \in Nat
      <3>1. /\ cmd[c].value \in Nat /\ toRelock[c] \in Nat
            /\ toRelock[c] <= cmd[c].value
        BY <2>1, CommandIs DEF ClientsOK
      <3> QED BY <3>1 DEF LockValue
    <2>6. celo + 0 >= LockValue(c)
      BY <2>3 DEF Affordable
    <2>7. PICK fee \in {0} : celo < LockValue(c) + fee
      BY <2>3 DEF PaidOut
    <2> QED BY <2>4, <2>5, <2>6, <2>7
  <1> QED BY <1>1, FreeOfGas, Invariance, PTL
=============================================================================
