--------------------------- MODULE ElectionProofs ---------------------------
(***************************************************************************)
(* VoteRevocation, for any groups, any votes and any number of steps of    *)
(* anybody: the hints that findLesserAndGreaterAfterVote computes fit the  *)
(* list they were computed from; a command revokes what it was asked to    *)
(* and nothing else; Election.revoke of votes that are there is not turned *)
(* back.  Validators, for any accounts and plans: what a command checks    *)
(* and looks up is enough for its transaction, and a member is reordered   *)
(* to the index that was asked for.                                        *)
(***************************************************************************)
EXTENDS VoteRevocation, Validators, SortedVotesProofs, SequenceTheorems, TLAPS

-----------------------------------------------------------------------------
(* The specification.                                                      *)

\* What keeps the hints right: the list has no repetitions, votes are numbers.
ListInv ==
  /\ list \in Seq(Groups) /\ Distinct(list)
  /\ pending \in [Groups -> Int]
  /\ active \in [Groups -> Int]
  /\ others \in [Groups -> Int]

LEMMA ListInvInit == Init => ListInv
<1> SUFFICES ASSUME Init PROVE ListInv
  OBVIOUS
<1>1. list \in Seq(Groups) /\ Distinct(list)
  <2>1. list \in Orders
    BY DEF Init
  <2>2. PICK n \in 0 .. Cardinality(Groups) : list \in [1 .. n -> Groups]
    BY <2>1 DEF Orders
  <2>3. n \in Nat /\ list \in Seq(Groups)
    BY <2>2
  <2> QED BY <2>1, <2>3 DEF Orders, Distinct
<1>2. MaxVotes \in Nat
  BY RevocationAssumption
<1>3. /\ pending \in [Groups -> 0 .. MaxVotes]
      /\ active \in [Groups -> 0 .. MaxVotes]
      /\ others \in [Groups -> 0 .. MaxVotes]
  BY DEF Init
<1> QED BY <1>1, <1>2, <1>3 DEF ListInv

\* A group is moved in the list by the votes it gains or loses.
LEMMA Moved ==
  ASSUME list \in Seq(Groups), Distinct(list), NEW g \in Members(list),
         NEW p \in 0 .. Len(Rest(list, g))
  PROVE  LET moved == PutAt(Rest(list, g), g, p)
         IN moved \in Seq(Groups) /\ Distinct(moved)
<1>1. g \in Groups
  BY DEF Members
<1> QED BY <1>1, RestShifts, PutAtKeeps

LEMMA RevokeKeepsList ==
  ASSUME ListInv, NEW t, Valid(t), Revoke(t)
  PROVE  ListInv'
<1>1. list' \in Seq(Groups) /\ Distinct(list')
  <2>1. CASE t.group \in Members(list)
    <3>1. PICK p \in Places(Rest(list, t.group), Votes, Votes[t.group] - t.value, t.hint) :
            list' = PutAt(Rest(list, t.group), t.group, p)
      BY <2>1 DEF Revoke
    <3>2. p \in 0 .. Len(Rest(list, t.group))
      BY DEF Places
    <3> QED BY <2>1, <3>1, <3>2, Moved DEF ListInv
  <2>2. CASE t.group \notin Members(list)
    BY <2>2 DEF Revoke, ListInv
  <2> QED BY <2>1, <2>2
<1>2. CASE t.kind = "pending"
  <2>1. t.group \in Groups => t.value \in Int
    BY <1>2 DEF ListInv, Valid
  <2> QED BY <1>1, <1>2, <2>1 DEF ListInv, Revoke
<1>3. CASE t.kind # "pending"
  <2>1. t.group \in Groups => t.value \in Int
    BY <1>3 DEF ListInv, Valid
  <2> QED BY <1>1, <1>3, <2>1 DEF ListInv, Revoke
<1> QED BY <1>2, <1>3

LEMMA NoiseKeepsList ==
  ASSUME ListInv, Noise
  PROVE  ListInv'
<1>1. PICK g \in Groups : \/ OthersVote(g, 1) \/ OthersVote(g, -1)
                           \/ ActivatedByOthers(g)
                           \/ MarkIneligible(g)
  BY DEF Noise
<1>2. ASSUME NEW by \in Int, OthersVote(g, by) PROVE ListInv'
  <2>1. list' \in Seq(Groups) /\ Distinct(list')
    <3>1. CASE g \in Members(list)
      <4>1. PICK p \in 0 .. Len(Rest(list, g)) : list' = PutAt(Rest(list, g), g, p)
        BY <1>2, <3>1 DEF OthersVote
      <4> QED BY <3>1, <4>1, Moved DEF ListInv
    <3>2. CASE g \notin Members(list)
      BY <1>2, <3>2 DEF OthersVote, ListInv
    <3> QED BY <3>1, <3>2
  <2> QED BY <1>2, <2>1 DEF OthersVote, ListInv
<1>3. CASE ActivatedByOthers(g)
  BY <1>3 DEF ActivatedByOthers, ListInv
<1>4. CASE MarkIneligible(g)
  <2>1. list' \in Seq(Groups) /\ Distinct(list')
    BY <1>4, RestShifts DEF MarkIneligible, ListInv
  <2> QED BY <1>4, <2>1 DEF MarkIneligible, ListInv
<1> QED BY <1>1, <1>2, <1>3, <1>4

LEMMA ListInvNext == ListInv /\ [Next]_vars => ListInv'
<1> SUFFICES ASSUME ListInv, [Next]_vars PROVE ListInv'
  OBVIOUS
<1>1. CASE UNCHANGED chain
  BY <1>1 DEF chain, ListInv, Distinct
<1>2. ASSUME NEW c \in Commands, Start(c) PROVE ListInv'
  BY <1>1, <1>2 DEF Start
<1>3. ASSUME NEW g \in Groups, ReadPending(g) \/ ReadActive(g) PROVE ListInv'
  BY <1>1, <1>3 DEF ReadPending, ReadActive
<1>4. ASSUME NEW g \in Groups, Build(g) PROVE ListInv'
  BY <1>1, <1>4 DEF Build
<1>5. CASE Send
  BY <1>1, <1>5, RevokeKeepsList DEF Send
<1>6. CASE Finish
  BY <1>1, <1>6 DEF Finish
<1>7. CASE Noise
  BY <1>7, NoiseKeepsList
<1>8. CASE Exit \/ UNCHANGED vars
  BY <1>1, <1>8 DEF Exit, vars
<1> QED BY <1>2, <1>3, <1>4, <1>5, <1>6, <1>7, <1>8 DEF Next

\* At every moment, whatever commands and other accounts have done: hints read
\* from the chain are accepted by the contract as long as the list stays.
THEOREM HintsAlwaysFit == Spec => []FreshHintsAccepted
<1>1. ListInv => FreshHintsAccepted
  <2> SUFFICES ASSUME ListInv,
                      NEW g \in Members(list),
                      NEW weight \in (- Votes[g]) .. MaxVotes
               PROVE  Accepts(list, Votes, g, Votes[g] + weight,
                              LesserAndGreater(list, Votes, g, weight))
    BY DEF FreshHintsAccepted
  <2>1. Votes \in [Groups -> Int]
    BY DEF ListInv, Votes, Mine
  <2>2. weight \in Int /\ Nobody \notin Groups
    BY RevocationAssumption
  <2> QED BY <2>1, <2>2, HintsFit DEF ListInv
<1> QED BY <1>1, ListInvInit, ListInvNext, PTL DEF Spec
-----------------------------------------------------------------------------
(* What is revoked.                                                        *)

Kinds == {"pending", "active"}
PartRecords == [kind : Kinds, value : Nat, weight : Int]
Hints == [lesser : Groups \cup {Nobody}, greater : Groups \cup {Nobody}]
TxObjects == [kind : Kinds, group : Groups, value : Nat, index : Int, hint : Hints]

\* The votes that a sequence of at most two parts, or transactions, revokes.
Sum(s) ==
  IF s = <<>> THEN 0 ELSE s[1].value + IF Len(s) > 1 THEN s[2].value ELSE 0

\* What the command has still to revoke of a group, built or not.
Left(g) == Sum(owed[g]) + Sum(built[g])

AmountsOK ==
  /\ pending \in [Groups -> Nat] /\ active \in [Groups -> Nat]
  /\ votedFor \in Seq(Groups) /\ order \in Seq(Groups)
  /\ before \in [Groups -> Nat] /\ cmd.value \in Nat
  /\ pc \in {"idle", "running", "done", "failed"}
  /\ owed \in [Groups -> Seq(PartRecords)] /\ built \in [Groups -> Seq(TxObjects)]
  /\ \A g \in Groups : Len(owed[g]) + Len(built[g]) <= 2
  /\ \A g \in Groups : \A i \in 1 .. Len(built[g]) : built[g][i].group = g
  /\ unread \subseteq Members(order)

\* A command with a value is for one group.
OneGroup == HasValue => cmd.group \in Groups /\ order = <<cmd.group>>

\* While a command runs: nothing is done for a group before its votes are read,
\* and then what is left is what is due; of a command for all votes it is more if
\* they were activated between the two reads, and then a transaction fails.
OnCourse ==
  /\ \A g \in Groups : g \notin Members(order) \/ g \in unread
                       => owed[g] = <<>> /\ built[g] = <<>>
  /\ pc = "running" =>
       \A g \in Members(order) :
         IF g \in unread THEN Revoked(g) = 0
         ELSE IF HasValue THEN Left(g) = cmd.value - Revoked(g)
         ELSE Left(g) >= Mine(g)

\* The pending votes that were read can only have become active since, and not
\* even that if nobody else has moved.
SeenInv ==
  /\ noise \in Nat /\ seen \in [Groups -> Nat] /\ halfRead \subseteq unread
  /\ \A g \in halfRead : /\ pending[g] <= seen[g]
                         /\ noise = 0 => seen[g] = pending[g]

RevokedInv == AmountsOK /\ OneGroup /\ OnCourse /\ RevokesExactly

\* What the sequences of parts and transactions amount to when one is taken off
\* or put on.
LEMMA SumOfNone == Sum(<<>>) = 0
BY DEF Sum

LEMMA SumOfTail ==
  ASSUME NEW R, NEW s \in Seq(R), s # <<>>, Len(s) <= 2,
         \A r \in R : r.value \in Nat
  PROVE  /\ Head(s) \in R /\ Head(s) = s[1] /\ Tail(s) \in Seq(R)
         /\ Len(Tail(s)) = Len(s) - 1 /\ Sum(s) \in Nat /\ Sum(Tail(s)) \in Nat
         /\ Sum(s) = Head(s).value + Sum(Tail(s))
         /\ \A i \in 1 .. Len(Tail(s)) : Tail(s)[i] = s[i + 1]
<1>1. Len(s) = 1 \/ Len(s) = 2
  <2> DEFINE n == Len(s)
  <2>1. n \in Nat /\ n <= 2
    BY LenProperties
  <2>2. n # 0
    BY EmptySeq
  <2> HIDE DEF n
  <2>3. n = 1 \/ n = 2
    BY ONLY <2>1, <2>2
  <2> QED BY <2>3 DEF n
<1>2. s[1] \in R /\ Head(s) = s[1] /\ Tail(s) \in Seq(R) /\ Len(Tail(s)) = Len(s) - 1
      /\ \A i \in 1 .. Len(Tail(s)) : Tail(s)[i] = s[i + 1]
  <2>1. Head(s) = s[1]
    BY <1>1
  <2>2. s[1] \in R
    BY <1>1, ElementOfSeq
  <2> QED BY <2>1, <2>2, HeadTailProperties
<1>3. CASE Len(s) = 1
  <2>1. Tail(s) = <<>>
    <3>1. Len(Tail(s)) = 0
      BY <1>2, <1>3
    <3> QED BY <1>2, <3>1, EmptySeq
  <2>2. Sum(s) = s[1].value
    BY <1>2, <1>3 DEF Sum
  <2>3. Sum(Tail(s)) = 0
    BY <2>1 DEF Sum
  <2> QED BY <1>2, <2>2, <2>3
<1>4. CASE Len(s) = 2
  <2>1. s[2] \in R /\ Tail(s)[1] = s[2] /\ Tail(s) # <<>>
    <3>1. s[2] \in R
      BY <1>4, ElementOfSeq
    <3>2. Len(Tail(s)) = 1
      BY <1>2, <1>4
    <3>3. Tail(s)[1] = s[2]
      BY <1>2, <3>2
    <3>4. Tail(s) # <<>>
      <4>1. Len(Tail(s)) # 0
        BY <3>2
      <4> QED BY <4>1, EmptySeq
    <3> QED BY <3>1, <3>3, <3>4
  <2>2. Sum(Tail(s)) = s[2].value
    <3>1. Len(Tail(s)) = 1
      BY <1>2, <1>4
    <3> HIDE <1>2
    <3> QED BY <2>1, <3>1 DEF Sum
  <2>3. Sum(s) = s[1].value + s[2].value
    BY <1>4 DEF Sum
  <2> QED BY <1>2, <2>1, <2>2, <2>3
<1> QED BY <1>1, <1>3, <1>4

LEMMA SumOfAppend ==
  ASSUME NEW R, NEW s \in Seq(R), Len(s) <= 1, NEW e \in R,
         \A r \in R : r.value \in Nat
  PROVE  /\ Append(s, e) \in Seq(R) /\ Len(Append(s, e)) = Len(s) + 1
         /\ Sum(s) \in Nat /\ Sum(Append(s, e)) = Sum(s) + e.value
         /\ \A i \in 1 .. Len(s) : Append(s, e)[i] = s[i]
         /\ Append(s, e)[Len(s) + 1] = e
<1>1. Len(s) = 0 \/ Len(s) = 1
  <2> DEFINE n == Len(s)
  <2>1. n \in Nat /\ n <= 1
    BY LenProperties
  <2> HIDE DEF n
  <2>2. n = 0 \/ n = 1
    BY ONLY <2>1
  <2> QED BY <2>2 DEF n
<1>2. /\ Append(s, e) \in Seq(R) /\ Len(Append(s, e)) = Len(s) + 1
      /\ \A i \in 1 .. Len(s) : Append(s, e)[i] = s[i]
      /\ Append(s, e)[Len(s) + 1] = e /\ Append(s, e) # <<>>
  BY AppendProperties
<1>3. CASE Len(s) = 0
  <2>1. s = <<>>
    BY <1>3, EmptySeq
  <2>2. Sum(s) = 0
    BY <2>1 DEF Sum
  <2>3. Sum(Append(s, e)) = e.value
    BY <1>2, <1>3 DEF Sum
  <2> QED BY <1>2, <2>2, <2>3
<1>4. CASE Len(s) = 1
  <2>1. s # <<>> /\ s[1] \in R
    BY <1>4, EmptySeq, ElementOfSeq
  <2>2. Sum(s) = s[1].value
    BY <1>4, <2>1 DEF Sum
  <2>3. Sum(Append(s, e)) = s[1].value + e.value
    BY <1>2, <1>4 DEF Sum
  <2> QED BY <1>2, <2>1, <2>2, <2>3
<1> QED BY <1>1, <1>3, <1>4

LEMMA SumOfOne ==
  ASSUME NEW R, NEW p \in R, p.value \in Nat
  PROVE  <<p>> \in Seq(R) /\ Len(<<p>>) = 1 /\ <<p>>[1] = p /\ Sum(<<p>>) = p.value
BY DEF Sum

LEMMA SumOfTwo ==
  ASSUME NEW R, NEW p \in R, NEW q \in R, p.value \in Nat, q.value \in Nat
  PROVE  /\ <<p, q>> \in Seq(R) /\ Len(<<p, q>>) = 2
         /\ <<p, q>>[1] = p /\ <<p, q>>[2] = q
         /\ Sum(<<p, q>>) = p.value + q.value
BY DEF Sum

LEMMA OneAndOne ==
  ASSUME NEW p, NEW q
  PROVE  <<p>> \o <<q>> = <<p, q>>
<1> DEFINE S == {p, q}
<1>1. p \in S /\ q \in S
  OBVIOUS
<1> HIDE DEF S
<1>2. /\ <<p>> \in Seq(S) /\ <<q>> \in Seq(S) /\ <<p, q>> \in Seq(S)
      /\ Len(<<p>>) = 1 /\ Len(<<q>>) = 1 /\ Len(<<p, q>>) = 2
      /\ <<p>>[1] = p /\ <<q>>[1] = q /\ <<p, q>>[1] = p /\ <<p, q>>[2] = q
  BY <1>1
<1>3. <<p>> \o <<q>> \in Seq(S) /\ Len(<<p>> \o <<q>>) = 2
  BY <1>2, ConcatProperties
<1>4. (<<p>> \o <<q>>)[1] = p
  <2>1. 1 \in 1 .. Len(<<p>>) + Len(<<q>>) /\ 1 <= Len(<<p>>)
    BY <1>2
  <2>2. (<<p>> \o <<q>>)[1] = IF 1 <= Len(<<p>>) THEN <<p>>[1] ELSE <<q>>[1 - Len(<<p>>)]
    BY <1>2, <2>1, ConcatProperties
  <2> QED BY <1>2, <2>1, <2>2
<1>5. (<<p>> \o <<q>>)[2] = q
  <2>1. 2 \in 1 .. Len(<<p>>) + Len(<<q>>) /\ ~(2 <= Len(<<p>>)) /\ 2 - Len(<<p>>) = 1
    BY <1>2
  <2>2. (<<p>> \o <<q>>)[2] = IF 2 <= Len(<<p>>) THEN <<p>>[2] ELSE <<q>>[2 - Len(<<p>>)]
    BY <1>2, <2>1, ConcatProperties
  <2> QED BY <1>2, <2>1, <2>2
<1>6. \A i \in 1 .. 2 : i = 1 \/ i = 2
  OBVIOUS
<1>7. \A i \in 1 .. Len(<<p>> \o <<q>>) : (<<p>> \o <<q>>)[i] = <<p, q>>[i]
  BY <1>2, <1>3, <1>4, <1>5, <1>6
<1> QED BY <1>2, <1>3, <1>7, SeqEqual

\* Parts takes pending and active votes, each if there are any.
PendingPart(a) == [kind |-> "pending", value |-> a, weight |-> - a]
ActivePart(b, w) == [kind |-> "active", value |-> b, weight |-> w]

LEMMA PartsForms ==
  ASSUME NEW a \in Nat, NEW b \in Nat, NEW w \in Int
  PROVE  Parts(a, b, w)
         = IF a = 0 THEN IF b = 0 THEN <<>> ELSE <<ActivePart(b, w)>>
           ELSE IF b = 0 THEN <<PendingPart(a)>>
                ELSE <<PendingPart(a), ActivePart(b, w)>>
<1>1. Parts(a, b, w) = (IF a = 0 THEN <<>> ELSE <<PendingPart(a)>>)
                       \o (IF b = 0 THEN <<>> ELSE <<ActivePart(b, w)>>)
  BY DEF Parts, PendingPart, ActivePart
<1> QED BY <1>1, OneAndOne

LEMMA PartsFacts ==
  ASSUME NEW a \in Nat, NEW b \in Nat, NEW w \in Int
  PROVE  /\ Parts(a, b, w) \in Seq(PartRecords)
         /\ Len(Parts(a, b, w)) <= 2
         /\ Sum(Parts(a, b, w)) = a + b
<1> DEFINE p == PendingPart(a)
           q == ActivePart(b, w)
<1>1. /\ p \in PartRecords /\ p.value = a
      /\ q \in PartRecords /\ q.value = b
  BY DEF PartRecords, Kinds, PendingPart, ActivePart
<1>2. Parts(a, b, w) = IF a = 0 THEN IF b = 0 THEN <<>> ELSE <<q>>
                       ELSE IF b = 0 THEN <<p>> ELSE <<p, q>>
  BY PartsForms
<1> HIDE DEF p, q
<1>3. CASE a = 0 /\ b = 0
  <2>1. Parts(a, b, w) = <<>>
    BY <1>2, <1>3
  <2>2. <<>> \in Seq(PartRecords) /\ Len(<<>>) = 0
    BY EmptySeq
  <2>3. 0 <= 2 /\ a + b = 0
    BY <1>3
  <2> QED BY <2>1, <2>2, <2>3, SumOfNone
<1>4. CASE a = 0 /\ b # 0
  <2>1. Parts(a, b, w) = <<q>>
    BY <1>2, <1>4
  <2>2. <<q>> \in Seq(PartRecords) /\ Len(<<q>>) = 1 /\ Sum(<<q>>) = b
    BY <1>1, SumOfOne
  <2>3. 1 <= 2 /\ a + b = b
    BY <1>4
  <2> QED BY <2>1, <2>2, <2>3
<1>5. CASE a # 0 /\ b = 0
  <2>1. Parts(a, b, w) = <<p>>
    BY <1>2, <1>5
  <2>2. <<p>> \in Seq(PartRecords) /\ Len(<<p>>) = 1 /\ Sum(<<p>>) = a
    BY <1>1, SumOfOne
  <2>3. 1 <= 2 /\ a + b = a
    BY <1>5
  <2> QED BY <2>1, <2>2, <2>3
<1>6. CASE a # 0 /\ b # 0
  <2>1. Parts(a, b, w) = <<p, q>>
    BY <1>2, <1>6
  <2>2. <<p, q>> \in Seq(PartRecords) /\ Len(<<p, q>>) = 2 /\ Sum(<<p, q>>) = a + b
    BY <1>1, SumOfTwo
  <2> QED BY <2>1, <2>2
<1> QED BY <1>3, <1>4, <1>5, <1>6

\* What a wrapper function computes of a group amounts to its value, or to all
\* that it has read.
LEMMA PartsOfFacts ==
  ASSUME AmountsOK, SeenInv, NEW g \in Groups, ~TooMany(g)
  PROVE  /\ PartsOf(g) \in Seq(PartRecords) /\ Len(PartsOf(g)) <= 2
         /\ Sum(PartsOf(g)) = IF HasValue THEN cmd.value ELSE seen[g] + active[g]
<1> DEFINE p == FromPending(g, cmd.value)
<1>1. seen[g] \in Nat /\ active[g] \in Nat /\ cmd.value \in Nat
  BY DEF AmountsOK, SeenInv
<1>2. p \in Nat /\ cmd.value - p \in Nat
  BY <1>1 DEF FromPending
<1> HIDE DEF p
<1>3. CASE cmd.op = "Election.revoke"
  <2>1. PartsOf(g) = Parts(p, cmd.value - p, - cmd.value)
    BY <1>3 DEF PartsOf, p
  <2>2. p + (cmd.value - p) = cmd.value /\ - cmd.value \in Int
    BY <1>1, <1>2
  <2>3. HasValue
    BY <1>3 DEF HasValue
  <2> HIDE DEF HasValue
  <2> QED BY <1>2, <2>1, <2>2, <2>3, PartsFacts
<1>4. CASE cmd.op = "ReleaseGold.revoke"
  <2>1. PartsOf(g) = Parts(p, cmd.value - p, p - cmd.value)
    BY <1>4 DEF PartsOf, p
  <2>2. p + (cmd.value - p) = cmd.value /\ p - cmd.value \in Int
    BY <1>1, <1>2
  <2>3. HasValue
    BY <1>4 DEF HasValue
  <2> HIDE DEF HasValue
  <2> QED BY <1>2, <2>1, <2>2, <2>3, PartsFacts
<1>5. CASE ~HasValue
  <2>1. PartsOf(g) = Parts(seen[g], active[g], - active[g])
    BY <1>5 DEF PartsOf, HasValue
  <2>2. - active[g] \in Int
    BY <1>1
  <2> QED BY <1>1, <1>5, <2>1, <2>2, PartsFacts
<1> QED BY <1>3, <1>4, <1>5 DEF HasValue

\* The hints are groups, and an index is a number.
LEMMA HintsAreGroups ==
  ASSUME NEW s \in Seq(Groups), NEW votes, NEW group, NEW weight
  PROVE  LesserAndGreater(s, votes, group, weight) \in Hints
<1> DEFINE total == VoteTotal(s, votes, group, weight)
           B == Below(s, votes, group, total)
           A == Above(s, votes, group, total)
<1>1. B \subseteq 1 .. Len(s) /\ A \subseteq 1 .. Len(s) /\ Len(s) \in Nat
  BY DEF Below, Above, Others
<1>2. B # {} => s[First(B)] \in Groups
  BY <1>1, FirstIsLeast
<1>3. A # {} => s[Latest(A)] \in Groups
  <2>1. A \in SUBSET (0 .. Len(s))
    BY <1>1
  <2> HIDE DEF A
  <2>2. A # {} => Latest(A) \in A
    BY <1>1, <2>1, LatestIsGreatest
  <2> QED BY <1>1, <2>2, ElementOfSeq
<1> QED BY <1>2, <1>3 DEF LesserAndGreater, Hints

LEMMA IndexIsNumber ==
  ASSUME votedFor \in Seq(Groups), NEW g
  PROVE  /\ IndexOf(g) \in Int
         /\ g \in Members(votedFor) =>
              IndexOf(g) + 1 \in DOMAIN votedFor /\ votedFor[IndexOf(g) + 1] = g
<1>1. CASE g \in Members(votedFor)
  <2>1. PICK i \in DOMAIN votedFor : i = (CHOOSE j \in DOMAIN votedFor : votedFor[j] = g)
                                     /\ votedFor[i] = g
    BY <1>1 DEF Members
  <2>2. i \in Int /\ IndexOf(g) = i - 1
    BY <1>1, <2>1 DEF IndexOf
  <2> QED BY <2>1, <2>2
<1> QED BY <1>1 DEF IndexOf

\* The command begins with nothing revoked.
LEMMA RevokedInit == Init => RevokedInv
<1> SUFFICES ASSUME Init PROVE RevokedInv
  OBVIOUS
<1>1. MaxVotes \in Nat
  BY RevocationAssumption
<1>0. /\ pending \in [Groups -> 0 .. MaxVotes] /\ active \in [Groups -> 0 .. MaxVotes]
      /\ cmd = [op |-> "none", group |-> Nobody, value |-> 0]
      /\ before = [g \in Groups |-> Mine(g)] /\ order = <<>> /\ unread = {}
      /\ pc = "idle" /\ owed = Nothing /\ built = Nothing
  BY DEF Init
<1>2. pending \in [Groups -> Nat] /\ active \in [Groups -> Nat]
  BY <1>0, <1>1
<1>3. votedFor \in Seq(Groups)
  <2>1. PICK n \in 0 .. Cardinality(Groups) : votedFor \in [1 .. n -> Groups]
    BY DEF Init, Orders
  <2>2. n \in Nat
    OBVIOUS
  <2> QED BY <2>1, <2>2
<1>4. order = <<>> /\ unread = {} /\ pc = "idle" /\ ~HasValue
  BY <1>0 DEF HasValue
<1>5. before \in [Groups -> Nat]
  BY <1>0, <1>2 DEF Mine
<1>6. \A g \in Groups : owed[g] = <<>> /\ built[g] = <<>>
  BY <1>0 DEF Nothing
<1>7. owed \in [Groups -> Seq(PartRecords)] /\ built \in [Groups -> Seq(TxObjects)]
  BY <1>0 DEF Nothing
<1>8. order \in Seq(Groups) /\ cmd.value \in Nat
  BY <1>0
<1>9. \A g \in Groups : /\ Len(owed[g]) + Len(built[g]) <= 2
                        /\ \A i \in 1 .. Len(built[g]) : built[g][i].group = g
  <2>1. Len(<<>>) + Len(<<>>) <= 2 /\ \A i \in 1 .. Len(<<>>) : FALSE
    OBVIOUS
  <2> QED BY <1>6, <2>1
<1>10. AmountsOK
  BY <1>2, <1>3, <1>4, <1>5, <1>7, <1>8, <1>9 DEF AmountsOK
<1> QED BY <1>4, <1>6, <1>10 DEF RevokedInv, OneGroup, OnCourse, RevokesExactly

LEMMA RevokedByStart ==
  ASSUME RevokedInv, NEW c \in Commands, Start(c)
  PROVE  RevokedInv'
<1> DEFINE all == c.op = "ReleaseGold.revokeAllVotesForAllGroups"
<1>1. /\ pc' = "running" /\ cmd' = c /\ before' = [g \in Groups |-> Mine(g)]
      /\ order' = (IF all THEN votedFor ELSE <<c.group>>)
      /\ unread' = Members(order') /\ owed' = Nothing /\ built' = Nothing
      /\ pending' = pending /\ active' = active /\ votedFor' = votedFor
  BY DEF Start, chain
<1>2. MaxVotes \in Nat
  BY RevocationAssumption
<1>3. c.value \in Nat
  BY <1>2 DEF Commands
<1>4. ~all => c.group \in Groups
  BY DEF Commands
<1>5. HasValue' => ~all
  BY <1>1 DEF HasValue
<1> HIDE DEF all
<1>6. order' \in Seq(Groups)
  BY <1>1, <1>4 DEF RevokedInv, AmountsOK
<1>7. \A g \in Groups : owed'[g] = <<>> /\ built'[g] = <<>>
  BY <1>1 DEF Nothing
<1>8. owed' \in [Groups -> Seq(PartRecords)] /\ built' \in [Groups -> Seq(TxObjects)]
  BY <1>1 DEF Nothing
<1>9. \A g \in Groups : Mine(g) \in Nat /\ before'[g] = Mine(g) /\ Mine(g)' = Mine(g)
  BY <1>1 DEF RevokedInv, AmountsOK, Mine
<1>10. \A g \in Groups : Revoked(g)' = 0
  BY <1>9 DEF Revoked
<1>11. AmountsOK'
  <2>1. before' \in [Groups -> Nat]
    BY <1>1, <1>9
  <2>2. \A g \in Groups : /\ Len(owed'[g]) + Len(built'[g]) <= 2
                          /\ \A i \in 1 .. Len(built'[g]) : built'[g][i].group = g
    <3>1. Len(<<>>) + Len(<<>>) <= 2 /\ \A i \in 1 .. Len(<<>>) : FALSE
      OBVIOUS
    <3> QED BY <1>7, <3>1
  <2>3. pending' \in [Groups -> Nat] /\ active' \in [Groups -> Nat]
        /\ votedFor' \in Seq(Groups)
    BY <1>1 DEF RevokedInv, AmountsOK
  <2> QED BY <1>1, <1>3, <1>6, <1>8, <2>1, <2>2, <2>3 DEF AmountsOK
<1>12. OneGroup'
  BY <1>1, <1>4, <1>5 DEF OneGroup
<1>13. OnCourse'
  <2>1. \A g \in Members(order') : g \in Groups /\ g \in unread'
    BY <1>1, <1>6 DEF Members
  <2> QED BY <1>7, <1>10, <2>1 DEF OnCourse
<1>14. RevokesExactly'
  BY <1>1, <1>3, <1>10 DEF RevokesExactly
<1> QED BY <1>11, <1>12, <1>13, <1>14 DEF RevokedInv

\* What the other steps of a command leave as it is.
LEMMA RevokedStays ==
  ASSUME RevokedInv, NEW g \in Groups,
         UNCHANGED <<pending, active, cmd, before>>
  PROVE  Revoked(g)' = Revoked(g) /\ Mine(g)' = Mine(g) /\ HasValue' = HasValue
BY DEF Revoked, Mine, HasValue

\* The first read of a group's votes is remembered, and changes nothing else.
LEMMA RevokedByReadPending ==
  ASSUME RevokedInv, NEW g \in Groups, ReadPending(g)
  PROVE  RevokedInv'
<1>1. /\ pending' = pending /\ active' = active /\ votedFor' = votedFor
      /\ cmd' = cmd /\ before' = before /\ order' = order /\ pc' = pc
      /\ unread' = unread /\ owed' = owed /\ built' = built
  BY DEF ReadPending, chain
<1>2. /\ \A h \in Groups : Revoked(h)' = Revoked(h) /\ Mine(h)' = Mine(h)
      /\ HasValue' = HasValue
  BY <1>1 DEF Revoked, Mine, HasValue
<1>3. AmountsOK' /\ OneGroup'
  BY <1>1, <1>2 DEF RevokedInv, AmountsOK, OneGroup
<1>4. OnCourse'
  <2>1. \A h \in Members(order) : h \in Groups
    BY DEF RevokedInv, AmountsOK, Members
  <2>2. \A h \in Groups : Left(h)' = Left(h)
    BY <1>1 DEF Left
  <2> QED BY <1>1, <1>2, <2>1, <2>2 DEF RevokedInv, OnCourse
<1>5. RevokesExactly'
  BY <1>1, <1>2 DEF RevokedInv, RevokesExactly
<1> QED BY <1>3, <1>4, <1>5 DEF RevokedInv

LEMMA RevokedByReadActive ==
  ASSUME RevokedInv, SeenInv, NEW g \in Groups, ReadActive(g)
  PROVE  RevokedInv'
<1>1. /\ pc = "running" /\ g \in unread /\ g \in halfRead
      /\ pending' = pending /\ active' = active /\ votedFor' = votedFor
      /\ cmd' = cmd /\ before' = before /\ order' = order /\ built' = built
  BY DEF ReadActive, chain, SeenInv
<1>2. /\ \A h \in Groups : Revoked(h)' = Revoked(h) /\ Mine(h)' = Mine(h)
      /\ HasValue' = HasValue
  <2>1. g \in Groups
    OBVIOUS
  <2> QED BY <1>1, <2>1, RevokedStays
<1>3. OneGroup'
  BY <1>1, <1>2 DEF OneGroup, RevokedInv
<1>4. CASE TooMany(g)
  <2>1. pc' = "failed" /\ unread' = unread /\ owed' = owed
    BY <1>4 DEF ReadActive, reading
  <2>2. AmountsOK'
    BY <1>1, <2>1 DEF RevokedInv, AmountsOK
  <2>3. OnCourse'
    BY <1>1, <2>1 DEF RevokedInv, OnCourse
  <2>4. RevokesExactly'
    BY <1>1, <1>2, <2>1 DEF RevokedInv, RevokesExactly
  <2> QED BY <1>3, <2>2, <2>3, <2>4 DEF RevokedInv
<1>5. CASE ~TooMany(g)
  <2>1. /\ pc' = pc /\ unread' = unread \ {g}
        /\ owed' = [owed EXCEPT ![g] = PartsOf(g)]
    BY <1>5 DEF ReadActive
  <2>2. /\ PartsOf(g) \in Seq(PartRecords) /\ Len(PartsOf(g)) <= 2
        /\ Sum(PartsOf(g)) = IF HasValue THEN cmd.value ELSE seen[g] + active[g]
    BY <1>5, PartsOfFacts DEF RevokedInv
  <2>3. owed[g] = <<>> /\ built[g] = <<>> /\ g \in Members(order) /\ Revoked(g) = 0
    BY <1>1 DEF RevokedInv, AmountsOK, OnCourse
  <2>4. owed \in [Groups -> Seq(PartRecords)]
    BY DEF RevokedInv, AmountsOK
  <2>5. /\ owed' \in [Groups -> Seq(PartRecords)] /\ owed'[g] = PartsOf(g)
        /\ \A h \in Groups : h # g => owed'[h] = owed[h]
    BY <2>1, <2>2, <2>4
  <2>6. Len(owed'[g]) + Len(built'[g]) <= 2
    <3>1. Len(<<>>) = 0 /\ Len(PartsOf(g)) \in Nat
      BY <2>2, LenProperties
    <3> QED BY <1>1, <2>2, <2>3, <2>5, <3>1
  <2>7. AmountsOK'
    BY <1>1, <2>1, <2>5, <2>6 DEF RevokedInv, AmountsOK
  <2>8. IF HasValue THEN Left(g)' = cmd.value ELSE Left(g)' >= Mine(g)
    <3>1. /\ cmd.value \in Nat /\ seen[g] \in Nat /\ pending[g] \in Nat
          /\ active[g] \in Nat /\ pending[g] <= seen[g]
      BY <1>1 DEF RevokedInv, AmountsOK, SeenInv
    <3>2. Left(g)' = Sum(PartsOf(g)) + 0
      BY <1>1, <2>3, <2>5, SumOfNone DEF Left
    <3>3. CASE HasValue
      BY <2>2, <3>1, <3>2, <3>3
    <3>4. CASE ~HasValue
      <4>1. Left(g)' = (seen[g] + active[g]) + 0
        BY <2>2, <3>2, <3>4
      <4>2. (seen[g] + active[g]) + 0 >= pending[g] + active[g]
        BY <3>1
      <4> QED BY <3>4, <4>1, <4>2 DEF Mine
    <3> QED BY <3>3, <3>4
  <2>9. \A h \in Groups : h # g => Left(h)' = Left(h)
    BY <1>1, <2>5 DEF Left
  <2>10. cmd.value - 0 = cmd.value
    BY DEF RevokedInv, AmountsOK
  <2>11. OnCourse'
    <3>1. \A h \in Groups : h \notin Members(order') \/ h \in unread'
                            => owed'[h] = <<>> /\ built'[h] = <<>>
      BY <1>1, <2>1, <2>3, <2>5 DEF RevokedInv, OnCourse
    <3>2. ASSUME NEW h \in Members(order')
          PROVE  IF h \in unread' THEN Revoked(h)' = 0
                 ELSE IF HasValue' THEN Left(h)' = cmd'.value - Revoked(h)'
                 ELSE Left(h)' >= Mine(h)'
      <4>1. h \in Groups
        BY <1>1 DEF RevokedInv, AmountsOK, Members
      <4>2. CASE h = g
        BY <1>1, <1>2, <2>1, <2>3, <2>8, <2>10, <4>2
      <4>3. CASE h # g
        BY <1>1, <1>2, <2>1, <2>9, <4>1, <4>3 DEF RevokedInv, OnCourse
      <4> QED BY <4>2, <4>3
    <3> QED BY <3>1, <3>2 DEF OnCourse
  <2>12. RevokesExactly'
    BY <1>1, <1>2, <2>1 DEF RevokedInv, RevokesExactly
  <2> QED BY <1>3, <2>7, <2>11, <2>12 DEF RevokedInv
<1> QED BY <1>4, <1>5

LEMMA RevokedByBuild ==
  ASSUME ListInv, RevokedInv, NEW g \in Groups, Build(g)
  PROVE  RevokedInv' /\ Left(g)' = Left(g)
<1> DEFINE part == Head(owed[g])
           t == [kind |-> part.kind, group |-> g, value |-> part.value,
                 index |-> IndexOf(g),
                 hint |-> LesserAndGreater(list, Votes, g, part.weight)]
<1>0. /\ owed[g] \in Seq(PartRecords) /\ built[g] \in Seq(TxObjects)
      /\ Len(owed[g]) + Len(built[g]) <= 2
      /\ owed \in [Groups -> Seq(PartRecords)] /\ built \in [Groups -> Seq(TxObjects)]
  BY DEF RevokedInv, AmountsOK
<1>1. /\ owed[g] # <<>> /\ pc' = pc
      /\ pending' = pending /\ active' = active /\ votedFor' = votedFor
      /\ cmd' = cmd /\ before' = before /\ order' = order /\ unread' = unread
      /\ built' = [built EXCEPT ![g] = Append(built[g], t)]
      /\ owed' = [owed EXCEPT ![g] = Tail(owed[g])]
  BY DEF Build, chain, reading
<1>2. /\ \A h \in Groups : Revoked(h)' = Revoked(h) /\ Mine(h)' = Mine(h)
      /\ HasValue' = HasValue
  <2>1. g \in Groups
    OBVIOUS
  <2> QED BY <1>1, <2>1, RevokedStays
<1>3. /\ \A r \in PartRecords : r.value \in Nat
      /\ \A r \in TxObjects : r.value \in Nat
  BY DEF PartRecords, TxObjects
<1>4. Len(owed[g]) \in Nat /\ Len(owed[g]) # 0 /\ Len(built[g]) \in Nat
  <2>1. Len(owed[g]) \in Nat /\ Len(built[g]) \in Nat
    BY <1>0, LenProperties
  <2>2. Len(owed[g]) # 0
    BY <1>0, <1>1, EmptySeq
  <2> QED BY <2>1, <2>2
<1>5. Len(owed[g]) <= 2 /\ Len(built[g]) <= 1
  BY <1>0, <1>4
<1>6. /\ part \in PartRecords /\ Tail(owed[g]) \in Seq(PartRecords)
      /\ Len(Tail(owed[g])) = Len(owed[g]) - 1
      /\ Sum(owed[g]) = part.value + Sum(Tail(owed[g])) /\ Sum(Tail(owed[g])) \in Nat
  BY <1>0, <1>1, <1>3, <1>5, SumOfTail
<1>7. t \in TxObjects /\ t.value = part.value /\ t.group = g
  <2>1. IndexOf(g) \in Int
    BY IndexIsNumber DEF RevokedInv, AmountsOK
  <2>2. part.kind \in Kinds /\ part.value \in Nat
    BY <1>6 DEF PartRecords
  <2>3. LesserAndGreater(list, Votes, g, part.weight) \in Hints
    BY HintsAreGroups DEF ListInv
  <2> QED BY <2>1, <2>2, <2>3 DEF TxObjects
<1> HIDE DEF part, t
<1>8. /\ Append(built[g], t) \in Seq(TxObjects)
      /\ Len(Append(built[g], t)) = Len(built[g]) + 1
      /\ Sum(built[g]) \in Nat /\ Sum(Append(built[g], t)) = Sum(built[g]) + t.value
      /\ \A i \in 1 .. Len(built[g]) : Append(built[g], t)[i] = built[g][i]
      /\ Append(built[g], t)[Len(built[g]) + 1] = t
  BY <1>0, <1>3, <1>5, <1>7, SumOfAppend
<1>9. /\ owed' \in [Groups -> Seq(PartRecords)] /\ owed'[g] = Tail(owed[g])
      /\ \A h \in Groups : h # g => owed'[h] = owed[h]
  BY <1>0, <1>1, <1>6
<1>10. /\ built' \in [Groups -> Seq(TxObjects)] /\ built'[g] = Append(built[g], t)
       /\ \A h \in Groups : h # g => built'[h] = built[h]
  BY <1>0, <1>1, <1>8
<1>11. Len(owed'[g]) + Len(built'[g]) <= 2
  <2>1. Len(owed'[g]) = Len(owed[g]) - 1 /\ Len(built'[g]) = Len(built[g]) + 1
    BY <1>6, <1>8, <1>9, <1>10
  <2> QED BY <1>0, <1>4, <2>1
<1>12. \A i \in 1 .. Len(built'[g]) : built'[g][i].group = g
  <2> TAKE i \in 1 .. Len(built'[g])
  <2>1. i \in 1 .. Len(built[g]) \/ i = Len(built[g]) + 1
    BY <1>4, <1>8, <1>10
  <2> QED BY <1>7, <1>8, <1>10, <2>1 DEF RevokedInv, AmountsOK
<1>13. AmountsOK'
  BY <1>1, <1>9, <1>10, <1>11, <1>12 DEF RevokedInv, AmountsOK
<1>14. \A h \in Groups : Left(h)' = Left(h)
  <2>1. Left(g)' = Left(g)
    <3>1. Left(g)' = Sum(Tail(owed[g])) + (Sum(built[g]) + t.value)
      BY <1>8, <1>9, <1>10 DEF Left
    <3>2. t.value \in Nat
      BY <1>3, <1>7
    <3> QED BY <1>6, <1>7, <1>8, <3>1, <3>2 DEF Left
  <2> QED BY <1>9, <1>10, <2>1 DEF Left
<1>15. g \in Members(order) /\ g \notin unread
  BY <1>1 DEF RevokedInv, OnCourse
<1>16. OnCourse'
  <2>1. \A h \in Groups : h \notin Members(order') \/ h \in unread'
                          => owed'[h] = <<>> /\ built'[h] = <<>>
    BY <1>1, <1>9, <1>10, <1>15 DEF RevokedInv, OnCourse
  <2>2. \A h \in Members(order') : h \in Groups
    BY <1>1 DEF RevokedInv, AmountsOK, Members
  <2> QED BY <1>1, <1>2, <1>14, <2>1, <2>2 DEF RevokedInv, OnCourse
<1>17. OneGroup'
  BY <1>1, <1>2 DEF OneGroup, RevokedInv
<1>18. RevokesExactly'
  BY <1>1, <1>2 DEF RevokedInv, RevokesExactly
<1> QED BY <1>13, <1>14, <1>16, <1>17, <1>18 DEF RevokedInv

\* What a transaction that is sent does to the account's votes.
LEMMA RevokeTakes ==
  ASSUME AmountsOK, NEW t \in TxObjects, Valid(t), Revoke(t)
  PROVE  /\ t.value \in 1 .. Mine(t.group)
         /\ pending' \in [Groups -> Nat] /\ active' \in [Groups -> Nat]
         /\ Mine(t.group)' = Mine(t.group) - t.value
         /\ \A h \in Groups : h # t.group => Mine(h)' = Mine(h)
         /\ votedFor' \in Seq(Groups)
<1>1. t.group \in Groups /\ t.value \in Nat
  BY DEF TxObjects
<1>2. /\ pending \in [Groups -> Nat] /\ active \in [Groups -> Nat]
      /\ pending[t.group] \in Nat /\ active[t.group] \in Nat
      /\ votedFor \in Seq(Groups)
  BY <1>1 DEF AmountsOK
<1>3. votedFor' \in Seq(Groups)
  <2>1. CASE t.value = Mine(t.group)
    <3> DEFINE k == t.index + 1
               n == Len(votedFor)
               s == [votedFor EXCEPT ![k] = votedFor[n]]
    <3>1. k \in 1 .. n /\ n \in Nat
      BY <1>2, <2>1, LenProperties DEF Valid
    <3>2. votedFor[n] \in Groups
      BY <1>2, <3>1
    <3>3. s \in Seq(Groups) /\ Len(s) = n
      BY <1>2, <3>1, <3>2, ExceptSeq
    <3>4. votedFor' = SubSeq(s, 1, n - 1)
      BY <2>1, <3>3 DEF Revoke, DeleteElement
    <3> HIDE DEF s, n, k
    <3>5. \A i \in 1 .. n - 1 : s[i] \in Groups
      BY <3>1, <3>3, ElementOfSeq
    <3> QED BY <3>1, <3>4, <3>5, SubSeqProperties
  <2>2. CASE t.value # Mine(t.group)
    BY <1>2, <2>2 DEF Revoke
  <2> QED BY <2>1, <2>2
<1>4. CASE t.kind = "pending"
  <2>1. t.value \in 1 .. pending[t.group]
    BY <1>4 DEF Valid
  <2>2. pending' = [pending EXCEPT ![t.group] = pending[t.group] - t.value]
        /\ active' = active
    BY <1>4 DEF Revoke
  <2>3. pending[t.group] - t.value \in Nat
    BY <1>2, <2>1
  <2> QED BY <1>1, <1>2, <1>3, <2>1, <2>2, <2>3 DEF Mine
<1>5. CASE t.kind # "pending"
  <2>1. t.value \in 1 .. active[t.group]
    BY <1>5 DEF Valid
  <2>2. active' = [active EXCEPT ![t.group] = active[t.group] - t.value]
        /\ pending' = pending
    BY <1>5 DEF Revoke
  <2>3. active[t.group] - t.value \in Nat
    BY <1>2, <2>1
  <2> QED BY <1>1, <1>2, <1>3, <2>1, <2>2, <2>3 DEF Mine
<1> QED BY <1>4, <1>5

\* The transaction that is sent next.
LEMMA NextTransaction ==
  ASSUME RevokedInv, Unsent # {}
  PROVE  LET g == order[First(Unsent)]
         IN /\ g \in Members(order) /\ g \in Groups /\ built[g] # <<>>
            /\ Head(built[g]) \in TxObjects /\ Head(built[g]).group = g
            /\ Head(built[g]) = built[g][1]
            /\ Tail(built[g]) \in Seq(TxObjects)
            /\ Len(Tail(built[g])) = Len(built[g]) - 1
            /\ Len(built[g]) \in 1 .. 2
            /\ \A i \in 1 .. Len(Tail(built[g])) : Tail(built[g])[i] = built[g][i + 1]
            /\ Sum(built[g]) = Head(built[g]).value + Sum(Tail(built[g]))
            /\ Sum(Tail(built[g])) \in Nat
<1> DEFINE g == order[First(Unsent)]
<1>1. order \in Seq(Groups) /\ built \in [Groups -> Seq(TxObjects)]
  BY DEF RevokedInv, AmountsOK
<1>2. Unsent \in SUBSET Nat /\ Unsent \subseteq 1 .. Len(order)
  <2>1. DOMAIN order = 1 .. Len(order)
    BY <1>1, LenProperties
  <2> QED BY <2>1 DEF Unsent
<1>3. First(Unsent) \in Unsent
  BY <1>2, FirstIsLeast
<1>4. g \in Groups /\ g \in Members(order) /\ built[g] # <<>>
  <2>1. First(Unsent) \in 1 .. Len(order) /\ First(Unsent) \in DOMAIN order
    BY <1>2, <1>3 DEF Unsent
  <2>2. g \in Groups
    BY <1>1, <2>1, ElementOfSeq
  <2> QED BY <1>3, <2>1, <2>2 DEF Unsent, Members
<1> HIDE DEF g
<1>5. built[g] \in Seq(TxObjects) /\ owed[g] \in Seq(PartRecords)
      /\ Len(owed[g]) + Len(built[g]) <= 2
      /\ \A i \in 1 .. Len(built[g]) : built[g][i].group = g
  BY <1>4 DEF RevokedInv, AmountsOK
<1>6. Len(built[g]) \in 1 .. 2
  <2> DEFINE n == Len(built[g])
             m == Len(owed[g])
  <2>1. n \in Nat /\ m \in Nat
    BY <1>5, LenProperties
  <2>2. n # 0
    BY <1>4, <1>5, EmptySeq
  <2>3. m + n <= 2
    BY <1>5
  <2> HIDE DEF n, m
  <2>4. n \in 1 .. 2
    BY <2>1, <2>2, <2>3
  <2> QED BY <2>4 DEF n
<1>7. Len(built[g]) <= 2 /\ \A r \in TxObjects : r.value \in Nat
  <2>1. \A k \in 1 .. 2 : k <= 2
    OBVIOUS
  <2>2. Len(built[g]) <= 2
    BY ONLY <1>6, <2>1
  <2> QED BY <2>2 DEF TxObjects
<1>8. /\ Head(built[g]) \in TxObjects /\ Head(built[g]) = built[g][1]
      /\ Tail(built[g]) \in Seq(TxObjects)
      /\ Len(Tail(built[g])) = Len(built[g]) - 1
      /\ Sum(built[g]) = Head(built[g]).value + Sum(Tail(built[g]))
      /\ Sum(Tail(built[g])) \in Nat
      /\ \A i \in 1 .. Len(Tail(built[g])) : Tail(built[g])[i] = built[g][i + 1]
  BY <1>4, <1>5, <1>7, SumOfTail
<1>9. Head(built[g]).group = g
  BY <1>5, <1>6, <1>8
<1> QED BY <1>4, <1>6, <1>8, <1>9 DEF g

\* Nothing can be owed of a group once everything is built.
LEMMA LeftWhenBuilt ==
  ASSUME RevokedInv, AllBuilt, pc = "running", NEW g \in Members(order)
  PROVE  /\ g \in Groups /\ g \notin unread /\ owed[g] = <<>>
         /\ IF HasValue THEN Sum(built[g]) = cmd.value - Revoked(g)
            ELSE Sum(built[g]) >= Mine(g)
         /\ Mine(g) \in Nat /\ Revoked(g) \in Int /\ cmd.value \in Nat
<1>1. g \in Groups
  BY DEF RevokedInv, AmountsOK, Members
<1>2. g \notin unread /\ owed[g] = <<>>
  BY <1>1 DEF AllBuilt, Nothing
<1>3. Mine(g) \in Nat /\ Revoked(g) \in Int /\ cmd.value \in Nat
  BY <1>1 DEF RevokedInv, AmountsOK, Mine, Revoked
<1>4. IF HasValue THEN Left(g) = cmd.value - Revoked(g) ELSE Left(g) >= Mine(g)
  BY <1>2 DEF RevokedInv, OnCourse
<1>5. Left(g) = 0 + Sum(built[g])
  BY <1>2, SumOfNone DEF Left
<1>6. Sum(built[g]) \in Nat
  <2>1. built[g] \in Seq(TxObjects) /\ Len(built[g]) <= 2
    <3>1. /\ built[g] \in Seq(TxObjects) /\ owed[g] \in Seq(PartRecords)
          /\ Len(owed[g]) + Len(built[g]) <= 2
      BY <1>1 DEF RevokedInv, AmountsOK
    <3> DEFINE n == Len(built[g])
               m == Len(owed[g])
    <3>2. n \in Nat /\ m \in Nat
      BY <3>1, LenProperties
    <3>3. m + n <= 2
      BY <3>1
    <3> HIDE DEF n, m
    <3>4. n <= 2
      BY <3>2, <3>3
    <3> QED BY <3>1, <3>4 DEF n
  <2>2. \A r \in TxObjects : r.value \in Nat
    BY DEF TxObjects
  <2>3. CASE built[g] = <<>>
    BY <2>3, SumOfNone
  <2>4. CASE built[g] # <<>>
    BY <2>1, <2>2, <2>4, SumOfTail
  <2> QED BY <2>3, <2>4
<1> QED BY <1>1, <1>2, <1>3, <1>4, <1>5, <1>6

\* Arithmetic of one transaction: what it takes is revoked, and no longer left.
LEMMA Taken ==
  ASSUME NEW b \in Nat, NEW m \in Nat, NEW v \in 1 .. m
  PROVE  b - (m - v) = (b - m) + v
OBVIOUS

LEMMA RemainsOfDifference ==
  ASSUME NEW v \in Int, NEW s \in Int, NEW x \in Int, NEW y \in Int, v + s = x - y
  PROVE  s = x - (y + v)
OBVIOUS

LEMMA RemainsAtLeast ==
  ASSUME NEW v \in Int, NEW s \in Int, NEW x \in Int, v + s >= x
  PROVE  s >= x - v
OBVIOUS

LEMMA Added == \A x \in Nat : \A r \in 0 .. x : \A v \in Nat : r + v \in Nat
OBVIOUS

LEMMA Within == \A x, s, r \in Nat : s = x - r => r \in 0 .. x
OBVIOUS

LEMMA RevokedBySend ==
  ASSUME RevokedInv, Send
  PROVE  RevokedInv'
<1>0. PICK g \in Groups, t \in TxObjects :
        g = order[First(Unsent)] /\ t = Head(built[g])
  BY NextTransaction DEF Send
<1>1. /\ pc = "running" /\ AllBuilt /\ Unsent # {}
      /\ built' = [built EXCEPT ![g] = Tail(built[g])]
      /\ \/ Valid(t) /\ Revoke(t) /\ pc' = pc
         \/ pc' = "failed" /\ chain' = chain
      /\ cmd' = cmd /\ before' = before /\ order' = order
      /\ unread' = unread /\ owed' = owed
  BY <1>0 DEF Send, reading
<1>2. /\ g \in Members(order) /\ g \in Groups
      /\ t \in TxObjects /\ t.group = g
      /\ Tail(built[g]) \in Seq(TxObjects)
      /\ Len(Tail(built[g])) = Len(built[g]) - 1 /\ Len(built[g]) \in 1 .. 2
      /\ \A i \in 1 .. Len(Tail(built[g])) : Tail(built[g])[i] = built[g][i + 1]
      /\ Sum(built[g]) = t.value + Sum(Tail(built[g])) /\ Sum(Tail(built[g])) \in Nat
  BY <1>0, <1>1, NextTransaction
<1>3. /\ g \notin unread /\ owed[g] = <<>>
      /\ IF HasValue THEN Sum(built[g]) = cmd.value - Revoked(g)
         ELSE Sum(built[g]) >= Mine(g)
      /\ Mine(g) \in Nat /\ Revoked(g) \in Int /\ cmd.value \in Nat
  BY <1>1, <1>2, LeftWhenBuilt
<1>4. /\ built' \in [Groups -> Seq(TxObjects)] /\ built'[g] = Tail(built[g])
      /\ \A h \in Groups : h # g => built'[h] = built[h]
  BY <1>1, <1>2 DEF RevokedInv, AmountsOK
<1>5. /\ \A h \in Groups : Len(owed'[h]) + Len(built'[h]) <= 2
      /\ \A h \in Groups : \A i \in 1 .. Len(built'[h]) : built'[h][i].group = h
  <2>1. Len(owed'[g]) + Len(built'[g]) <= 2
    <3>1. Len(<<>>) = 0 /\ \A k \in 1 .. 2 : 0 + (k - 1) <= 2
      OBVIOUS
    <3>2. Len(owed'[g]) = 0 /\ Len(built'[g]) = Len(built[g]) - 1
      BY <1>1, <1>2, <1>3, <1>4, <3>1
    <3> QED BY ONLY <1>2, <3>1, <3>2
  <2>2. \A i \in 1 .. Len(built'[g]) : built'[g][i].group = g
    <3> TAKE i \in 1 .. Len(built'[g])
    <3>1. i + 1 \in 1 .. Len(built[g]) /\ built'[g][i] = built[g][i + 1]
      BY <1>2, <1>4
    <3> QED BY <1>2, <3>1 DEF RevokedInv, AmountsOK
  <2> QED BY <1>1, <1>4, <2>1, <2>2 DEF RevokedInv, AmountsOK
<1>6. HasValue' = HasValue
  BY <1>1 DEF HasValue
<1>7. OneGroup'
  BY <1>1, <1>6 DEF RevokedInv, OneGroup
<1>8. \A h \in Groups : h \notin Members(order') \/ h \in unread'
                        => owed'[h] = <<>> /\ built'[h] = <<>>
  BY <1>1, <1>2, <1>3, <1>4 DEF RevokedInv, OnCourse
<1>9. CASE pc' = "failed" /\ chain' = chain
  <2>1. pending' = pending /\ active' = active /\ votedFor' = votedFor
    BY <1>9 DEF chain
  <2>2. AmountsOK'
    BY <1>1, <1>4, <1>5, <1>9, <2>1 DEF RevokedInv, AmountsOK
  <2>3. \A h \in Groups : Revoked(h)' = Revoked(h) /\ Mine(h)' = Mine(h)
    BY <1>1, <2>1, RevokedStays
  <2>4. RevokesExactly'
    BY <1>1, <1>6, <1>9, <2>3 DEF RevokedInv, RevokesExactly
  <2>5. OnCourse'
    BY <1>8, <1>9 DEF OnCourse
  <2> QED BY <1>7, <2>2, <2>4, <2>5 DEF RevokedInv
<1>10. CASE Valid(t) /\ Revoke(t) /\ pc' = pc
  <2>1. /\ t.value \in 1 .. Mine(g)
        /\ pending' \in [Groups -> Nat] /\ active' \in [Groups -> Nat]
        /\ Mine(g)' = Mine(g) - t.value
        /\ \A h \in Groups : h # g => Mine(h)' = Mine(h)
        /\ votedFor' \in Seq(Groups)
    BY <1>2, <1>10, RevokeTakes DEF RevokedInv
  <2>2. AmountsOK'
    BY <1>1, <1>4, <1>5, <1>10, <2>1 DEF RevokedInv, AmountsOK
  <2>3. Revoked(g)' = Revoked(g) + t.value
    <3>1. before[g] \in Nat
      BY <1>2 DEF RevokedInv, AmountsOK
    <3>2. /\ Revoked(g) = before[g] - Mine(g)
          /\ Revoked(g)' = before[g] - Mine(g)'
      BY <1>1 DEF Revoked
    <3>3. Mine(g)' = Mine(g) - t.value /\ t.value \in 1 .. Mine(g) /\ Mine(g) \in Nat
      BY ONLY <1>3, <2>1
    <3>4. before[g] - (Mine(g) - t.value) = (before[g] - Mine(g)) + t.value
      BY ONLY <3>1, <3>3, Taken
    <3> QED BY ONLY <3>2, <3>3, <3>4
  <2>4. \A h \in Groups : h # g => Revoked(h)' = Revoked(h)
    BY <1>1, <2>1 DEF Revoked
  <2>5. IF HasValue THEN Sum(built'[g]) = cmd.value - Revoked(g)'
        ELSE Sum(built'[g]) >= Mine(g)'
    <3>1. Sum(built'[g]) = Sum(Tail(built[g])) /\ t.value \in Int
      BY <1>2, <1>4 DEF TxObjects
    <3>4. /\ t.value \in Int /\ Sum(Tail(built[g])) \in Int /\ cmd.value \in Int
          /\ Revoked(g) \in Int /\ Mine(g) \in Int
      BY ONLY <1>2, <1>3, <3>1
    <3>2. CASE HasValue
      <4>1. t.value + Sum(Tail(built[g])) = cmd.value - Revoked(g)
        BY <1>2, <1>3, <3>2
      <4>2. Sum(Tail(built[g])) = cmd.value - (Revoked(g) + t.value)
        BY ONLY <3>4, <4>1, RemainsOfDifference
      <4> QED BY <2>3, <3>1, <3>2, <4>2
    <3>3. CASE ~HasValue
      <4>1. t.value + Sum(Tail(built[g])) >= Mine(g)
        BY <1>2, <1>3, <3>3
      <4>2. Sum(Tail(built[g])) >= Mine(g) - t.value
        BY ONLY <3>4, <4>1, RemainsAtLeast
      <4> QED BY <2>1, <3>1, <3>3, <4>2
    <3> QED BY <3>2, <3>3
  <2>6. Left(g)' = Sum(built'[g])
    <3>1. Left(g)' = 0 + Sum(built'[g])
      BY <1>1, <1>3, SumOfNone DEF Left
    <3> QED BY <1>2, <1>4, <3>1
  <2>7. \A h \in Groups : h # g => Left(h)' = Left(h)
    BY <1>1, <1>4 DEF Left
  <2>8. OnCourse'
    <3>1. ASSUME NEW h \in Members(order')
          PROVE  IF h \in unread' THEN Revoked(h)' = 0
                 ELSE IF HasValue' THEN Left(h)' = cmd'.value - Revoked(h)'
                 ELSE Left(h)' >= Mine(h)'
      <4>1. h \in Groups
        BY <1>1 DEF RevokedInv, AmountsOK, Members
      <4>2. CASE h = g
        BY <1>1, <1>3, <1>6, <2>5, <2>6, <4>2
      <4>3. CASE h # g
        BY <1>1, <1>6, <2>1, <2>4, <2>7, <4>1, <4>3 DEF RevokedInv, OnCourse
      <4> QED BY <4>2, <4>3
    <3> QED BY <1>8, <3>1 DEF OnCourse
  <2>9. RevokesExactly'
    <3>1. CASE HasValue
      <4>1. g = cmd.group
        BY <1>2, <3>1 DEF RevokedInv, OneGroup, Members
      <4>2. Revoked(g) \in 0 .. cmd.value
        BY <1>1, <1>2, <3>1, <4>1 DEF RevokedInv, RevokesExactly
      <4>3. Revoked(g)' \in 0 .. cmd.value
        <5>1. Sum(built'[g]) \in Nat /\ Sum(built'[g]) = cmd.value - Revoked(g)'
          BY <1>2, <1>4, <2>5, <3>1
        <5>2. t.value \in Nat
          BY <1>2 DEF TxObjects
        <5>3. Revoked(g)' \in Nat
          BY ONLY <2>3, <4>2, <5>2, Added
        <5> QED BY ONLY <1>3, <5>1, <5>3, Within
      <4> QED BY <1>1, <1>6, <1>10, <2>4, <3>1, <4>1, <4>3
              DEF RevokedInv, RevokesExactly
    <3>2. CASE ~HasValue
      BY <1>1, <1>2, <1>6, <1>10, <2>4, <3>2 DEF RevokedInv, RevokesExactly
    <3> QED BY <3>1, <3>2
  <2> QED BY <1>7, <2>2, <2>8, <2>9 DEF RevokedInv
<1> QED BY <1>1, <1>9, <1>10

LEMMA RevokedByFinish ==
  ASSUME RevokedInv, Finish
  PROVE  RevokedInv'
<1>1. /\ pc = "running" /\ AllBuilt /\ Unsent = {} /\ pc' = "done"
      /\ pending' = pending /\ active' = active /\ votedFor' = votedFor
      /\ cmd' = cmd /\ before' = before /\ order' = order /\ unread' = unread
      /\ owed' = owed /\ built' = built
  BY DEF Finish, chain, reading
<1>2. HasValue' = HasValue /\ \A h \in Groups : Revoked(h)' = Revoked(h) /\ Mine(h)' = Mine(h)
  <2>1. HasValue' = HasValue
    BY <1>1 DEF HasValue
  <2> QED BY <1>1, <2>1, RevokedStays
<1>3. AmountsOK' /\ OneGroup' /\ OnCourse'
  BY <1>1, <1>2 DEF RevokedInv, AmountsOK, OneGroup, OnCourse
<1>4. ASSUME NEW g \in Members(order)
      PROVE  IF HasValue THEN Revoked(g) = cmd.value ELSE Mine(g) = 0
  <2>1. built[g] = <<>>
    BY <1>1 DEF Unsent, Members
  <2>2. /\ IF HasValue THEN 0 = cmd.value - Revoked(g) ELSE 0 >= Mine(g)
        /\ Mine(g) \in Nat /\ Revoked(g) \in Int /\ cmd.value \in Nat
    BY <1>1, <2>1, LeftWhenBuilt, SumOfNone
  <2> QED BY ONLY <2>2
<1>5. HasValue => cmd.group \in Members(order)
  BY DEF RevokedInv, OneGroup, Members
<1>6. RevokesExactly'
  BY <1>1, <1>2, <1>4, <1>5 DEF RevokedInv, RevokesExactly
<1> QED BY <1>3, <1>6 DEF RevokedInv

\* Nobody else changes the account's votes, only from pending to active.
LEMMA NoiseKeepsMine ==
  ASSUME RevokedInv, Noise
  PROVE  /\ pending' \in [Groups -> Nat] /\ active' \in [Groups -> Nat]
         /\ votedFor' = votedFor
         /\ \A h \in Groups : Mine(h)' = Mine(h) /\ pending'[h] <= pending[h]
<1>1. PICK g \in Groups : \/ OthersVote(g, 1) \/ OthersVote(g, -1)
                           \/ ActivatedByOthers(g)
                           \/ MarkIneligible(g)
  BY DEF Noise
<1>2. pending \in [Groups -> Nat] /\ active \in [Groups -> Nat]
  BY DEF RevokedInv, AmountsOK
<1>3. CASE OthersVote(g, 1) \/ OthersVote(g, -1) \/ MarkIneligible(g)
  BY <1>2, <1>3 DEF OthersVote, MarkIneligible, Mine
<1>4. CASE ActivatedByOthers(g)
  BY <1>2, <1>4 DEF ActivatedByOthers, Mine
<1> QED BY <1>1, <1>3, <1>4

LEMMA RevokedByNoise ==
  ASSUME RevokedInv, Noise
  PROVE  RevokedInv'
<1>1. UNCHANGED client
  BY DEF Noise
<1>2. /\ pending' \in [Groups -> Nat] /\ active' \in [Groups -> Nat]
      /\ votedFor' = votedFor
      /\ \A h \in Groups : Mine(h)' = Mine(h)
  BY NoiseKeepsMine
<1>3. \A h \in Groups : Revoked(h)' = Revoked(h) /\ Left(h)' = Left(h)
  BY <1>1, <1>2 DEF client, reading, Revoked, Left
<1>4. AmountsOK' /\ OneGroup' /\ HasValue' = HasValue
  BY <1>1, <1>2 DEF client, reading, RevokedInv, AmountsOK, OneGroup, HasValue
<1>5. OnCourse'
  <2>1. \A h \in Members(order) : h \in Groups
    BY DEF RevokedInv, AmountsOK, Members
  <2> QED BY <1>1, <1>2, <1>3, <1>4, <2>1 DEF client, reading, RevokedInv, OnCourse
<1>6. RevokesExactly'
  <2>1. \A h \in Groups : h \in Members(order) <=> h \in Members(order')
    BY <1>1 DEF client, reading
  <2> QED BY <1>1, <1>2, <1>3, <1>4, <2>1 DEF client, reading, RevokedInv, RevokesExactly
<1> QED BY <1>4, <1>5, <1>6 DEF RevokedInv

LEMMA RevokedNext == ListInv /\ SeenInv /\ RevokedInv /\ [Next]_vars => RevokedInv'
<1> SUFFICES ASSUME ListInv, SeenInv, RevokedInv, [Next]_vars PROVE RevokedInv'
  OBVIOUS
<1>1. ASSUME NEW c \in Commands, Start(c) PROVE RevokedInv'
  BY <1>1, RevokedByStart
<1>2. ASSUME NEW g \in Groups, ReadPending(g) \/ ReadActive(g) PROVE RevokedInv'
  BY <1>2, RevokedByReadPending, RevokedByReadActive
<1>3. ASSUME NEW g \in Groups, Build(g) PROVE RevokedInv'
  BY <1>3, RevokedByBuild
<1>4. CASE Send
  BY <1>4, RevokedBySend
<1>5. CASE Finish
  BY <1>5, RevokedByFinish
<1>6. CASE Noise
  BY <1>6, RevokedByNoise
<1>7. CASE Exit \/ UNCHANGED vars
  <2>1. UNCHANGED vars
    BY <1>7 DEF Exit
  <2> QED BY <2>1 DEF vars, chain, client, reading, RevokedInv, AmountsOK, OneGroup, OnCourse,
                      RevokesExactly, HasValue, Revoked, Left, Mine
<1> QED BY <1>1, <1>2, <1>3, <1>4, <1>5, <1>6, <1>7 DEF Next

LEMMA SeenInit == Init => SeenInv
<1> SUFFICES ASSUME Init PROVE SeenInv
  OBVIOUS
<1>1. noise = 0 /\ halfRead = {} /\ seen = [g \in Groups |-> 0]
  BY DEF Init
<1> QED BY <1>1 DEF SeenInv

LEMMA SeenNext == RevokedInv /\ SeenInv /\ [Next]_vars => SeenInv'
<1> SUFFICES ASSUME RevokedInv, SeenInv, [Next]_vars PROVE SeenInv'
  OBVIOUS
<1>1. /\ pending \in [Groups -> Nat] /\ \A g \in halfRead : g \in Groups
      /\ noise \in Nat /\ seen \in [Groups -> Nat] /\ halfRead \subseteq unread
  BY DEF RevokedInv, AmountsOK, SeenInv, Members
<1>2. ASSUME UNCHANGED <<pending, noise, reading>> PROVE SeenInv'
  BY <1>2 DEF reading, SeenInv
<1>3. ASSUME NEW c \in Commands, Start(c) PROVE SeenInv'
  <2>1. noise' = noise /\ halfRead' = {} /\ seen' = [g \in Groups |-> 0]
    BY <1>3 DEF Start
  <2> QED BY <1>1, <2>1 DEF SeenInv
<1>4. ASSUME NEW g \in Groups, ReadPending(g) PROVE SeenInv'
  <2>1. /\ g \in unread /\ halfRead' = halfRead \cup {g} /\ unread' = unread
        /\ seen' = [seen EXCEPT ![g] = pending[g]]
        /\ noise' = noise /\ pending' = pending
    BY <1>4 DEF ReadPending, chain
  <2> QED BY <1>1, <2>1 DEF SeenInv
<1>5. ASSUME NEW g \in Groups, ReadActive(g) PROVE SeenInv'
  <2>1. noise' = noise /\ pending' = pending
    BY <1>5 DEF ReadActive, chain
  <2>2. CASE TooMany(g)
    BY <1>2, <1>5, <2>1, <2>2 DEF ReadActive
  <2>3. CASE ~TooMany(g)
    <3>1. /\ unread' = unread \ {g} /\ halfRead' = halfRead \ {g}
          /\ seen' = [seen EXCEPT ![g] = 0]
      BY <1>5, <2>3 DEF ReadActive
    <3> QED BY <1>1, <2>1, <3>1 DEF SeenInv
  <2> QED BY <2>2, <2>3
<1>6. ASSUME NEW g \in Groups, Build(g) PROVE SeenInv'
  BY <1>2, <1>6 DEF Build, chain
<1>7. CASE Send
  <2>1. halfRead = {} /\ UNCHANGED <<noise, reading>>
    BY <1>1, <1>7 DEF Send, AllBuilt
  <2> QED BY <1>1, <2>1 DEF SeenInv, reading
<1>8. CASE Finish
  BY <1>2, <1>8 DEF Finish, chain
<1>9. CASE Noise
  <2>1. noise' = noise + 1 /\ UNCHANGED reading
    BY <1>9 DEF Noise, client
  <2>2. pending' \in [Groups -> Nat] /\ \A g \in Groups : pending'[g] <= pending[g]
    BY <1>9, NoiseKeepsMine
  <2>3. ASSUME NEW g \in halfRead PROVE pending'[g] <= seen[g]
    <3>1. g \in Groups /\ pending[g] <= seen[g]
      BY <1>1 DEF SeenInv
    <3>2. pending'[g] \in Nat /\ pending[g] \in Nat /\ seen[g] \in Nat
      BY <1>1, <2>2, <3>1
    <3> QED BY <2>2, <3>1, <3>2
  <2>4. noise' \in Nat /\ noise' # 0
    BY <1>1, <2>1
  <2> QED BY <1>1, <2>1, <2>3, <2>4 DEF SeenInv, reading
<1>10. CASE Exit \/ UNCHANGED vars
  BY <1>2, <1>10 DEF Exit, vars, chain, client
<1> QED BY <1>3, <1>4, <1>5, <1>6, <1>7, <1>8, <1>9, <1>10 DEF Next

\* Whatever others vote, revoke, activate or make ineligible meanwhile, for any
\* votes and any number of commands: a command revokes no more than its value, of
\* its group, and exactly that or everything when it ends well.
THEOREM CommandsRevokeExactly == Spec => []RevokesExactly
<1>1. RevokedInv => RevokesExactly
  BY DEF RevokedInv
<1> QED BY <1>1, ListInvInit, ListInvNext, SeenInit, SeenNext, RevokedInit,
           RevokedNext, PTL DEF Spec
-----------------------------------------------------------------------------
(* That Election.revoke is not turned back.                                *)

\* The groups the account has votes for are in its list, each once.
VotedInv ==
  /\ Distinct(votedFor)
  /\ \A g \in Groups : g \in Members(votedFor) <=> Mine(g) > 0

Held(kind, g) == IF kind = "pending" THEN pending[g] ELSE active[g]

\* The hint of a transaction fits once so much is taken from its group.
FitsAfter(t, taken) ==
  t.group \in Members(list) =>
    Accepts(list, Votes, t.group, Votes[t.group] - taken, t.hint)

\* What is left of a group is there, pending votes and active ones; each weight
\* and each hint counts what is revoked before it; the index is the group's.
PartsHeld(g) ==
  /\ \A i \in 1 .. Len(owed[g]) : owed[g][i].value \in 1 .. Held(owed[g][i].kind, g)
  /\ \A i \in 1 .. Len(built[g]) : built[g][i].value \in 1 .. Held(built[g][i].kind, g)
  /\ Len(owed[g]) = 2 => owed[g][1].kind # owed[g][2].kind
  /\ Len(built[g]) = 2 => built[g][1].kind # built[g][2].kind
  /\ Len(owed[g]) = 1 /\ Len(built[g]) = 1 => built[g][1].kind # owed[g][1].kind

WeightsCount(g) ==
  /\ Len(owed[g]) = 2 => owed[g][1].weight = - owed[g][1].value
  /\ Len(owed[g]) = 2 => owed[g][2].weight = - Left(g)
  /\ Len(owed[g]) = 1 => owed[g][1].weight = - Left(g)

HintsCount(g) ==
  /\ Len(built[g]) \in {1, 2} => FitsAfter(built[g][1], built[g][1].value)
  /\ Len(built[g]) = 2 => FitsAfter(built[g][2], built[g][1].value + built[g][2].value)

IndexesHold(g) ==
  \A i \in 1 .. Len(built[g]) :
    /\ built[g][i].index + 1 \in DOMAIN votedFor
    /\ votedFor[built[g][i].index + 1] = g

Smooth(g) == PartsHeld(g) /\ WeightsCount(g) /\ HintsCount(g) /\ IndexesHold(g)

SmoothInv ==
  /\ noise \in Nat /\ VotedInv
  /\ cmd.op = "Election.revoke" /\ noise = 0 /\ pc = "running"
       => \A g \in Groups : Smooth(g)
  /\ ElectionRevokeSucceeds

\* Where nothing is owed and nothing built any more, nothing can fail.
LEMMA NothingIsSmooth ==
  ASSUME NEW g, owed'[g] = <<>>, built'[g] = <<>>
  PROVE  Smooth(g)'
<1>1. Len(<<>>) = 0 /\ \A i \in 1 .. Len(<<>>) : FALSE
  OBVIOUS
<1>2. Len(owed'[g]) = 0 /\ Len(built'[g]) = 0
  BY <1>1
<1>3. /\ \A i \in 1 .. Len(owed'[g]) : FALSE
      /\ \A i \in 1 .. Len(built'[g]) : FALSE
  BY <1>1
<1>4. /\ Len(owed'[g]) # 1 /\ Len(owed'[g]) # 2
      /\ Len(built'[g]) # 1 /\ Len(built'[g]) # 2
  BY <1>2
<1> QED BY ONLY <1>3, <1>4
        DEF Smooth, PartsHeld, WeightsCount, HintsCount, IndexesHold

\* A group that was moved is taken out again: the rest is as before.
LEMMA PutBack ==
  ASSUME NEW s \in Seq(Groups), Distinct(s),
         NEW group \in Groups, group \notin Members(s),
         NEW p \in 0 .. Len(s)
  PROVE  /\ group \in Members(PutAt(s, group, p))
         /\ Rest(PutAt(s, group, p), group) = s
<1> DEFINE r == PutAt(s, group, p)
           n == Len(s)
<1>1. n \in Nat /\ p \in 0 .. n
  BY LenProperties
<1>2. r \in Seq(Groups) /\ Distinct(r)
  BY PutAtKeeps
<1>3. r = [i \in 1 .. n + 1 |-> CASE i <= p -> s[i] [] i = p + 1 -> group [] OTHER -> s[i - 1]]
  BY DEF PutAt
<1> HIDE DEF r, n
<1>4. p + 1 \in 1 .. n + 1 /\ ~(p + 1 <= p)
  BY <1>1
<1>5. r[p + 1] = group /\ DOMAIN r = 1 .. n + 1
  BY <1>3, <1>4
<1>6. group \in Members(r)
  BY <1>4, <1>5 DEF Members
<1>7. Len(r) = n + 1
  <2>1. Len(r) \in Nat /\ DOMAIN r = 1 .. Len(r)
    BY <1>2, LenProperties
  <2> QED BY <1>1, <1>5, <2>1
<1>8. PlaceOf(r, group) = p + 1
  <2>1. PlaceOf(r, group) \in DOMAIN r /\ r[PlaceOf(r, group)] = group
    BY <1>2, <1>6, PlaceOfMember
  <2> QED BY <1>2, <1>4, <1>5, <2>1 DEF Distinct
<1>9. /\ Rest(r, group) \in Seq(Groups) /\ Len(Rest(r, group)) = n
      /\ \A i \in 1 .. n : Rest(r, group)[i] = r[IF i < p + 1 THEN i ELSE i + 1]
  <2>1. /\ Rest(r, group) \in Seq(Groups) /\ Len(Rest(r, group)) = Len(r) - 1
        /\ \A i \in 1 .. Len(Rest(r, group)) :
             Rest(r, group)[i] = r[IF i < PlaceOf(r, group) THEN i ELSE i + 1]
    BY <1>2, <1>6, RestShifts
  <2>2. Len(r) - 1 = n
    BY <1>1, <1>7
  <2> QED BY <1>8, <2>1, <2>2
<1>10. ASSUME NEW i \in 1 .. n
       PROVE  Rest(r, group)[i] = s[i]
  <2>1. CASE i <= p
    <3>1. i < p + 1 /\ i \in 1 .. n + 1
      BY <1>1, <2>1
    <3> QED BY <1>3, <1>9, <2>1, <3>1
  <2>2. CASE ~(i <= p)
    <3>1. ~(i < p + 1) /\ i + 1 \in 1 .. n + 1 /\ ~(i + 1 <= p) /\ i + 1 # p + 1
          /\ (i + 1) - 1 = i
      BY <1>1, <2>2
    <3>2. r[i + 1] = s[(i + 1) - 1]
      BY <1>3, <3>1
    <3> QED BY <1>9, <3>1, <3>2
  <2> QED BY <2>1, <2>2
<1>11. Rest(r, group) = s
  BY <1>9, <1>10, SeqEqual DEF n
<1> QED BY <1>6, <1>11 DEF r

\* The contract looks at the votes of the others only.
LEMMA SameRestAccepts ==
  ASSUME NEW s, NEW s2, NEW votes, NEW votes2, NEW group, NEW total, NEW hint,
         Rest(s, group) \in Seq(Groups), Rest(s2, group) = Rest(s, group),
         \A h \in Members(Rest(s, group)) : votes2[h] = votes[h],
         Accepts(s, votes, group, total, hint)
  PROVE  Accepts(s2, votes2, group, total, hint)
<1> DEFINE rest == Rest(s, group)
           n == Len(rest)
<1>1. n \in Nat /\ DOMAIN rest = 1 .. n
  BY LenProperties
<1>2. \A i \in 1 .. n : votes2[rest[i]] = votes[rest[i]]
  BY <1>1 DEF Members
<1> HIDE DEF rest, n
<1>3. ASSUME NEW p \in 0 .. n
      PROVE  Fits(rest, votes, total, p) => Fits(rest, votes2, total, p)
  <2>1. p > 0 => p \in 1 .. n
    BY <1>1
  <2>2. p < n => p + 1 \in 1 .. n
    BY <1>1
  <2> QED BY <1>2, <2>1, <2>2 DEF Fits, n
<1>4. Places(rest, votes, total, hint) \subseteq Places(rest, votes2, total, hint)
  BY <1>3 DEF Places, n
<1> QED BY <1>4 DEF Accepts, rest

\* The list of the account's groups when one of them is deleted.
LEMMA DeleteFacts ==
  ASSUME NEW s \in Seq(Groups), Distinct(s), NEW k \in 1 .. Len(s)
  PROVE  /\ Distinct(DeleteElement(s, k))
         /\ Members(DeleteElement(s, k)) = Members(s) \ {s[k]}
<1> DEFINE n == Len(s)
           u == [s EXCEPT ![k] = s[n]]
           d == DeleteElement(s, k)
<1>1. n \in Nat /\ k \in 1 .. n /\ DOMAIN s = 1 .. n /\ n \in 1 .. n
  BY LenProperties
<1>2. s[n] \in Groups /\ \A i, j \in 1 .. n : s[i] = s[j] => i = j
  BY <1>1, ElementOfSeq DEF Distinct
<1>3. /\ u \in Seq(Groups) /\ Len(u) = n
      /\ \A i \in 1 .. n : u[i] = IF i = k THEN s[n] ELSE s[i]
  BY <1>1, <1>2, ExceptSeq
<1>4. d = SubSeq(u, 1, n - 1)
  BY <1>3 DEF DeleteElement
<1> HIDE DEF n, u, d
<1>5. /\ d \in Seq(Groups) /\ Len(d) = n - 1
      /\ \A i \in 1 .. n - 1 : d[i] = u[i]
  <2>1. \A i \in 1 .. n - 1 : u[i] \in Groups
    BY <1>1, <1>3, ElementOfSeq
  <2>2. /\ SubSeq(u, 1, n - 1) \in Seq(Groups)
        /\ Len(SubSeq(u, 1, n - 1)) = IF 1 <= n - 1 THEN (n - 1) - 1 + 1 ELSE 0
        /\ \A i \in 1 .. (n - 1) - 1 + 1 : SubSeq(u, 1, n - 1)[i] = u[1 + i - 1]
    BY <1>1, <2>1, SubSeqProperties
  <2>3. (IF 1 <= n - 1 THEN (n - 1) - 1 + 1 ELSE 0) = n - 1 /\ (n - 1) - 1 + 1 = n - 1
    BY <1>1
  <2>4. \A i \in 1 .. n - 1 : 1 + i - 1 = i
    BY <1>1
  <2> QED BY <1>4, <2>2, <2>3, <2>4
<1>6. DOMAIN d = 1 .. n - 1
  BY <1>5, LenProperties
<1>7. \A i \in 1 .. n - 1 : d[i] = IF i = k THEN s[n] ELSE s[i]
  BY <1>1, <1>3, <1>5
<1>8. Distinct(d)
  <2> SUFFICES ASSUME NEW i \in 1 .. n - 1, NEW j \in 1 .. n - 1, d[i] = d[j]
               PROVE  i = j
    BY <1>6 DEF Distinct
  <2>1. i \in 1 .. n /\ j \in 1 .. n /\ i # n /\ j # n
    BY <1>1
  <2> QED BY <1>1, <1>2, <1>7, <2>1
<1>9. ASSUME NEW g \in Members(d) PROVE g \in Members(s) \ {s[k]}
  <2>1. PICK i \in 1 .. n - 1 : d[i] = g
    BY <1>6 DEF Members
  <2>2. i \in 1 .. n /\ i # n
    BY <1>1
  <2>3. CASE i = k
    BY <1>1, <1>2, <1>7, <2>1, <2>2, <2>3 DEF Members
  <2>4. CASE i # k
    BY <1>1, <1>2, <1>7, <2>1, <2>2, <2>4 DEF Members
  <2> QED BY <2>3, <2>4
<1>10. ASSUME NEW g \in Members(s), g # s[k] PROVE g \in Members(d)
  <2>1. PICK i \in 1 .. n : s[i] = g /\ i # k
    BY <1>1, <1>10 DEF Members
  <2>2. CASE i = n
    <3>1. k \in 1 .. n - 1
      BY <1>1, <2>1, <2>2
    <3> QED BY <1>6, <1>7, <2>1, <2>2, <3>1 DEF Members
  <2>3. CASE i # n
    <3>1. i \in 1 .. n - 1
      BY <1>1, <2>1, <2>3
    <3> QED BY <1>6, <1>7, <2>1, <3>1 DEF Members
  <2> QED BY <2>2, <2>3
<1> QED BY <1>8, <1>9, <1>10 DEF d

LEMMA VotedByRevoke ==
  ASSUME AmountsOK, VotedInv, NEW t \in TxObjects, Valid(t), Revoke(t)
  PROVE  VotedInv'
<1>1. t.group \in Groups /\ votedFor \in Seq(Groups)
  BY DEF TxObjects, AmountsOK
<1>2. /\ t.value \in 1 .. Mine(t.group)
      /\ Mine(t.group)' = Mine(t.group) - t.value
      /\ \A h \in Groups : h # t.group => Mine(h)' = Mine(h)
  BY RevokeTakes
<1>3. Mine(t.group) \in Nat
  BY <1>1 DEF AmountsOK, Mine
<1>4. CASE t.value = Mine(t.group)
  <2>1. t.index + 1 \in 1 .. Len(votedFor) /\ votedFor[t.index + 1] = t.group
    <3>1. DOMAIN votedFor = 1 .. Len(votedFor)
      BY <1>1, LenProperties
    <3> QED BY <1>4, <3>1 DEF Valid
  <2>2. votedFor' = DeleteElement(votedFor, t.index + 1)
    BY <1>4 DEF Revoke
  <2>3. Distinct(votedFor') /\ Members(votedFor') = Members(votedFor) \ {t.group}
    BY <1>1, <2>1, <2>2, DeleteFacts DEF VotedInv
  <2>4. Mine(t.group)' = 0
    BY <1>2, <1>3, <1>4
  <2>5. ~(0 > 0)
    OBVIOUS
  <2> QED BY <1>2, <2>3, <2>4, <2>5 DEF VotedInv
<1>5. CASE t.value # Mine(t.group)
  <2>1. votedFor' = votedFor
    BY <1>5 DEF Revoke
  <2>2. Mine(t.group)' > 0 /\ Mine(t.group) > 0
    BY <1>2, <1>3, <1>5
  <2> QED BY <1>2, <2>1, <2>2 DEF VotedInv, Distinct
<1> QED BY <1>4, <1>5

\* A hint that fits once more is taken fits the list after a part was taken.
LEMMA HintsStay ==
  ASSUME ListInv, AmountsOK, NEW t \in TxObjects, Valid(t), Revoke(t),
         NEW u \in TxObjects, u.group = t.group,
         FitsAfter(u, t.value + u.value)
  PROVE  FitsAfter(u, u.value)'
<1> DEFINE g == t.group
           total == Votes[g] - (t.value + u.value)
<1>1. g \in Groups /\ t.value \in Nat /\ u.value \in Nat /\ Nobody \notin Groups
  BY RevocationAssumption DEF TxObjects
<1>2. /\ Mine(g)' = Mine(g) - t.value
      /\ \A h \in Groups : h # g => Mine(h)' = Mine(h)
  BY RevokeTakes
<1>3. others' = others
  BY DEF Revoke
<1>4. \A h \in Groups : h # g => Votes'[h] = Votes[h]
  BY <1>2, <1>3 DEF Votes
<1>5. Mine(g) \in Int /\ others[g] \in Int
  BY <1>1 DEF ListInv, Mine
<1>6. Votes'[g] - u.value = total
  <2>1. Votes'[g] = (Mine(g) - t.value) + others[g] /\ Votes[g] = Mine(g) + others[g]
    BY <1>1, <1>2, <1>3 DEF Votes
  <2> QED BY <1>1, <1>5, <2>1
<1>7. CASE g \in Members(list)
  <2>1. PICK p \in Places(Rest(list, g), Votes, Votes[g] - t.value, t.hint) :
          list' = PutAt(Rest(list, g), g, p)
    BY <1>7 DEF Revoke
  <2>2. p \in 0 .. Len(Rest(list, g))
    BY DEF Places
  <2>3. /\ Rest(list, g) \in Seq(Groups) /\ Distinct(Rest(list, g))
        /\ g \notin Members(Rest(list, g))
    BY <1>7, RestShifts DEF ListInv
  <2>4. Rest(list', g) = Rest(list, g)
    BY <1>1, <2>1, <2>2, <2>3, PutBack
  <2>5. \A h \in Members(Rest(list, g)) : Votes'[h] = Votes[h]
    <3>1. \A h \in Members(Rest(list, g)) : h \in Groups
      BY <2>3 DEF Members
    <3> QED BY <1>4, <2>3, <3>1
  <2>6. Accepts(list, Votes, g, total, u.hint)
    BY <1>7 DEF FitsAfter
  <2> HIDE DEF total
  <2>7. Accepts(list', Votes', g, total, u.hint)
    BY <2>3, <2>4, <2>5, <2>6, SameRestAccepts
  <2> QED BY <1>6, <2>7 DEF FitsAfter
<1>8. CASE g \notin Members(list)
  <2>1. list' = list
    BY <1>8 DEF Revoke
  <2> QED BY <1>8, <2>1 DEF FitsAfter
<1> QED BY <1>7, <1>8

\* Election.revoke of votes that the account has: pending ones first, and the
\* weight of the active ones counts them.
LEMMA ReadIsSmooth ==
  ASSUME AmountsOK, NEW g \in Groups, cmd.op = "Election.revoke", ~TooMany(g),
         seen[g] = pending[g],
         owed'[g] = PartsOf(g), built'[g] = <<>>,
         pending' = pending, active' = active
  PROVE  Smooth(g)'
<1> DEFINE v == cmd.value
           p == FromPending(g, v)
<1>1. pending[g] \in Nat /\ active[g] \in Nat /\ v \in Nat
  BY DEF AmountsOK
<1>2. v <= pending[g] + active[g]
  BY <1>1 DEF TooMany, Mine
<1>3. /\ p \in Nat /\ v - p \in Nat /\ p <= pending[g] /\ v - p <= active[g]
      /\ - v \in Int /\ p + (v - p) = v
  BY <1>1, <1>2 DEF FromPending
<1>4. owed'[g] = Parts(p, v - p, - v)
  BY DEF PartsOf
<1> HIDE DEF p, v
<1> DEFINE q == v - p
           x == PendingPart(p)
           y == ActivePart(q, - v)
<1>5. /\ x.kind = "pending" /\ x.value = p /\ x.weight = - p
      /\ y.kind = "active" /\ y.value = q /\ y.weight = - v
  BY DEF PendingPart, ActivePart
<1>6. /\ q \in Nat /\ q <= active[g] /\ p + q = v
      /\ owed'[g] = IF p = 0 THEN IF q = 0 THEN <<>> ELSE <<y>>
                    ELSE IF q = 0 THEN <<x>> ELSE <<x, y>>
  BY <1>3, <1>4, PartsForms
<1> HIDE DEF q, x, y
<1>7. /\ \A k : Held(k, g)' = Held(k, g)
      /\ Held("pending", g) = pending[g] /\ Held("active", g) = active[g]
  BY DEF Held
<1>8. Len(<<>>) = 0 /\ Len(built'[g]) = 0 /\ \A i \in 1 .. Len(built'[g]) : FALSE
  OBVIOUS
<1>9. HintsCount(g)' /\ IndexesHold(g)'
  BY <1>8 DEF HintsCount, IndexesHold
<1>10. CASE p = 0 /\ q = 0
  BY <1>6, <1>10, NothingIsSmooth
<1>11. CASE p # 0 /\ q # 0
  <2>1. owed'[g] = <<x, y>>
    BY <1>6, <1>11
  <2>2. Len(<<x, y>>) = 2 /\ <<x, y>>[1] = x /\ <<x, y>>[2] = y /\ <<x, y>> # <<>>
    OBVIOUS
  <2>3. Left(g)' = v
    <3>1. Sum(<<x, y>>) = p + q
      BY <1>5 DEF Sum
    <3>2. v + 0 = v
      BY <1>1, <1>3, <1>6
    <3> QED BY <1>6, <2>1, <3>1, <3>2, SumOfNone DEF Left
  <2>4. PartsHeld(g)'
    <3>1. p \in 1 .. pending[g] /\ q \in 1 .. active[g] /\ \A i \in 1 .. 2 : i = 1 \/ i = 2
      BY <1>1, <1>3, <1>6, <1>11
    <3> QED BY <1>5, <1>7, <1>8, <2>1, <2>2, <3>1 DEF PartsHeld
  <2>5. WeightsCount(g)'
    BY <1>5, <2>1, <2>2, <2>3 DEF WeightsCount
  <2> QED BY <1>9, <2>4, <2>5 DEF Smooth
<1>12. CASE p # 0 /\ q = 0
  <2>1. owed'[g] = <<x>>
    BY <1>6, <1>12
  <2>2. Len(<<x>>) = 1 /\ <<x>>[1] = x /\ <<x>> # <<>>
    OBVIOUS
  <2>3. Left(g)' = p
    <3>1. Sum(<<x>>) = p
      BY <1>3, <1>5 DEF Sum
    <3>2. p + 0 = p
      BY <1>3
    <3> QED BY <2>1, <3>1, <3>2, SumOfNone DEF Left
  <2>4. PartsHeld(g)'
    <3>1. p \in 1 .. pending[g] /\ \A i \in 1 .. 1 : i = 1
      BY <1>1, <1>3, <1>12
    <3> QED BY <1>5, <1>7, <1>8, <2>1, <2>2, <3>1 DEF PartsHeld
  <2>5. WeightsCount(g)'
    BY <1>5, <2>1, <2>2, <2>3 DEF WeightsCount
  <2> QED BY <1>9, <2>4, <2>5 DEF Smooth
<1>13. CASE p = 0 /\ q # 0
  <2>1. owed'[g] = <<y>>
    BY <1>6, <1>13
  <2>2. Len(<<y>>) = 1 /\ <<y>>[1] = y /\ <<y>> # <<>>
    OBVIOUS
  <2>3. Left(g)' = v
    <3>1. Sum(<<y>>) = q
      BY <1>6, <1>5 DEF Sum
    <3>2. q + 0 = v
      BY <1>3, <1>6, <1>13
    <3> QED BY <2>1, <3>1, <3>2, SumOfNone DEF Left
  <2>4. PartsHeld(g)'
    <3>1. q \in 1 .. active[g] /\ \A i \in 1 .. 1 : i = 1
      BY <1>1, <1>6, <1>13
    <3> QED BY <1>5, <1>7, <1>8, <2>1, <2>2, <3>1 DEF PartsHeld
  <2>5. WeightsCount(g)'
    BY <1>5, <2>1, <2>2, <2>3 DEF WeightsCount
  <2> QED BY <1>9, <2>4, <2>5 DEF Smooth
<1> QED BY <1>10, <1>11, <1>12, <1>13

LEMMA SmoothByReadPending ==
  ASSUME SmoothInv, NEW g \in Groups, ReadPending(g)
  PROVE  SmoothInv'
<1>1. /\ noise' = noise /\ pending' = pending /\ active' = active
      /\ votedFor' = votedFor /\ others' = others /\ list' = list /\ pc' = pc
      /\ cmd' = cmd /\ before' = before /\ owed' = owed /\ built' = built
  BY DEF ReadPending, chain
<1>2. noise' \in Nat /\ VotedInv'
  BY <1>1 DEF SmoothInv, VotedInv, Distinct, Mine
<1>3. ASSUME NEW h \in Groups, Smooth(h)
      PROVE  Smooth(h)'
  BY <1>1, <1>3 DEF Smooth, PartsHeld, WeightsCount, HintsCount, IndexesHold, Held,
                    Left, FitsAfter, Votes, Mine
<1> QED BY <1>1, <1>2, <1>3 DEF SmoothInv, ElectionRevokeSucceeds

LEMMA SmoothByReadActive ==
  ASSUME RevokedInv, SeenInv, SmoothInv, NEW g \in Groups, ReadActive(g)
  PROVE  SmoothInv'
<1>1. /\ pc = "running" /\ g \in unread /\ noise' = noise
      /\ noise = 0 => seen[g] = pending[g]
      /\ pending' = pending /\ active' = active /\ votedFor' = votedFor
      /\ others' = others /\ list' = list
      /\ cmd' = cmd /\ before' = before /\ order' = order /\ built' = built
  BY DEF ReadActive, chain, SeenInv
<1>2. /\ owed[g] = <<>> /\ built[g] = <<>> /\ g \in Members(order) /\ Revoked(g) = 0
      /\ owed \in [Groups -> Seq(PartRecords)]
  BY <1>1 DEF RevokedInv, AmountsOK, OnCourse
<1>3. noise' \in Nat /\ VotedInv'
  BY <1>1 DEF SmoothInv, VotedInv, Distinct, Mine
<1>4. CASE TooMany(g)
  <2>1. pc' = "failed"
    BY <1>4 DEF ReadActive
  <2>2. cmd.op = "Election.revoke" /\ noise = 0 => cmd.value > before[cmd.group]
    <3>1. SUFFICES ASSUME cmd.op = "Election.revoke", noise = 0
                   PROVE  cmd.value > before[cmd.group]
      OBVIOUS
    <3>2. g = cmd.group
      BY <1>2, <3>1 DEF RevokedInv, OneGroup, HasValue, Members
    <3>3. before[g] = Mine(g)
      BY <1>2 DEF RevokedInv, AmountsOK, Revoked, Mine
    <3> QED BY <1>1, <1>4, <3>1, <3>2, <3>3 DEF TooMany, Mine
  <2> QED BY <1>1, <1>3, <2>1, <2>2 DEF SmoothInv, ElectionRevokeSucceeds
<1>5. CASE ~TooMany(g)
  <2>1. /\ pc' = pc /\ owed' = [owed EXCEPT ![g] = PartsOf(g)]
    BY <1>5 DEF ReadActive
  <2>2. owed'[g] = PartsOf(g) /\ \A h \in Groups : h # g => owed'[h] = owed[h]
    BY <1>2, <2>1
  <2>3. ASSUME cmd.op = "Election.revoke", noise = 0, NEW h \in Groups
        PROVE  Smooth(h)'
    <3>1. CASE h = g
      BY <1>1, <1>2, <1>5, <2>2, <2>3, <3>1, ReadIsSmooth DEF RevokedInv
    <3>2. CASE h # g
      <4>1. owed'[h] = owed[h]
        BY <2>2, <3>2
      <4>2. Smooth(h)
        BY <1>1, <2>3 DEF SmoothInv
      <4> QED BY <1>1, <4>1, <4>2
              DEF Smooth, PartsHeld, WeightsCount, HintsCount, IndexesHold, Held,
                  Left, FitsAfter, Votes, Mine
    <3> QED BY <3>1, <3>2
  <2> QED BY <1>1, <1>3, <2>1, <2>3 DEF SmoothInv, ElectionRevokeSucceeds
<1> QED BY <1>4, <1>5

\* A transaction for Election.revoke is built: its value is there, its hint fits.
LEMMA BuildIsSmooth ==
  ASSUME ListInv, RevokedInv, SmoothInv, NEW g \in Groups, Build(g),
         cmd.op = "Election.revoke", noise = 0
  PROVE  Smooth(g)'
<1> DEFINE part == Head(owed[g])
           made == [kind |-> part.kind, group |-> g, value |-> part.value,
                    index |-> IndexOf(g),
                    hint |-> LesserAndGreater(list, Votes, g, part.weight)]
<1>0. /\ owed[g] \in Seq(PartRecords) /\ built[g] \in Seq(TxObjects)
      /\ Len(owed[g]) + Len(built[g]) <= 2
      /\ owed \in [Groups -> Seq(PartRecords)] /\ built \in [Groups -> Seq(TxObjects)]
      /\ votedFor \in Seq(Groups) /\ pending[g] \in Nat /\ active[g] \in Nat
  BY DEF RevokedInv, AmountsOK
<1>1. /\ owed[g] # <<>> /\ pc = "running"
      /\ pending' = pending /\ active' = active /\ votedFor' = votedFor
      /\ others' = others /\ list' = list
      /\ built' = [built EXCEPT ![g] = Append(built[g], made)]
      /\ owed' = [owed EXCEPT ![g] = Tail(owed[g])]
  BY DEF Build, chain
<1>2. PICK s, b : s = owed[g] /\ b = built[g]
  OBVIOUS
<1>3. /\ s \in Seq(PartRecords) /\ b \in Seq(TxObjects) /\ s # <<>>
      /\ Len(s) \in Nat /\ Len(b) \in Nat /\ Len(s) # 0 /\ Len(s) + Len(b) <= 2
  BY <1>0, <1>1, <1>2, LenProperties, EmptySeq
<1>4. \/ Len(s) = 1 /\ Len(b) = 0
      \/ Len(s) = 2 /\ Len(b) = 0
      \/ Len(s) = 1 /\ Len(b) = 1
  <2> DEFINE n == Len(s)
             m == Len(b)
  <2>1. n \in Nat /\ m \in Nat /\ n # 0 /\ n + m <= 2
    BY <1>3
  <2> HIDE DEF n, m
  <2>2. (n = 1 /\ m = 0) \/ (n = 2 /\ m = 0) \/ (n = 1 /\ m = 1)
    BY <2>1
  <2> QED BY <2>2 DEF n, m
<1>5. Smooth(g)
  BY <1>1 DEF SmoothInv
<1>6. /\ s[1] \in PartRecords /\ Head(s) = s[1]
      /\ s[1].kind \in Kinds /\ s[1].value \in Nat /\ s[1].weight \in Int
  <2>1. Head(s) = s[1] /\ 1 \in 1 .. Len(s)
    BY <1>3, <1>4
  <2>2. s[1] \in PartRecords
    BY <1>3, <2>1, ElementOfSeq
  <2> QED BY <2>1, <2>2 DEF PartRecords
<1>7. PICK t \in TxObjects :
        /\ t.kind = s[1].kind /\ t.group = g /\ t.value = s[1].value
        /\ t.index = IndexOf(g)
        /\ t.hint = LesserAndGreater(list, Votes, g, s[1].weight)
        /\ built' = [built EXCEPT ![g] = Append(built[g], t)]
  <2>1. made \in TxObjects
    <3>1. IndexOf(g) \in Int
      BY <1>0, IndexIsNumber
    <3>2. LesserAndGreater(list, Votes, g, part.weight) \in Hints
      BY HintsAreGroups DEF ListInv
    <3> QED BY <1>2, <1>6, <3>1, <3>2 DEF TxObjects
  <2> QED BY <1>1, <1>2, <1>6, <2>1
<1> HIDE DEF part, made
<1>8. /\ owed'[g] = Tail(s) /\ Len(Tail(s)) = Len(s) - 1
      /\ \A i \in 1 .. Len(Tail(s)) : Tail(s)[i] = s[i + 1]
      /\ Tail(s) \in Seq(PartRecords)
  <2>1. Tail(s) \in Seq(PartRecords) /\ Len(Tail(s)) = Len(s) - 1
        /\ \A i \in 1 .. Len(Tail(s)) : Tail(s)[i] = s[i + 1]
    BY <1>3, HeadTailProperties
  <2> QED BY <1>0, <1>1, <1>2, <2>1
<1>9. /\ built'[g] = Append(b, t) /\ Len(Append(b, t)) = Len(b) + 1
      /\ \A i \in 1 .. Len(b) : Append(b, t)[i] = b[i]
      /\ Append(b, t)[Len(b) + 1] = t
  <2>1. /\ Len(Append(b, t)) = Len(b) + 1
        /\ \A i \in 1 .. Len(b) : Append(b, t)[i] = b[i]
        /\ Append(b, t)[Len(b) + 1] = t
    BY <1>3, <1>7, AppendProperties
  <2> QED BY <1>0, <1>2, <1>7, <2>1
<1>11. t.value \in 1 .. Held(t.kind, g)
  <2>1. 1 \in 1 .. Len(s)
    BY <1>3, <1>4
  <2> QED BY <1>2, <1>5, <1>7, <2>1 DEF Smooth, PartsHeld
<1>12. t.index + 1 \in DOMAIN votedFor /\ votedFor[t.index + 1] = g
  <2>1. Mine(g) > 0
    <3>1. Held(t.kind, g) \in Nat /\ Held(t.kind, g) <= Mine(g) /\ Mine(g) \in Nat
      BY <1>0 DEF Held, Mine
    <3> HIDE DEF Held, Mine
    <3> QED BY <1>11, <3>1
  <2>2. g \in Members(votedFor)
    BY <2>1 DEF SmoothInv, VotedInv
  <2> QED BY <1>0, <1>7, <2>2, IndexIsNumber
<1>13. \A x \in Nat : s[1].weight = - x => FitsAfter(t, x)
  <2> SUFFICES ASSUME NEW x \in Nat, s[1].weight = - x, g \in Members(list)
               PROVE  Accepts(list, Votes, g, Votes[g] - x, t.hint)
    BY <1>7 DEF FitsAfter
  <2>1. Votes \in [Groups -> Int]
    BY DEF ListInv, Votes, Mine
  <2>2. Accepts(list, Votes, g, Votes[g] + s[1].weight, t.hint)
    <3>1. list \in Seq(Groups) /\ Distinct(list)
      BY DEF ListInv
    <3>2. Nobody \notin Groups
      BY RevocationAssumption
    <3>3. g \in Members(list) /\ s[1].weight \in Int
      BY <1>6, <2>1
    <3>4. Accepts(list, Votes, g, Votes[g] + s[1].weight,
                  LesserAndGreater(list, Votes, g, s[1].weight))
      BY <2>1, <3>1, <3>2, <3>3, HintsFit
    <3> QED BY <1>7, <3>4
  <2>3. Votes[g] + s[1].weight = Votes[g] - x
    BY <2>1
  <2> QED BY <2>2, <2>3
<1>14. \A u, x : FitsAfter(u, x) => FitsAfter(u, x)'
  BY <1>1 DEF FitsAfter, Votes, Mine
<1>15. Left(g)' = Left(g)
  BY RevokedByBuild
<1>16. t.value \in Nat /\ \A i \in 1 .. 1 : i = 1
  BY DEF TxObjects
<1>17. CASE Len(s) = 1 /\ Len(b) = 0
  <2>1. Len(owed'[g]) = 0 /\ Len(built'[g]) = 1 /\ built'[g][1] = t
    BY <1>8, <1>9, <1>17
  <2>2. \A i \in 1 .. Len(owed'[g]) : FALSE
    BY <2>1
  <2>3. PartsHeld(g)'
    <3>1. ASSUME NEW i \in 1 .. Len(built'[g])
          PROVE  (built[g][i].value \in 1 .. Held(built[g][i].kind, g))'
      <4>1. built'[g][i] = t
        BY <1>16, <2>1
      <4> QED BY <1>1, <1>11, <4>1 DEF Held
    <3>2. Len(owed'[g]) # 2 /\ Len(owed'[g]) # 1 /\ Len(built'[g]) # 2
      BY <2>1
    <3> QED BY ONLY <2>2, <3>1, <3>2 DEF PartsHeld
  <2>4. WeightsCount(g)'
    BY <2>1 DEF WeightsCount
  <2>5. HintsCount(g)'
    <3>1. s[1].weight = - Left(g) /\ Left(g) = t.value
      <4>1. s[1].weight = - Left(g)
        BY <1>2, <1>5, <1>17 DEF Smooth, WeightsCount
      <4>2. Sum(s) = s[1].value /\ Sum(b) = 0
        <5>1. b = <<>>
          BY <1>3, <1>17, EmptySeq
        <5>2. ~(Len(s) > 1) /\ s[1].value + 0 = s[1].value
          BY <1>6, <1>17
        <5> QED BY <1>3, <5>1, <5>2 DEF Sum
      <4>3. t.value + 0 = t.value
        BY <1>16
      <4> QED BY <1>2, <1>7, <4>1, <4>2, <4>3 DEF Left
    <3>2. FitsAfter(t, t.value)'
      BY <1>13, <1>14, <1>16, <3>1
    <3>3. Len(built'[g]) # 2
      BY <2>1
    <3> QED BY ONLY <2>1, <3>2, <3>3 DEF HintsCount
  <2>6. IndexesHold(g)'
    BY <1>1, <1>12, <1>16, <2>1 DEF IndexesHold
  <2> QED BY <2>3, <2>4, <2>5, <2>6 DEF Smooth
<1>18. CASE Len(s) = 2 /\ Len(b) = 0
  <2>1. /\ Len(owed'[g]) = 1 /\ owed'[g][1] = s[2]
        /\ Len(built'[g]) = 1 /\ built'[g][1] = t
    <3>1. Len(Tail(s)) = 1 /\ 1 \in 1 .. Len(Tail(s)) /\ Tail(s)[1] = s[1 + 1] /\ 1 + 1 = 2
      <4>1. Len(Tail(s)) = 1 /\ 1 + 1 = 2 /\ 1 \in 1 .. 1
        BY <1>8, <1>18
      <4> QED BY <1>8, <4>1
    <3> QED BY <1>8, <1>9, <1>18, <3>1
  <2>2. /\ s[2].value \in 1 .. Held(s[2].kind, g) /\ s[1].kind # s[2].kind
        /\ s[1].weight = - s[1].value /\ s[2].weight = - Left(g)
    <3>1. 2 \in 1 .. Len(s)
      BY <1>18
    <3> QED BY <1>2, <1>5, <1>18, <3>1 DEF Smooth, PartsHeld, WeightsCount
  <2>3. PartsHeld(g)'
    <3>1. ASSUME NEW i \in 1 .. Len(built'[g])
          PROVE  (built[g][i].value \in 1 .. Held(built[g][i].kind, g))'
      <4>1. built'[g][i] = t
        BY <1>16, <2>1
      <4> QED BY <1>1, <1>11, <4>1 DEF Held
    <3>2. ASSUME NEW i \in 1 .. Len(owed'[g])
          PROVE  (owed[g][i].value \in 1 .. Held(owed[g][i].kind, g))'
      <4>1. owed'[g][i] = s[2]
        BY <1>16, <2>1
      <4> QED BY <1>1, <2>2, <4>1 DEF Held
    <3>3. Len(owed'[g]) # 2 /\ Len(built'[g]) # 2
      BY <2>1
    <3>4. built'[g][1].kind # owed'[g][1].kind
      BY <1>7, <2>1, <2>2
    <3> QED BY ONLY <3>1, <3>2, <3>3, <3>4 DEF PartsHeld
  <2>4. WeightsCount(g)'
    <3>1. Len(owed'[g]) # 2
      BY <2>1
    <3> QED BY <1>15, <2>1, <2>2, <3>1 DEF WeightsCount
  <2>5. HintsCount(g)'
    <3>1. FitsAfter(t, t.value)'
      BY <1>7, <1>13, <1>14, <1>16, <2>2
    <3>2. Len(built'[g]) # 2
      BY <2>1
    <3> QED BY ONLY <2>1, <3>1, <3>2 DEF HintsCount
  <2>6. IndexesHold(g)'
    BY <1>1, <1>12, <1>16, <2>1 DEF IndexesHold
  <2> QED BY <2>3, <2>4, <2>5, <2>6 DEF Smooth
<1>19. CASE Len(s) = 1 /\ Len(b) = 1
  <2>1. /\ Len(owed'[g]) = 0 /\ Len(built'[g]) = 2
        /\ built'[g][1] = b[1] /\ built'[g][2] = t
    <3>1. 1 \in 1 .. Len(b) /\ Len(b) + 1 = 2
      BY <1>19
    <3> QED BY <1>8, <1>9, <1>19, <3>1
  <2>2. /\ b[1].value \in 1 .. Held(b[1].kind, g) /\ b[1].kind # s[1].kind
        /\ s[1].weight = - Left(g) /\ FitsAfter(b[1], b[1].value)
        /\ b[1].index + 1 \in DOMAIN votedFor /\ votedFor[b[1].index + 1] = g
    <3>1. 1 \in 1 .. Len(b)
      BY <1>19
    <3> QED BY <1>2, <1>5, <1>19, <3>1
            DEF Smooth, PartsHeld, WeightsCount, HintsCount, IndexesHold
  <2>3. \A i \in 1 .. 2 : i = 1 \/ i = 2
    OBVIOUS
  <2>4. PartsHeld(g)'
    <3>1. ASSUME NEW i \in 1 .. Len(built'[g])
          PROVE  (built[g][i].value \in 1 .. Held(built[g][i].kind, g))'
      <4>1. built'[g][i] = b[1] \/ built'[g][i] = t
        BY <2>1, <2>3
      <4> QED BY <1>1, <1>11, <2>2, <4>1 DEF Held
    <3>2. \A i \in 1 .. Len(owed'[g]) : FALSE
      BY <2>1
    <3>3. Len(owed'[g]) # 2 /\ Len(owed'[g]) # 1
      BY <2>1
    <3>4. built'[g][1].kind # built'[g][2].kind
      BY <1>7, <2>1, <2>2
    <3> QED BY ONLY <3>1, <3>2, <3>3, <3>4 DEF PartsHeld
  <2>5. WeightsCount(g)'
    BY <2>1 DEF WeightsCount
  <2>6. HintsCount(g)'
    <3>1. b[1].value \in Nat
      <4>1. b[1] \in TxObjects
        BY <1>3, <1>19, ElementOfSeq
      <4> QED BY <4>1 DEF TxObjects
    <3>2. Left(g) = b[1].value + t.value
      <4>1. Sum(s) = t.value /\ Sum(b) = b[1].value
        <5>1. b # <<>> /\ ~(Len(b) > 1) /\ ~(Len(s) > 1)
          BY <1>3, <1>19, EmptySeq
        <5>2. t.value + 0 = t.value /\ b[1].value + 0 = b[1].value
          BY <1>16, <3>1
        <5> QED BY <1>3, <1>7, <5>1, <5>2 DEF Sum
      <4>2. t.value + b[1].value = b[1].value + t.value
        BY <1>16, <3>1
      <4> QED BY <1>2, <4>1, <4>2 DEF Left
    <3>3. b[1].value + t.value \in Nat
      BY <1>16, <3>1
    <3>4. FitsAfter(t, b[1].value + t.value)'
      BY <1>13, <1>14, <2>2, <3>2, <3>3
    <3>5. FitsAfter(b[1], b[1].value)'
      BY <1>14, <2>2
    <3> QED BY ONLY <2>1, <3>4, <3>5 DEF HintsCount
  <2>7. IndexesHold(g)'
    BY <1>1, <1>12, <2>1, <2>2, <2>3 DEF IndexesHold
  <2> QED BY <2>4, <2>5, <2>6, <2>7 DEF Smooth
<1> QED BY <1>4, <1>17, <1>18, <1>19

LEMMA SmoothByBuild ==
  ASSUME ListInv, RevokedInv, SmoothInv, NEW g \in Groups, Build(g)
  PROVE  SmoothInv'
<1>1. /\ pc = "running" /\ pc' = pc /\ noise' = noise /\ cmd' = cmd
      /\ pending' = pending /\ active' = active /\ votedFor' = votedFor
      /\ others' = others /\ list' = list
      /\ owed' = [owed EXCEPT ![g] = Tail(owed[g])]
      /\ \E t : built' = [built EXCEPT ![g] = Append(built[g], t)]
  BY DEF Build, chain
<1>2. \A h \in Groups : h # g => owed'[h] = owed[h] /\ built'[h] = built[h]
  BY <1>1 DEF RevokedInv, AmountsOK
<1>3. noise' \in Nat /\ VotedInv'
  BY <1>1 DEF SmoothInv, VotedInv, Distinct, Mine
<1>4. ASSUME cmd.op = "Election.revoke", noise = 0, NEW h \in Groups
      PROVE  Smooth(h)'
  <2>1. CASE h = g
    BY <1>4, <2>1, BuildIsSmooth
  <2>2. CASE h # g
    <3>1. owed'[h] = owed[h] /\ built'[h] = built[h]
      BY <1>2, <2>2
    <3>2. Smooth(h)
      BY <1>1, <1>4 DEF SmoothInv
    <3> QED BY <1>1, <3>1, <3>2
            DEF Smooth, PartsHeld, WeightsCount, HintsCount, IndexesHold, Held,
                Left, FitsAfter, Votes, Mine
  <2> QED BY <2>1, <2>2
<1> QED BY <1>1, <1>3, <1>4 DEF SmoothInv, ElectionRevokeSucceeds

\* What is sent is accepted, and what remains fits.
LEMMA SendIsSmooth ==
  ASSUME ListInv, RevokedInv, SmoothInv, Send,
         cmd.op = "Election.revoke", noise = 0
  PROVE  pc' = pc /\ \A h \in Groups : Smooth(h)'
<1>0. PICK g \in Groups, t \in TxObjects :
        g = order[First(Unsent)] /\ t = Head(built[g])
  BY NextTransaction DEF Send
<1>1. /\ pc = "running" /\ AllBuilt /\ Unsent # {}
      /\ built' = [built EXCEPT ![g] = Tail(built[g])]
      /\ \/ Valid(t) /\ Revoke(t) /\ pc' = pc
         \/ ~Valid(t) /\ pc' = "failed" /\ chain' = chain
      /\ owed' = owed
  BY <1>0 DEF Send
<1>2. PICK b : b = built[g]
  OBVIOUS
<1>3. /\ g \in Members(order) /\ t = b[1] /\ t.group = g
      /\ Len(b) \in 1 .. 2 /\ Tail(b) \in Seq(TxObjects) /\ Len(Tail(b)) = Len(b) - 1
      /\ \A i \in 1 .. Len(Tail(b)) : Tail(b)[i] = b[i + 1]
      /\ b \in Seq(TxObjects)
  BY <1>0, <1>1, <1>2, NextTransaction DEF RevokedInv, AmountsOK
<1>4. owed[g] = <<>>
  BY <1>1, <1>3, LeftWhenBuilt
<1>5. Smooth(g)
  BY <1>1 DEF SmoothInv
<1>6. /\ t.value \in 1 .. Held(t.kind, g)
      /\ t.index + 1 \in DOMAIN votedFor /\ votedFor[t.index + 1] = g
      /\ FitsAfter(t, t.value)
  <2>1. 1 \in 1 .. Len(b) /\ Len(b) \in {1, 2}
    BY <1>3
  <2> QED BY <1>2, <1>3, <1>5, <2>1 DEF Smooth, PartsHeld, HintsCount, IndexesHold
<1>7. Valid(t)
  BY <1>3, <1>6 DEF Valid, Held, FitsAfter
<1>8. Revoke(t) /\ pc' = pc
  BY <1>1, <1>7
<1>9. /\ built'[g] = Tail(b)
      /\ \A h \in Groups : h # g => built'[h] = built[h]
  BY <1>1, <1>2 DEF RevokedInv, AmountsOK
<1>10. ASSUME NEW h \in Groups, h # g PROVE Smooth(h)'
  <2>1. h \notin Members(order)
    BY <1>3, <1>10 DEF RevokedInv, OneGroup, HasValue, Members
  <2>2. owed[h] = <<>> /\ built[h] = <<>>
    BY <2>1 DEF RevokedInv, OnCourse
  <2>3. owed'[h] = <<>> /\ built'[h] = <<>>
    BY <1>1, <1>9, <1>10, <2>2
  <2> QED BY <2>3, NothingIsSmooth
<1>11. CASE Len(b) = 1
  <2>1. built'[g] = <<>> /\ owed'[g] = <<>>
    <3>1. Len(Tail(b)) = 0
      BY <1>3, <1>11
    <3> QED BY <1>1, <1>3, <1>4, <1>9, <3>1, EmptySeq
  <2> QED BY <1>8, <1>10, <2>1, NothingIsSmooth
<1>12. CASE Len(b) = 2
  <2>1. PICK u \in TxObjects : u = b[2]
    <3>1. 2 \in 1 .. Len(b)
      BY <1>12
    <3> QED BY <1>3, <3>1, ElementOfSeq
  <2>2. Len(built'[g]) = 1 /\ built'[g][1] = u
    <3>1. Len(Tail(b)) = 1 /\ 1 + 1 = 2 /\ 1 \in 1 .. 1
      BY <1>3, <1>12
    <3> QED BY <1>3, <1>9, <2>1, <3>1
  <2>3. /\ u.value \in 1 .. Held(u.kind, g) /\ u.kind # t.kind /\ u.group = g
        /\ FitsAfter(u, t.value + u.value)
        /\ u.index + 1 \in DOMAIN votedFor /\ votedFor[u.index + 1] = g
    <3>1. 2 \in 1 .. Len(b)
      BY <1>12
    <3>2. u.group = g
      BY <1>2, <2>1, <3>1 DEF RevokedInv, AmountsOK
    <3> QED BY <1>2, <1>3, <1>5, <1>12, <2>1, <3>1, <3>2
            DEF Smooth, PartsHeld, HintsCount, IndexesHold
  <2>4. /\ pending \in [Groups -> Nat] /\ active \in [Groups -> Nat]
        /\ pending[g] \in Nat /\ active[g] \in Nat
    BY DEF RevokedInv, AmountsOK
  <2>5. t.kind \in Kinds /\ u.kind \in Kinds /\ t.value \in Nat /\ u.value \in Nat
    BY DEF TxObjects
  <2>6. IF u.kind = "pending" THEN pending'[g] = pending[g] ELSE active'[g] = active[g]
    BY <1>3, <1>8, <2>3, <2>5 DEF Revoke, Kinds
  <2>7. votedFor' = votedFor
    <3>1. t.value # Mine(g)
      <4>1. CASE t.kind = "pending"
        <5>1. t.value <= pending[g] /\ 1 <= active[g]
          BY <1>6, <2>3, <2>4, <2>5, <4>1 DEF Held, Kinds
        <5> QED BY <2>4, <2>5, <5>1 DEF Mine
      <4>2. CASE t.kind # "pending"
        <5>1. t.value <= active[g] /\ 1 <= pending[g]
          BY <1>6, <2>3, <2>4, <2>5, <4>2 DEF Held, Kinds
        <5> QED BY <2>4, <2>5, <5>1 DEF Mine
      <4> QED BY <4>1, <4>2
    <3> QED BY <1>3, <1>8, <3>1 DEF Revoke
  <2>8. FitsAfter(u, u.value)'
    BY <1>3, <1>7, <1>8, <2>3, HintsStay DEF RevokedInv
  <2>9. \A i \in 1 .. Len(built'[g]) : i = 1 /\ built'[g][i] = u
    BY <2>2
  <2>10. Len(owed'[g]) = 0 /\ \A i \in 1 .. Len(owed'[g]) : FALSE
    <3>1. Len(<<>>) = 0 /\ \A i \in 1 .. Len(<<>>) : FALSE
      OBVIOUS
    <3> QED BY <1>1, <1>4, <3>1
  <2>11. PartsHeld(g)'
    <3>1. ASSUME NEW i \in 1 .. Len(built'[g])
          PROVE  (built[g][i].value \in 1 .. Held(built[g][i].kind, g))'
      <4>1. built'[g][i] = u
        BY <2>9
      <4> QED BY <2>3, <2>6, <4>1 DEF Held
    <3>2. Len(owed'[g]) # 2 /\ Len(owed'[g]) # 1 /\ Len(built'[g]) # 2
      BY <2>2, <2>10
    <3> QED BY ONLY <2>10, <3>1, <3>2 DEF PartsHeld
  <2>12. WeightsCount(g)'
    BY <2>10 DEF WeightsCount
  <2>13. HintsCount(g)'
    <3>1. Len(built'[g]) # 2
      BY <2>2
    <3> QED BY <2>2, <2>8, <3>1 DEF HintsCount
  <2>14. IndexesHold(g)'
    BY <2>3, <2>7, <2>9 DEF IndexesHold
  <2> QED BY <1>8, <1>10, <2>11, <2>12, <2>13, <2>14 DEF Smooth
<1> QED BY <1>3, <1>11, <1>12

LEMMA SmoothBySend ==
  ASSUME ListInv, RevokedInv, SmoothInv, Send
  PROVE  SmoothInv'
<1>0. PICK g \in Groups, t \in TxObjects :
        g = order[First(Unsent)] /\ t = Head(built[g])
  BY NextTransaction DEF Send
<1>1. /\ pc = "running" /\ cmd' = cmd /\ noise' = noise
      /\ \/ Valid(t) /\ Revoke(t)
         \/ chain' = chain
  BY <1>0 DEF Send
<1>2. noise' \in Nat
  BY <1>1 DEF SmoothInv
<1>3. VotedInv'
  <2>1. CASE Valid(t) /\ Revoke(t)
    BY <2>1, VotedByRevoke DEF RevokedInv, SmoothInv
  <2>2. CASE chain' = chain
    BY <2>2 DEF chain, SmoothInv, VotedInv, Distinct, Mine
  <2> QED BY <1>1, <2>1, <2>2
<1>4. CASE cmd.op = "Election.revoke" /\ noise = 0
  BY <1>1, <1>2, <1>3, <1>4, SendIsSmooth DEF SmoothInv, ElectionRevokeSucceeds
<1>5. CASE ~(cmd.op = "Election.revoke" /\ noise = 0)
  BY <1>1, <1>2, <1>3, <1>5 DEF SmoothInv, ElectionRevokeSucceeds
<1> QED BY <1>4, <1>5

LEMMA SmoothInit == Init => SmoothInv
<1> SUFFICES ASSUME Init PROVE SmoothInv
  OBVIOUS
<1>1. /\ votedFor \in Orders /\ Members(votedFor) = {g \in Groups : Mine(g) > 0}
      /\ noise = 0 /\ pc = "idle"
  BY DEF Init
<1>2. VotedInv
  BY <1>1 DEF Orders, VotedInv, Distinct
<1> QED BY <1>1, <1>2 DEF SmoothInv, ElectionRevokeSucceeds

LEMMA SmoothNext ==
  ListInv /\ SeenInv /\ RevokedInv /\ SmoothInv /\ [Next]_vars => SmoothInv'
<1> SUFFICES ASSUME ListInv, SeenInv, RevokedInv, SmoothInv, [Next]_vars PROVE SmoothInv'
  OBVIOUS
<1>1. ASSUME NEW c \in Commands, Start(c) PROVE SmoothInv'
  <2>1. /\ pc' = "running" /\ owed' = Nothing /\ built' = Nothing /\ noise' = noise
        /\ UNCHANGED <<pending, active, votedFor>>
    BY <1>1 DEF Start, chain
  <2>2. \A g \in Groups : owed'[g] = <<>> /\ built'[g] = <<>>
    BY <2>1 DEF Nothing
  <2>3. \A g \in Groups : Smooth(g)'
    BY <2>2, NothingIsSmooth
  <2>4. VotedInv' /\ noise' \in Nat
    BY <2>1 DEF SmoothInv, VotedInv, Distinct, Mine
  <2> QED BY <2>1, <2>3, <2>4 DEF SmoothInv, ElectionRevokeSucceeds
<1>2. ASSUME NEW g \in Groups, ReadPending(g) \/ ReadActive(g) PROVE SmoothInv'
  BY <1>2, SmoothByReadPending, SmoothByReadActive
<1>3. ASSUME NEW g \in Groups, Build(g) PROVE SmoothInv'
  BY <1>3, SmoothByBuild
<1>4. CASE Send
  BY <1>4, SmoothBySend
<1>5. CASE Finish
  <2>1. pc' = "done" /\ noise' = noise /\ UNCHANGED <<pending, active, votedFor>>
    BY <1>5 DEF Finish, chain
  <2>2. VotedInv' /\ noise' \in Nat
    BY <2>1 DEF SmoothInv, VotedInv, Distinct, Mine
  <2> QED BY <2>1, <2>2 DEF SmoothInv, ElectionRevokeSucceeds
<1>6. CASE Noise
  <2>1. noise' = noise + 1 /\ votedFor' = votedFor
    BY <1>6 DEF Noise, OthersVote, ActivatedByOthers, MarkIneligible
  <2>2. \A g \in Groups : Mine(g)' = Mine(g)
    BY <1>6, NoiseKeepsMine
  <2>3. noise' \in Nat /\ noise' # 0
    BY <2>1 DEF SmoothInv
  <2>4. VotedInv'
    BY <2>1, <2>2 DEF SmoothInv, VotedInv, Distinct
  <2> QED BY <2>3, <2>4 DEF SmoothInv, ElectionRevokeSucceeds
<1>7. CASE Exit \/ UNCHANGED vars
  <2>1. UNCHANGED vars
    BY <1>7 DEF Exit
  <2>2. /\ pc' = pc /\ cmd' = cmd /\ before' = before /\ noise' = noise
        /\ pending' = pending /\ active' = active /\ others' = others
        /\ list' = list /\ votedFor' = votedFor /\ owed' = owed /\ built' = built
    BY <2>1 DEF vars, chain, client
  <2>3. \A g \in Groups : Smooth(g) => Smooth(g)'
    BY <2>2 DEF Smooth, PartsHeld, WeightsCount, HintsCount, IndexesHold, Held,
                Left, FitsAfter, Votes, Mine
  <2>4. VotedInv' /\ noise' \in Nat
    BY <2>2 DEF SmoothInv, VotedInv, Distinct, Mine
  <2> QED BY <2>2, <2>3, <2>4 DEF SmoothInv, ElectionRevokeSucceeds
<1> QED BY <1>1, <1>2, <1>3, <1>4, <1>5, <1>6, <1>7 DEF Next

\* election:revoke with as many votes as the account has never fails by itself,
\* however many groups and votes there are: only others can make it fail.
THEOREM ElectionRevokeGoesThrough == Spec => []ElectionRevokeSucceeds
<1>1. SmoothInv => ElectionRevokeSucceeds
  BY DEF SmoothInv
<1> QED BY <1>1, ListInvInit, ListInvNext, SeenInit, SeenNext, RevokedInit,
           RevokedNext, SmoothInit, SmoothNext, PTL DEF Spec

-----------------------------------------------------------------------------
(* Validators: lists.                                                      *)

\* A list after one of it is removed: once each, and all the others.
LEMMA RestOf ==
  ASSUME NEW S, NEW s \in Seq(S), Distinct(s), NEW x \in Members(s)
  PROVE  /\ Rest(s, x) \in Seq(S) /\ Distinct(Rest(s, x))
         /\ Len(Rest(s, x)) = Len(s) - 1
         /\ Members(Rest(s, x)) = Members(s) \ {x}
<1> DEFINE zero == [y \in S |-> 0]
<1>1. Sorted(s, zero)
  BY DEF Sorted
<1> HIDE DEF zero
<1> QED BY <1>1, RestIs, RestShifts

\* A list after somebody is put into it.
LEMMA PutOf ==
  ASSUME NEW S, NEW s \in Seq(S), Distinct(s), NEW x \in S, x \notin Members(s),
         NEW p \in 0 .. Len(s)
  PROVE  /\ PutAt(s, x, p) \in Seq(S) /\ Distinct(PutAt(s, x, p))
         /\ Len(PutAt(s, x, p)) = Len(s) + 1
         /\ Members(PutAt(s, x, p)) = Members(s) \cup {x}
<1>1. PICK zero : zero = [y \in S |-> 0]
  OBVIOUS
<1>2. /\ \A y \in S : zero[y] \in Int /\ zero[y] = 0
      /\ \A i \in DOMAIN s : s[i] \in S
  BY <1>1
<1>3. Sorted(s, zero)
  BY <1>2 DEF Sorted
<1>4. Fits(s, zero, 0, p)
  <2>1. Len(s) \in Nat /\ DOMAIN s = 1 .. Len(s)
    OBVIOUS
  <2> QED BY <1>2, <2>1 DEF Fits
<1>5. zero[x] = 0 /\ \A y \in S \ {x} : zero[y] = zero[y]
  BY <1>2
<1>6. Members(PutAt(s, x, p)) = Members(s) \cup {x}
  BY <1>2, <1>3, <1>4, <1>5, PutAtIs
<1>7. Len(PutAt(s, x, p)) = Len(s) + 1
  BY DEF PutAt
<1> QED BY <1>6, <1>7, PutAtKeeps

\* A list after somebody new comes last.
LEMMA AppendOf ==
  ASSUME NEW S, NEW s \in Seq(S), Distinct(s), NEW x \in S, x \notin Members(s)
  PROVE  /\ Append(s, x) \in Seq(S) /\ Distinct(Append(s, x)) /\ Append(s, x) # <<>>
<1>1. /\ Append(s, x) \in Seq(S) /\ Len(Append(s, x)) = Len(s) + 1
      /\ Append(s, x)[Len(s) + 1] = x
      /\ \A i \in 1 .. Len(s) : Append(s, x)[i] = s[i] /\ s[i] # x
  BY DEF Members
<1>2. Len(s) \in Nat /\ DOMAIN s = 1 .. Len(s)
      /\ DOMAIN Append(s, x) = 1 .. Len(s) + 1
  BY <1>1
<1>3. Distinct(Append(s, x))
  <2> DEFINE t == Append(s, x)
  <2> SUFFICES ASSUME NEW i \in 1 .. Len(s) + 1, NEW j \in 1 .. Len(s) + 1, t[i] = t[j]
               PROVE  i = j
    BY <1>2 DEF Distinct
  <2>1. i = Len(s) + 1 \/ i \in 1 .. Len(s)
    BY <1>2
  <2>2. j = Len(s) + 1 \/ j \in 1 .. Len(s)
    BY <1>2
  <2> QED BY <1>1, <1>2, <2>1, <2>2 DEF Distinct
<1>4. Append(s, x) # <<>>
  BY <1>1, <1>2
<1> QED BY <1>1, <1>3, <1>4

\* findLesserAndGreaterAfterVote for a group that is not in the list.
LEMMA HintsOfNewcomer ==
  ASSUME NEW S, NEW s \in Seq(S), Nobody \notin S, NEW votes \in [S -> Int],
         NEW x, x \notin Members(s), NEW weight \in Int,
         NEW h, h = LesserAndGreater(s, votes, x, weight)
  PROVE  /\ h.lesser # Nobody \/ h.greater # Nobody \/ s = <<>>
         /\ {h.lesser, h.greater} \subseteq Members(s) \cup {Nobody}
         /\ Places(s, votes, weight, h) # {}
<1> DEFINE n == Len(s)
           B == Below(s, votes, x, weight)
           A == Above(s, votes, x, weight)
<1>1. n \in Nat /\ DOMAIN s = 1 .. n /\ \A i \in 1 .. n : s[i] \in S /\ votes[s[i]] \in Int
  OBVIOUS
<1>2. Others(s, x) = 1 .. n
  BY <1>1 DEF Others, Members
<1>3. /\ h.lesser = IF B = {} THEN Nobody ELSE s[First(B)]
      /\ h.greater = IF A = {} THEN Nobody ELSE s[Latest(A)]
  BY DEF LesserAndGreater, VoteTotal
<1>4. /\ B = {i \in 1 .. n : votes[s[i]] <= weight}
      /\ A = {i \in 1 .. n : \A j \in B : i < j}
  BY <1>2 DEF Below, Above
<1>5. {h.lesser, h.greater} \subseteq Members(s) \cup {Nobody}
  <2>1. B # {} => First(B) \in 1 .. n
    <3>1. B \in SUBSET Nat
      BY <1>4
    <3> QED BY <1>4, <3>1, FirstIsLeast
  <2>2. A # {} => Latest(A) \in 1 .. n
    <3>1. A \in SUBSET (0 .. n)
      BY <1>4
    <3> QED BY <1>1, <1>4, <3>1, LatestIsGreatest
  <2> QED BY <1>1, <1>3, <2>1, <2>2 DEF Members
<1> HIDE DEF n, B, A
<1>6. CASE B = {}
  <2>1. h.lesser = Nobody
    BY <1>3, <1>6
  <2>2. \A i \in 1 .. n : votes[s[i]] >= weight
    BY <1>1, <1>4, <1>6
  <2>3. n \in Places(s, votes, weight, h)
    BY <1>1, <2>1, <2>2 DEF n, Places, Fits
  <2>4. h.greater # Nobody \/ s = <<>>
    <3>1. CASE n = 0
      BY <3>1 DEF n
    <3>2. CASE n # 0
      <4>1. A = 1 .. n
        BY <1>4, <1>6
      <4>3. A # {} /\ A \in SUBSET (0 .. n)
        <5>1. n \in 1 .. n /\ 1 .. n \subseteq 0 .. n
          BY <1>1, <3>2
        <5> QED BY <4>1, <5>1
      <4>2. Latest(A) \in 1 .. n
        BY <1>1, <4>1, <4>3, LatestIsGreatest
      <4> QED BY <1>1, <1>3, <4>3, <4>2
    <3> QED BY <3>1, <3>2
  <2> QED BY <1>5, <2>3, <2>4
<1>7. CASE B # {}
  <2>1. B \in SUBSET Nat
    BY <1>4
  <2>2. PICK f \in B : f = First(B) /\ \A j \in B : f <= j
    BY <1>7, <2>1, FirstIsLeast
  <2>3. f \in 1 .. n /\ votes[s[f]] <= weight /\ h.lesser = s[f] /\ s[f] \in S
    BY <1>1, <1>3, <1>4, <1>7, <2>2
  <2>4. PICK p \in 0 .. n : p = f - 1
    BY <1>1, <2>3
  <2>5. p > 0 => votes[s[p]] >= weight
    <3> SUFFICES ASSUME p > 0 PROVE votes[s[p]] >= weight
      OBVIOUS
    <3>1. p \in 1 .. n /\ ~(f <= p)
      BY ONLY p > 0, p \in 0 .. n, <2>3, <2>4, <1>1
    <3>2. p \notin B
      BY <2>2, <3>1
    <3> QED BY <1>1, <1>4, <3>1, <3>2
  <2>6. p < n /\ p + 1 = f
    BY <1>1, <2>3, <2>4
  <2>7. p \in Places(s, votes, weight, h)
    BY <2>3, <2>5, <2>6 DEF Places, Fits, n
  <2> QED BY <1>5, <2>3, <2>7
<1> QED BY <1>6, <1>7

\* Whatever the list is, its members and nobody else are hints.
LEMMA HintTypes ==
  ASSUME NEW S, NEW s \in Seq(S), NEW votes, NEW x, NEW weight
  PROVE  /\ LesserAndGreater(s, votes, x, weight).lesser \in S \cup {Nobody}
         /\ LesserAndGreater(s, votes, x, weight).greater \in S \cup {Nobody}
<1> DEFINE total == VoteTotal(s, votes, x, weight)
           B == Below(s, votes, x, total)
           A == Above(s, votes, x, total)
<1>1. B \in SUBSET Nat /\ A \in SUBSET (0 .. Len(s)) /\ Len(s) \in Nat
      /\ B \subseteq DOMAIN s /\ A \subseteq DOMAIN s
  BY DEF Below, Above, Others
<1>2. \A i \in DOMAIN s : s[i] \in S
  OBVIOUS
<1>3. LesserAndGreater(s, votes, x, weight) =
        [lesser |-> IF B = {} THEN Nobody ELSE s[First(B)],
         greater |-> IF A = {} THEN Nobody ELSE s[Latest(A)]]
  BY DEF LesserAndGreater
<1> HIDE DEF B, A
<1>4. B # {} => First(B) \in DOMAIN s
  BY <1>1, FirstIsLeast
<1>5. A # {} => Latest(A) \in DOMAIN s
  BY <1>1, LatestIsGreatest
<1> QED BY <1>2, <1>3, <1>4, <1>5

-----------------------------------------------------------------------------
(* The records of the contracts.                                           *)

\* Nobody is twice in a list, and eligible are the groups that have members.
GoodLists(c) ==
  /\ Distinct(c.list)
  /\ \A g \in Accounts : Distinct(c.members[g])
  /\ Members(c.list) = {g \in Accounts : c.members[g] # <<>>}

RegistryInv == registry \in Registries /\ GoodLists(registry)

\* Where a command is, and with what.
Runs ==
  [pc: {"idle", "checks", "weight", "hints", "send", "key"},
   command: ValidatorCommands \cup {"none"}, arg: Accounts \cup {Nobody}, to: Nat,
   check: Nat, seen: Accounts \cup {Nobody}, index: Nat, weight: Nat,
   hint: [lesser: Accounts \cup {Nobody}, greater: Accounts \cup {Nobody}],
   fresh: BOOLEAN]

RunsInv ==
  /\ plan \in [Users -> Goals] /\ mishaps \in Nat
  /\ run \in [Users -> Runs]
  /\ \A a \in Users : run[a].pc # "idle" => run[a].command \in ValidatorCommands

\* The lists stay good when only others of the records change.
LEMMA ListsStay ==
  ASSUME NEW c, GoodLists(c), NEW d, d.list = c.list, d.members = c.members
  PROVE  GoodLists(d)
BY DEF GoodLists

\* The affiliation of somebody changes.
LEMMA Affiliated ==
  ASSUME NEW c \in Registries, GoodLists(c), NEW a \in Accounts,
         NEW x \in Accounts \cup {Nobody},
         NEW d, d = [c EXCEPT !.affiliation[a] = x]
  PROVE  d \in Registries /\ GoodLists(d)
<1>1. d \in Registries
  BY DEF Registries
<1>2. d.list = c.list /\ d.members = c.members
  BY DEF Registries
<1> QED BY <1>1, <1>2, ListsStay

\* A member leaves its group, which is no longer eligible without members.
LEMMA UnmemberKeeps ==
  ASSUME RegistryInv, NEW a \in Accounts
  PROVE  Unmember(registry, a) \in Registries /\ GoodLists(Unmember(registry, a))
<1> DEFINE group == registry.affiliation[a]
           d == Unmember(registry, a)
<1>1. CASE group = Nobody \/ ~IsMember(a, group)
  BY <1>1 DEF Unmember, RegistryInv
<1>2. CASE ~(group = Nobody \/ ~IsMember(a, group))
  <2> DEFINE ms == registry.members[group]
             es == registry.list
             left == Rest(ms, a)
             es2 == IF Size(group) = 1 THEN Rest(es, group) ELSE es
  <2>1. /\ group \in Accounts /\ a \in Members(ms)
        /\ ms \in Seq(Accounts) /\ Distinct(ms)
        /\ es \in Seq(Accounts) /\ Distinct(es)
        /\ Members(es) = {g \in Accounts : registry.members[g] # <<>>}
    <3>1. group # Nobody /\ a \in Members(ms)
      BY <1>2 DEF IsMember
    <3> QED BY <3>1 DEF RegistryInv, GoodLists, Registries
  <2>2. /\ left \in Seq(Accounts) /\ Distinct(left) /\ Len(left) = Len(ms) - 1
    BY <2>1, RestOf
  <2>3. d = [registry EXCEPT !.members[group] = left,
                             !.left[a] = 0, !.updated[group] = 0, !.list = es2]
    BY <1>2 DEF Unmember
  <2>4. group \in Members(es)
    <3>1. ms # <<>>
      BY <2>1 DEF Members
    <3> QED BY <2>1, <3>1
  <2>5. /\ es2 \in Seq(Accounts) /\ Distinct(es2)
        /\ Members(es2) = IF Len(ms) = 1 THEN Members(es) \ {group} ELSE Members(es)
    BY <2>1, <2>4, RestOf DEF Size
  <2>6. left = <<>> <=> Len(ms) = 1
    <3>1. left = <<>> <=> Len(left) = 0
      BY <2>2, EmptySeq
    <3>2. Len(ms) \in Nat
      BY <2>1
    <3> HIDE DEF left, ms
    <3> QED BY ONLY <3>1, <3>2, <2>2
  <2> HIDE DEF left, es2
  <2>7. d \in Registries
    <3>1. registry \in Registries
      BY DEF RegistryInv
    <3>2. 0 \in 0 .. Duration + 1
      BY ValidatorsAssumption
    <3> HIDE DEF d, group
    <3> QED BY <2>1, <2>2, <2>3, <2>5, <3>1, <3>2 DEF Registries
  <2>8. d.list = es2 /\ d.members = [registry.members EXCEPT ![group] = left]
    <3>1. registry \in Registries
      BY DEF RegistryInv
    <3> HIDE DEF d, group
    <3> QED BY <2>3, <3>1 DEF Registries
  <2>9. DOMAIN registry.members = Accounts
    BY DEF RegistryInv, Registries
  <2>10. \A g \in Accounts : d.members[g] = IF g = group THEN left ELSE registry.members[g]
    BY <2>8, <2>9
  <2>11. \A g \in Accounts : Distinct(d.members[g])
    BY <2>2, <2>10 DEF RegistryInv, GoodLists
  <2>12. Members(es2) = {g \in Accounts : d.members[g] # <<>>}
    <3> HIDE DEF d, group
    <3>1. \A g \in Accounts : g \in Members(es2) <=> d.members[g] # <<>>
      <4> SUFFICES ASSUME NEW g \in Accounts
                   PROVE  g \in Members(es2) <=> d.members[g] # <<>>
        OBVIOUS
      <4>1. g \in Members(es) <=> registry.members[g] # <<>>
        BY <2>1
      <4>2. CASE g = group
        BY <2>4, <2>5, <2>6, <2>10, <4>2
      <4>3. CASE g # group
        BY <2>5, <2>10, <4>1, <4>3
      <4> QED BY <4>2, <4>3
    <3>2. Members(es2) \subseteq Accounts
      BY <2>5 DEF Members
    <3> QED BY <3>1, <3>2
  <2> QED BY <2>5, <2>7, <2>8, <2>11, <2>12 DEF GoodLists
<1> QED BY <1>1, <1>2

\* A sequence after somebody is swapped out of it.
LEMMA SwapOutIs ==
  ASSUME NEW s \in Seq(Accounts), NEW i \in DOMAIN s
  PROVE  SwapOut(s, i) \in Seq(Accounts)
<1>1. /\ Len(s) - 1 \in Nat /\ Len(s) \in 1 .. Len(s)
      /\ \A j \in 1 .. Len(s) - 1 : j \in 1 .. Len(s)
      /\ \A j \in 1 .. Len(s) : s[j] \in Accounts
  OBVIOUS
<1>2. SwapOut(s, i) \in [1 .. Len(s) - 1 -> Accounts]
  BY <1>1 DEF SwapOut
<1> QED BY <1>1, <1>2

\* A member comes last in a group that has got members or has just become
\* eligible.
LEMMA MemberAdded ==
  ASSUME NEW c \in Registries, NEW group \in Accounts, NEW a \in Accounts,
         \A g \in Accounts : Distinct(c.members[g]), Distinct(c.list),
         Members(c.list) = {g \in Accounts : c.members[g] # <<>>} \cup {group},
         a \notin Members(c.members[group])
  PROVE  AddMember(c, group, a) \in Registries /\ GoodLists(AddMember(c, group, a))
<1> DEFINE ms == Append(c.members[group], a)
           d == AddMember(c, group, a)
<1>1. ms \in Seq(Accounts) /\ Distinct(ms) /\ ms # <<>>
  <2>1. c.members[group] \in Seq(Accounts)
    BY DEF Registries
  <2> QED BY <2>1, AppendOf
<1>2. d = [c EXCEPT !.members[group] = ms, !.updated[group] = 0]
  BY DEF AddMember
<1>3. 0 \in 0 .. Duration + 1
  BY ValidatorsAssumption
<1> HIDE DEF ms, d
<1>4. d \in Registries
  BY <1>1, <1>2, <1>3 DEF Registries
<1>5. d.list = c.list /\ d.members = [c.members EXCEPT ![group] = ms]
  BY <1>2 DEF Registries
<1>6. \A g \in Accounts : d.members[g] = IF g = group THEN ms ELSE c.members[g]
  <2>1. DOMAIN c.members = Accounts
    BY DEF Registries
  <2> QED BY <1>5, <2>1
<1>7. \A g \in Accounts : Distinct(d.members[g])
  BY <1>1, <1>6
<1>8. Members(d.list) = {g \in Accounts : d.members[g] # <<>>}
  BY <1>1, <1>5, <1>6
<1> QED BY <1>4, <1>5, <1>7, <1>8 DEF GoodLists, d

\* What is next to each other when a member is put between its neighbours.
LEMMA BetweenIs ==
  ASSUME NEW s, NEW h, Between(s, h) # {}
  PROVE  (CHOOSE p \in Between(s, h) : TRUE) \in Between(s, h)
         /\ Between(s, h) \subseteq 0 .. Len(s)
BY DEF Between

\* What the contracts do with a transaction that they accept.
LEMMA EffectKeeps ==
  ASSUME RegistryInv, RunsInv, NEW a \in Users, Accepted(a)
  PROVE  Effect(a) \in Registries /\ GoodLists(Effect(a))
<1> DEFINE r == run[a]
           d == Effect(a)
<1>1. /\ a \in Accounts /\ Nobody \notin Accounts
      /\ r \in Runs
      /\ registry \in Registries /\ GoodLists(registry)
  BY ValidatorsAssumption DEF RunsInv, RegistryInv
<1>2. /\ registry.list \in Seq(Accounts) /\ registry.members \in [Accounts -> Seq(Accounts)]
      /\ registry.validators \in Seq(Accounts) /\ registry.groups \in Seq(Accounts)
      /\ registry.votes \in [Accounts -> Nat]
  BY <1>1 DEF Registries
<1>3. CASE r.command = "register"
  <2>1. d = [registry EXCEPT !.validators = Append(registry.validators, a),
                             !.affiliation[a] = Nobody]
    BY <1>3 DEF Effect
  <2>2. Append(registry.validators, a) \in Seq(Accounts)
    BY <1>1, <1>2
  <2> HIDE DEF d
  <2>3. d \in Registries /\ d.list = registry.list /\ d.members = registry.members
    BY <1>1, <2>1, <2>2 DEF Registries
  <2> QED BY <1>1, <2>3, ListsStay DEF d
<1>4. CASE r.command = "deregister"
  <2>1. d = [registry EXCEPT !.validators = SwapOut(registry.validators, r.index),
                             !.affiliation[a] = Nobody]
    BY <1>4 DEF Effect
  <2>2. SwapOut(registry.validators, r.index) \in Seq(Accounts)
    BY <1>2, <1>4, SwapOutIs DEF Accepted
  <2> HIDE DEF d
  <2>3. d \in Registries /\ d.list = registry.list /\ d.members = registry.members
    BY <1>1, <2>1, <2>2 DEF Registries
  <2> QED BY <1>1, <2>3, ListsStay DEF d
<1>5. CASE r.command \in {"affiliate", "deaffiliate"}
  <2>1. PICK x \in Accounts \cup {Nobody} :
               d = [Unmember(registry, a) EXCEPT !.affiliation[a] = x]
    <3>1. CASE r.command = "affiliate"
      <4>1. r.arg \in Accounts \cup {Nobody}
        BY <1>1 DEF Runs
      <4> QED BY <3>1, <4>1 DEF Effect
    <3>2. CASE r.command = "deaffiliate"
      BY <3>2 DEF Effect
    <3> QED BY <1>5, <3>1, <3>2
  <2>2. Unmember(registry, a) \in Registries /\ GoodLists(Unmember(registry, a))
    BY <1>1, UnmemberKeeps
  <2> HIDE DEF d
  <2>3. d \in Registries /\ GoodLists(d)
    BY <1>1, <2>1, <2>2, Affiliated
  <2> QED BY <2>3 DEF d
<1>6. CASE r.command = "registerGroup"
  <2>1. d = [registry EXCEPT !.groups = Append(registry.groups, a)]
    BY <1>6 DEF Effect
  <2>2. Append(registry.groups, a) \in Seq(Accounts)
    BY <1>1, <1>2
  <2> HIDE DEF d
  <2>3. d \in Registries /\ d.list = registry.list /\ d.members = registry.members
    BY <1>1, <2>1, <2>2 DEF Registries
  <2> QED BY <1>1, <2>3, ListsStay DEF d
<1>7. CASE r.command = "deregisterGroup"
  <2>1. d = [registry EXCEPT !.groups = SwapOut(registry.groups, r.index),
                             !.commission[a] = "old"]
    BY <1>7 DEF Effect
  <2>2. SwapOut(registry.groups, r.index) \in Seq(Accounts)
    BY <1>2, <1>7, SwapOutIs DEF Accepted
  <2> HIDE DEF d
  <2>3. d \in Registries /\ d.list = registry.list /\ d.members = registry.members
    BY <1>1, <2>1, <2>2 DEF Registries
  <2> QED BY <1>1, <2>3, ListsStay DEF d
<1>8. CASE r.command = "accept"
  <2>1. /\ r.arg \in Accounts /\ r.arg \notin Members(registry.members[a])
        /\ IF r.to = 0 THEN Size(a) = 0 /\ HintFits(a, r.hint) ELSE Size(a) > 0
    <3>1. /\ IsValidator(r.arg) /\ ~IsMember(r.arg, a)
          /\ IF r.to = 0 THEN Size(a) = 0 /\ HintFits(a, r.hint) ELSE Size(a) > 0
      BY <1>8 DEF Accepted
    <3>2. Members(registry.validators) \subseteq Accounts
      BY <1>2 DEF Members
    <3> QED BY <1>1, <3>1, <3>2 DEF IsValidator, IsMember
  <2>2. CASE r.to = 0
    <3> DEFINE c == MarkEligible(registry, a, r.hint)
               ps == Places(registry.list, registry.votes, registry.votes[a], r.hint)
               place == CHOOSE p \in ps : TRUE
               es == PutAt(registry.list, a, place)
    <3>1. d = AddMember(c, a, r.arg)
      BY <1>8, <2>2 DEF Effect
    <3>2. c = [registry EXCEPT !.list = es]
      BY DEF MarkEligible
    <3>3. place \in 0 .. Len(registry.list)
      <4>1. ps # {}
        BY <2>1, <2>2 DEF HintFits
      <4> QED BY <4>1 DEF Places
    <3>4. registry.members[a] = <<>>
      BY <1>1, <1>2, <2>1, <2>2, EmptySeq DEF Size
    <3>5. a \notin Members(registry.list) /\ Distinct(registry.list)
      BY <1>1, <3>4 DEF GoodLists
    <3>6. /\ es \in Seq(Accounts) /\ Distinct(es)
          /\ Members(es) = Members(registry.list) \cup {a}
      <4> HIDE DEF place
      <4> QED BY <1>1, <1>2, <3>3, <3>5, PutOf
    <3> HIDE DEF es
    <3>7. c \in Registries /\ c.list = es /\ c.members = registry.members
      <4> HIDE DEF c
      <4> QED BY <1>1, <3>2, <3>6 DEF Registries
    <3>8. /\ \A g \in Accounts : Distinct(c.members[g])
          /\ Members(c.list) = {g \in Accounts : c.members[g] # <<>>} \cup {a}
      BY <1>1, <3>6, <3>7 DEF GoodLists
    <3> HIDE DEF c
    <3>9. AddMember(c, a, r.arg) \in Registries /\ GoodLists(AddMember(c, a, r.arg))
      BY <1>1, <2>1, <3>6, <3>7, <3>8, MemberAdded
    <3> QED BY <3>1, <3>9
  <2>3. CASE r.to # 0
    <3>1. d = AddMember(registry, a, r.arg)
      BY <1>8, <2>3 DEF Effect
    <3>2. registry.members[a] # <<>>
      BY <2>1, <2>3 DEF Size
    <3>3. /\ \A g \in Accounts : Distinct(registry.members[g])
          /\ Distinct(registry.list)
          /\ Members(registry.list) = {g \in Accounts : registry.members[g] # <<>>} \cup {a}
      BY <1>1, <3>2 DEF GoodLists
    <3> HIDE DEF d
    <3>4. d \in Registries /\ GoodLists(d)
      BY <1>1, <2>1, <3>1, <3>3, MemberAdded
    <3> QED BY <3>4 DEF d
  <2> QED BY <2>2, <2>3
<1>9. CASE r.command = "remove"
  <2>1. d = Unmember(registry, r.arg)
    BY <1>9 DEF Effect
  <2>2. r.arg \in Accounts
    <3>1. IsMember(r.arg, a)
      BY <1>9 DEF Accepted
    <3>2. Members(registry.members[a]) \subseteq Accounts
      BY <1>1, <1>2 DEF Members
    <3> QED BY <3>1, <3>2 DEF IsMember
  <2> QED BY <1>1, <2>1, <2>2, UnmemberKeeps
<1>10. CASE r.command = "reorder"
  <2> DEFINE ms == registry.members[a]
             rest == Rest(ms, r.arg)
             p == CHOOSE q \in Between(rest, r.hint) : TRUE
             moved == PutAt(rest, r.arg, p)
  <2>1. r.arg \in Members(ms) /\ p \in 0 .. Len(rest)
    <3>1. IsMember(r.arg, a) /\ Between(rest, r.hint) # {}
      BY <1>10 DEF Accepted
    <3> QED BY <3>1, BetweenIs DEF IsMember
  <2>2. d = [registry EXCEPT !.members[a] = moved]
    BY <1>10 DEF Effect
  <2>3. ms \in Seq(Accounts) /\ Distinct(ms) /\ r.arg \in Accounts
    <3>1. ms \in Seq(Accounts) /\ Distinct(ms)
      BY <1>1, <1>2 DEF GoodLists
    <3> QED BY <2>1, <3>1 DEF Members
  <2> HIDE DEF ms, p
  <2>4. /\ rest \in Seq(Accounts) /\ Distinct(rest) /\ r.arg \notin Members(rest)
        /\ Len(rest) = Len(ms) - 1
    BY <2>1, <2>3, RestOf
  <2> HIDE DEF rest
  <2>5. /\ moved \in Seq(Accounts) /\ Distinct(moved)
        /\ Len(moved) = Len(rest) + 1
    BY <2>1, <2>3, <2>4, PutOf
  <2>6. moved # <<>> /\ ms # <<>>
    BY <2>1, <2>4, <2>5 DEF Members
  <2> HIDE DEF d, moved
  <2>7. d \in Registries
    BY <1>1, <2>2, <2>5 DEF Registries
  <2>8. d.list = registry.list /\ d.members = [registry.members EXCEPT ![a] = moved]
    BY <1>1, <2>2 DEF Registries
  <2>9. \A g \in Accounts : d.members[g] = IF g = a THEN moved ELSE registry.members[g]
    BY <1>2, <2>8
  <2>10. GoodLists(d)
    BY <1>1, <2>5, <2>6, <2>8, <2>9 DEF GoodLists, ms
  <2> QED BY <2>7, <2>10 DEF d
<1>11. CASE r.command \in {"queueUpdate", "apply"}
  <2>1. PICK x \in {"queued", "new"} : d = [registry EXCEPT !.commission[a] = x]
    BY <1>11 DEF Effect
  <2> HIDE DEF d
  <2>2. d \in Registries /\ d.list = registry.list /\ d.members = registry.members
    BY <1>1, <2>1 DEF Registries
  <2> QED BY <1>1, <2>2, ListsStay DEF d
<1>12. r.command \in ValidatorCommands
  BY DEF Accepted, ValidatorCommands
<1> QED BY <1>3, <1>4, <1>5, <1>6, <1>7, <1>8, <1>9, <1>10, <1>11, <1>12
        DEF ValidatorCommands

\* The new neighbours of a member: between them is the index that is asked for.
LEMMA NeighboursAre ==
  ASSUME Nobody \notin Accounts,
         NEW ms \in Seq(Accounts), Distinct(ms), NEW x \in Members(ms),
         NEW to \in Nat, to < Len(ms), NEW h, h = NewNeighbours(ms, x, to)
  PROVE  /\ h \in [lesser: Accounts \cup {Nobody}, greater: Accounts \cup {Nobody}]
         /\ Between(Rest(ms, x), h) = {to}
<1> DEFINE rest == Rest(ms, x)
           n == Len(rest)
           moved == PutAt(rest, x, to)
<1>1. /\ rest \in Seq(Accounts) /\ Distinct(rest) /\ n = Len(ms) - 1
      /\ Len(ms) \in Nat
  BY RestOf
<1>2. x \in Accounts
  BY DEF Members
<1> HIDE DEF rest
<1>3. /\ n \in Nat /\ to \in 0 .. n /\ DOMAIN rest = 1 .. n
      /\ \A i \in 1 .. n : rest[i] \in Accounts
  BY <1>1
<1>4. Len(moved) = n + 1
  BY <1>1, <1>3 DEF PutAt
<1>5. /\ to > 0 => moved[to] = rest[to]
      /\ to < n => moved[to + 2] = rest[to + 1]
  BY <1>1, <1>3 DEF PutAt
<1> HIDE DEF moved, n
<1>6. h = [lesser  |-> IF to = Len(moved) - 1 THEN Nobody ELSE moved[to + 2],
           greater |-> IF to = 0 THEN Nobody ELSE moved[to]]
  BY DEF NewNeighbours, moved, rest
<1>7. /\ h.lesser = IF to = n THEN Nobody ELSE rest[to + 1]
      /\ h.greater = IF to = 0 THEN Nobody ELSE rest[to]
  BY <1>3, <1>4, <1>5, <1>6
<1>8. h \in [lesser: Accounts \cup {Nobody}, greater: Accounts \cup {Nobody}]
  BY <1>3, <1>6, <1>7
<1>9. Between(rest, h) = {p \in 0 .. n :
        /\ h.greater = (IF p = 0 THEN Nobody ELSE rest[p])
        /\ h.lesser = (IF p = n THEN Nobody ELSE rest[p + 1])}
  BY DEF Between, n
<1>10. to \in Between(rest, h)
  BY <1>3, <1>7, <1>9
<1>11. ASSUME NEW p \in Between(rest, h) PROVE p = to
  <2>1. /\ p \in 0 .. n
        /\ (IF p = 0 THEN Nobody ELSE rest[p]) = (IF to = 0 THEN Nobody ELSE rest[to])
    BY <1>7, <1>9
  <2>2. CASE p = 0
    BY <1>3, <2>1, <2>2
  <2>3. CASE to = 0
    BY <1>3, <2>1, <2>3
  <2>4. CASE p # 0 /\ to # 0
    <3>1. p \in 1 .. n /\ to \in 1 .. n /\ rest[p] = rest[to]
      BY <1>3, <2>1, <2>4
    <3> QED BY <1>1, <1>3, <3>1 DEF Distinct
  <2> QED BY <2>2, <2>3, <2>4
<1> QED BY <1>8, <1>10, <1>11 DEF rest

-----------------------------------------------------------------------------
(* Steps keep the records and the commands what they are.                  *)

LEMMA ValidatorsBegin == ValidatorsInit => RegistryInv /\ RunsInv
<1> SUFFICES ASSUME ValidatorsInit PROVE RegistryInv /\ RunsInv
  OBVIOUS
<1>1. PICK p \in Plans : plan = p.plan /\ registry = p.chain /\ mishaps = p.mishaps
  BY DEF ValidatorsInit
<1>2. RegistryInv
  BY <1>1, ValidatorsAssumption DEF RegistryInv, GoodLists, Distinct
<1>3. Idle \in Runs
  BY DEF Idle, None, Runs
<1>4. run = [a \in Users |-> Idle]
  BY DEF ValidatorsInit
<1>5. RunsInv
  BY <1>1, <1>3, <1>4, ValidatorsAssumption DEF RunsInv, Idle
<1> QED BY <1>2, <1>5

\* A command goes on.
LEMMA RunChanged ==
  ASSUME RunsInv, NEW a \in Users, NEW x \in Runs,
         x.pc # "idle" => x.command \in ValidatorCommands,
         run' = [run EXCEPT ![a] = x], plan' = plan, mishaps' \in Nat
  PROVE  RunsInv'
<1>1. run' \in [Users -> Runs]
  BY DEF RunsInv
<1>2. \A b \in Users : run'[b] = IF b = a THEN x ELSE run[b]
  BY DEF RunsInv
<1> QED BY <1>1, <1>2 DEF RunsInv

\* What users look for on the chain are accounts.
LEMMA WantsAre ==
  ASSUME RegistryInv, RunsInv, NEW a \in Users, NEW o \in Wants(a)
  PROVE  o.command \in ValidatorCommands /\ o.arg \in Accounts \cup {Nobody}
<1>1. /\ plan[a].with \in Accounts \cup {Nobody}
      /\ Members(registry.validators) \subseteq Accounts
      /\ \A g \in Accounts : Members(registry.members[g]) \subseteq Accounts
      /\ a \in Accounts
  <2>1. /\ registry.validators \in Seq(Accounts)
        /\ \A g \in Accounts : registry.members[g] \in Seq(Accounts)
    BY DEF RegistryInv, Registries
  <2> QED BY <2>1, ValidatorsAssumption DEF RunsInv, Goals, Members
<1> DEFINE Proper(O) == \A q \in O : q.command \in ValidatorCommands
                                     /\ q.arg \in Accounts \cup {Nobody}
<1>2. Proper(ToLeave(a))
  BY <1>1 DEF ToLeave, Order, ValidatorCommands
<1>3. Proper(ToClose(a))
  BY <1>1 DEF ToClose, Order, ValidatorCommands
<1>4. Proper(ToJoin(a, plan[a].with))
  <2> HIDE DEF Proper
  <2>1. Proper({Order("register", Nobody)}) /\ Proper({}) /\ Proper({Order("affiliate", plan[a].with)})
    BY <1>1 DEF Order, ValidatorCommands, Proper
  <2> QED BY <1>3, <2>1 DEF ToJoin
<1>5. Proper(ToLead(a, plan[a].with))
  <2>1. Affiliates(a) \subseteq Accounts
    BY <1>1 DEF Affiliates
  <2>2. Proper({Order("registerGroup", Nobody)})
    BY DEF Order, ValidatorCommands
  <2>3. Proper({Order("accept", v) : v \in Affiliates(a) \ Members(registry.members[a])})
    BY <2>1 DEF Order, ValidatorCommands
  <2>4. Proper(IF IsMember(plan[a].with, a) /\ registry.members[a][1] # plan[a].with
               THEN {Order("reorder", plan[a].with)} ELSE {})
    BY <1>1 DEF Order, ValidatorCommands
  <2>5. Proper(CASE registry.commission[a] = "old" -> {Order("queueUpdate", Nobody)}
                 [] registry.commission[a] = "new" -> {}
                 [] OTHER                       -> {Order("apply", Nobody)})
    BY DEF Order, ValidatorCommands
  <2> QED BY <1>2, <2>2, <2>3, <2>4, <2>5 DEF ToLead
<1>6. \/ o \in ToJoin(a, plan[a].with) \/ o \in ToLeave(a)
      \/ o \in ToLead(a, plan[a].with) \/ o \in ToClose(a)
  BY DEF Wants
<1> QED BY <1>2, <1>3, <1>4, <1>5, <1>6

\* What the records of a command are.
LEMMA RunIs ==
  ASSUME RunsInv, NEW a \in Users
  PROVE  /\ run[a] \in Runs
         /\ run[a].pc \in {"idle", "checks", "weight", "hints", "send", "key"}
         /\ run[a].command \in ValidatorCommands \cup {"none"}
         /\ run[a].arg \in Accounts \cup {Nobody}
         /\ run[a].to \in Nat /\ run[a].check \in Nat /\ run[a].index \in Nat
         /\ run[a].weight \in Nat
         /\ run[a].fresh \in BOOLEAN
         /\ DOMAIN run = Users /\ mishaps \in Nat
BY DEF RunsInv, Runs

LEMMA IdleIs == Idle \in Runs /\ Idle.pc = "idle"
BY DEF Idle, None, Runs

LEMMA RunsByStart ==
  ASSUME RegistryInv, RunsInv, NEW a \in Users, Pursue(a) \/ Stray(a)
  PROVE  RunsInv'
<1>1. PICK command \in ValidatorCommands, arg \in Accounts \cup {Nobody}, to \in Nat :
        StartCommand(a, command, arg, to)
  <2>1. CASE Pursue(a)
    BY <2>1, WantsAre DEF Pursue
  <2>2. CASE Stray(a)
    BY <2>2, ValidatorsAssumption DEF Stray
  <2> QED BY <2>1, <2>2
<1>2. plan' = plan /\ mishaps' \in Nat
  BY DEF Pursue, Stray, Reads, RunsInv
<1> DEFINE x == [Idle EXCEPT !.pc = "checks", !.command = command, !.arg = arg, !.to = to]
<1>3. x \in Runs /\ x.command \in ValidatorCommands
  BY DEF Idle, None, Runs
<1>4. run' = [run EXCEPT ![a] = x]
  BY <1>1 DEF StartCommand
<1> HIDE DEF x
<1> QED BY <1>2, <1>3, <1>4, RunChanged

LEMMA RunsByCommand ==
  ASSUME RegistryInv, RunsInv, NEW a \in Users,
         Command(a) \/ Cut(a)
  PROVE  RunsInv'
<1> DEFINE r == run[a]
<1>1. /\ r \in Runs /\ r.pc \in {"idle", "checks", "weight", "hints", "send", "key"}
      /\ r.pc # "idle" => r.command \in ValidatorCommands
      /\ mishaps \in Nat /\ DOMAIN run = Users /\ a \in Accounts
  BY RunIs, ValidatorsAssumption DEF RunsInv
<1>2. ASSUME NEW x, x = Idle, run' = [run EXCEPT ![a] = x], plan' = plan, mishaps' \in Nat
      PROVE  RunsInv'
  BY <1>2, IdleIs, RunChanged
<1>3. CASE RunCheck(a)
  <2> DEFINE check == ChecksOf(r.command)[r.check]
  <2>1. /\ run' = [run EXCEPT ![a] = IF Passes(a, check)
                                     THEN [run[a] EXCEPT !.check = run[a].check + 1,
                                                         !.seen = Remembers(a, check)]
                                     ELSE Idle]
        /\ plan' = plan /\ mishaps' = mishaps /\ r.pc = "checks"
    BY <1>3 DEF RunCheck, Reads
  <2>2. Remembers(a, check) \in Accounts \cup {Nobody}
    <3>1. registry.affiliation[a] \in Accounts \cup {Nobody}
      BY <1>1 DEF RegistryInv, Registries
    <3>2. run[a].seen \in Accounts \cup {Nobody}
      BY <1>1 DEF Runs
    <3> HIDE DEF check
    <3> QED BY <1>1, <3>1, <3>2 DEF Remembers
  <2> HIDE DEF check
  <2>3. PICK n \in Nat, remembered \in Accounts \cup {Nobody} :
          n = r.check + 1 /\ remembered = Remembers(a, check)
    BY <2>2, RunIs
  <2> DEFINE x == [r EXCEPT !.check = n, !.seen = remembered]
  <2>4. x \in Runs /\ x.command = r.command
    BY <1>1 DEF Runs
  <2>5. run' = [run EXCEPT ![a] = x] \/ run' = [run EXCEPT ![a] = Idle]
    BY <2>1, <2>3
  <2> HIDE DEF x
  <2> QED BY <1>1, <1>2, <2>1, <2>4, <2>5, RunChanged
<1>4. CASE BuildDeregister(a)
  <2> DEFINE s == IF r.command = "deregister" THEN registry.validators
                  ELSE registry.groups
             index == FindAddressIndex(a, s)
  <2>1. run' = [run EXCEPT ![a] = IF index = 0 THEN Idle
                               ELSE [r EXCEPT !.pc = "send", !.index = index]]
    BY <1>1, <1>4 DEF BuildDeregister
  <2>2. plan' = plan /\ mishaps' = mishaps /\ r.pc = "checks"
    BY <1>4 DEF BuildDeregister, Reads, Built
  <2>3. index \in Nat
    <3>1. s \in Seq(Accounts)
      BY DEF RegistryInv, Registries
    <3> QED BY <3>1, PlaceOfMember DEF FindAddressIndex
  <2> DEFINE x == [r EXCEPT !.pc = "send", !.index = index]
  <2> HIDE DEF index
  <2>4. x \in Runs /\ x.command = r.command
    BY <1>1, <2>3 DEF Runs
  <2> HIDE DEF x
  <2>5. run' = [run EXCEPT ![a] = Idle] \/ run' = [run EXCEPT ![a] = x]
    BY <2>1 DEF x
  <2> QED BY <1>1, <1>2, <2>2, <2>4, <2>5, RunChanged
<1>5. CASE BuildAccept(a)
  <2>1. PICK stage \in {"weight", "send"} :
             run' = [run EXCEPT ![a].pc = stage, ![a].to = Size(a)]
    BY <1>5 DEF BuildAccept
  <2>2. plan' = plan /\ mishaps' = mishaps /\ r.pc = "checks"
    BY <1>5 DEF BuildAccept, Reads, Built
  <2>3. Size(a) \in Nat
    BY <1>1 DEF Size, RegistryInv, Registries
  <2> DEFINE x == [r EXCEPT !.pc = stage, !.to = Size(a)]
  <2>4. x \in Runs /\ x.command = r.command
    BY <1>1, <2>3 DEF Runs
  <2>5. run' = [run EXCEPT ![a] = x]
    BY <1>1, <2>1
  <2> HIDE DEF x
  <2> QED BY <1>1, <2>2, <2>4, <2>5, RunChanged
<1>11. CASE ReadWeight(a)
  <2>1. PICK w \in Nat : w = registry.votes[a]
    BY <1>1 DEF RegistryInv, Registries
  <2> DEFINE x == [r EXCEPT !.pc = "hints", !.weight = w]
  <2>2. /\ run' = [run EXCEPT ![a].pc = "hints", ![a].weight = w]
        /\ plan' = plan /\ mishaps' = mishaps /\ r.pc = "weight"
    BY <1>11, <2>1 DEF ReadWeight, Reads
  <2>3. x \in Runs /\ x.command = r.command
    BY <1>1, <2>1 DEF Runs
  <2>4. run' = [run EXCEPT ![a] = x]
    BY <1>1, <2>2
  <2> HIDE DEF x
  <2> QED BY <1>1, <2>2, <2>3, <2>4, RunChanged
<1>6. CASE ReadHints(a)
  <2> DEFINE h == LesserAndGreater(registry.list, registry.votes, a, run[a].weight)
             x == [r EXCEPT !.pc = "send", !.hint = h]
  <2>1. /\ run' = [run EXCEPT ![a].pc = "send", ![a].hint = h]
        /\ plan' = plan /\ mishaps' = mishaps /\ r.pc = "hints"
    BY <1>6 DEF ReadHints, Reads
  <2>2. h \in [lesser: Accounts \cup {Nobody}, greater: Accounts \cup {Nobody}]
    <3>1. /\ registry.list \in Seq(Accounts) /\ registry.votes \in [Accounts -> Nat]
      BY DEF RegistryInv, Registries
    <3>2. h.lesser \in Accounts \cup {Nobody} /\ h.greater \in Accounts \cup {Nobody}
      BY <3>1, HintTypes
    <3>3. h = [lesser |-> h.lesser, greater |-> h.greater]
      BY DEF LesserAndGreater
    <3> HIDE DEF h
    <3> QED BY <3>2, <3>3
  <2> HIDE DEF h
  <2>3. x \in Runs /\ x.command = r.command
    BY <1>1, <2>2 DEF Runs
  <2>4. run' = [run EXCEPT ![a] = x]
    BY <1>1, <2>1
  <2> HIDE DEF x
  <2> QED BY <1>1, <2>1, <2>3, <2>4, RunChanged
<1>7. CASE BuildReorder(a)
  <2> DEFINE ms == IF IsGroup(a) THEN registry.members[a] ELSE <<>>
             h == NewNeighbours(ms, r.arg, r.to)
             x == [r EXCEPT !.pc = "send", !.hint = h]
  <2>1. /\ run' = [run EXCEPT ![a] = IF /\ r.to < Len(ms) /\ r.arg \in Members(ms)
                                        /\ PlaceOf(ms, r.arg) # r.to + 1
                                     THEN x ELSE Idle]
        /\ plan' = plan /\ mishaps' = mishaps /\ r.pc = "checks"
    BY <1>7 DEF BuildReorder, Built, Reads
  <2>2. ms \in Seq(Accounts) /\ Distinct(ms)
    BY <1>1 DEF RegistryInv, Registries, GoodLists, Distinct
  <2>3. CASE r.to < Len(ms) /\ r.arg \in Members(ms) /\ PlaceOf(ms, r.arg) # r.to + 1
    <3>1. r.to \in Nat /\ Nobody \notin Accounts
      BY RunIs, ValidatorsAssumption
    <3> HIDE DEF ms
    <3>2. h \in [lesser: Accounts \cup {Nobody}, greater: Accounts \cup {Nobody}]
      BY <2>2, <2>3, <3>1, NeighboursAre
    <3> HIDE DEF h
    <3>3. x \in Runs /\ x.command = r.command
      BY <1>1, <3>2 DEF Runs
    <3> HIDE DEF x
    <3> QED BY <1>1, <2>1, <2>3, <3>3, RunChanged
  <2>4. CASE ~(r.to < Len(ms) /\ r.arg \in Members(ms) /\ PlaceOf(ms, r.arg) # r.to + 1)
    <3> HIDE DEF ms, x
    <3>1. run' = [run EXCEPT ![a] = Idle]
      BY <2>1, <2>4
    <3> QED BY <1>1, <1>2, <2>1, <3>1
  <2> QED BY <2>3, <2>4
<1>8. CASE BuildNothing(a)
  <2> DEFINE x == [r EXCEPT !.pc = "send"]
  <2>1. run' = [run EXCEPT ![a] = x] /\ plan' = plan /\ mishaps' = mishaps /\ r.pc = "checks"
    BY <1>1, <1>8 DEF BuildNothing, Built, Reads
  <2>2. x \in Runs /\ x.command = r.command
    BY <1>1 DEF Runs
  <2> HIDE DEF x
  <2> QED BY <1>1, <2>1, <2>2, RunChanged
<1>9. CASE SendTx(a)
  <2>1. r.pc = "send" /\ plan' = plan /\ mishaps' = mishaps
    BY <1>9 DEF SendTx
  <2>2. CASE Accepted(a)
    <3> DEFINE x == IF r.command = "register" THEN [r EXCEPT !.pc = "key"] ELSE Idle
    <3>1. run' = [b \in Users |-> IF b = a THEN x ELSE [run[b] EXCEPT !.fresh = FALSE]]
      BY <1>9, <2>2 DEF SendTx, Unfresh
    <3>2. x \in Runs /\ (x.pc # "idle" => x.command \in ValidatorCommands)
      BY <1>1, <2>1, IdleIs DEF Runs
    <3> HIDE DEF x
    <3>3. ASSUME NEW b \in Users
          PROVE  /\ [run[b] EXCEPT !.fresh = FALSE] \in Runs
                 /\ [run[b] EXCEPT !.fresh = FALSE].pc = run[b].pc
                 /\ [run[b] EXCEPT !.fresh = FALSE].command = run[b].command
      BY RunIs DEF Runs
    <3>4. run' \in [Users -> Runs]
      BY <3>1, <3>2, <3>3
    <3>5. ASSUME NEW b \in Users
          PROVE  run'[b].pc # "idle" => run'[b].command \in ValidatorCommands
      BY <3>1, <3>2, <3>3 DEF RunsInv
    <3> QED BY <2>1, <3>4, <3>5 DEF RunsInv
  <2>3. CASE ~Accepted(a)
    <3>1. run' = [run EXCEPT ![a] = Idle]
      BY <1>9, <2>3 DEF SendTx
    <3> QED BY <1>1, <1>2, <2>1, <3>1
  <2> QED BY <2>2, <2>3
<1>10. CASE SendKey(a) \/ Cut(a)
  <2>1. run' = [run EXCEPT ![a] = Idle] /\ plan' = plan /\ mishaps' \in Nat
    BY <1>1, <1>10 DEF SendKey, Cut
  <2> QED BY <1>2, <2>1
<1> QED BY <1>3, <1>4, <1>5, <1>6, <1>7, <1>8, <1>9, <1>10, <1>11 DEF Command

LEMMA RunsByVote ==
  ASSUME RunsInv, NEW group, VotesChange(group)
  PROVE  RunsInv'
<1>1. /\ run' = [a \in Users |-> [run[a] EXCEPT !.fresh = FALSE]]
      /\ plan' = plan /\ mishaps' \in Nat
  BY DEF VotesChange, RunsInv
<1>2. ASSUME NEW b \in Users
      PROVE  /\ [run[b] EXCEPT !.fresh = FALSE] \in Runs
             /\ [run[b] EXCEPT !.fresh = FALSE].pc = run[b].pc
             /\ [run[b] EXCEPT !.fresh = FALSE].command = run[b].command
  BY RunIs DEF Runs
<1>3. run' \in [Users -> Runs]
  BY <1>1, <1>2
<1>4. ASSUME NEW b \in Users
      PROVE  run'[b].pc # "idle" => run'[b].command \in ValidatorCommands
  BY <1>1, <1>2 DEF RunsInv
<1> QED BY <1>1, <1>3, <1>4 DEF RunsInv

LEMMA RunsNext ==
  RegistryInv /\ RunsInv /\ [ValidatorsNext]_validatorsVars => RunsInv'
<1> SUFFICES ASSUME RegistryInv, RunsInv, [ValidatorsNext]_validatorsVars PROVE RunsInv'
  OBVIOUS
<1>1. CASE Tick \/ UNCHANGED validatorsVars
  BY <1>1 DEF Tick, validatorsVars, RunsInv
<1> QED BY <1>1, RunsByStart, RunsByCommand, RunsByVote DEF ValidatorsNext, AtRest

\* Somebody else votes for a group, which comes to another place in the list.
LEMMA RegistryByVote ==
  ASSUME RegistryInv, NEW group, VotesChange(group)
  PROVE  RegistryInv'
<1> DEFINE es == registry.list
           rest == Rest(es, group)
<1>1. /\ es \in Seq(Accounts) /\ Distinct(es) /\ group \in Members(es)
      /\ registry \in Registries /\ GoodLists(registry)
  BY DEF RegistryInv, Registries, GoodLists, VotesChange
<1>2. PICK total \in {0, 9}, p \in 0 .. Len(rest) :
           registry' = [registry EXCEPT !.votes[group] = total,
                                        !.list = PutAt(rest, group, p)]
  BY DEF VotesChange
<1>3. group \in Accounts
  BY <1>1 DEF Members
<1>4. /\ rest \in Seq(Accounts) /\ Distinct(rest)
      /\ Members(rest) = Members(es) \ {group}
  BY <1>1, RestOf
<1> HIDE DEF rest, es
<1>5. group \notin Members(rest)
  BY <1>4
<1> DEFINE moved == PutAt(rest, group, p)
<1>6. /\ moved \in Seq(Accounts) /\ Distinct(moved)
      /\ Members(moved) = Members(rest) \cup {group}
  BY <1>3, <1>4, <1>5, PutOf
<1> HIDE DEF moved
<1>7. registry' \in Registries /\ registry'.list = moved /\ registry'.members = registry.members
  <2>1. registry' = [registry EXCEPT !.votes[group] = total, !.list = moved]
    BY <1>2 DEF moved
  <2>2. PICK votes \in [Accounts -> Nat] : votes = [registry.votes EXCEPT ![group] = total]
    <3>1. registry.votes \in [Accounts -> Nat]
      BY <1>1 DEF Registries
    <3>2. total \in Nat
      OBVIOUS
    <3> QED BY <1>3, <3>1, <3>2
  <2>3. registry' = [registry EXCEPT !.votes = votes, !.list = moved]
    BY <2>1, <2>2
  <2> QED BY <1>1, <1>6, <2>3 DEF Registries
<1>8. Members(moved) = Members(es)
  BY <1>1, <1>4, <1>6
<1>9. GoodLists(registry)'
  BY <1>1, <1>6, <1>7, <1>8 DEF GoodLists, es
<1> QED BY <1>7, <1>9 DEF RegistryInv

\* What time does to the records.
LEMMA TickIs ==
  ASSUME registry \in Registries, Tick
  PROVE  /\ registry' \in Registries
         /\ registry'.list = registry.list /\ registry'.members = registry.members
         /\ registry'.validators = registry.validators /\ registry'.groups = registry.groups
         /\ registry'.affiliation = registry.affiliation /\ registry'.votes = registry.votes
         /\ \A a \in Accounts :
              /\ registry.left[a] > Duration => registry'.left[a] > Duration
              /\ registry.updated[a] > Duration => registry'.updated[a] > Duration
              /\ registry'.commission[a] = IF registry.commission[a] = "queued" THEN "due"
                                           ELSE registry.commission[a]
         /\ UNCHANGED <<plan, run, mishaps>>
<1> DEFINE L == [a \in Accounts |-> Older(registry.left[a])]
           U == [a \in Accounts |-> Older(registry.updated[a])]
           C == [a \in Accounts |-> IF registry.commission[a] = "queued" THEN "due"
                                    ELSE registry.commission[a]]
<1>1. registry' = [registry EXCEPT !.left = L, !.updated = U, !.commission = C]
      /\ UNCHANGED <<plan, run, mishaps>>
  BY DEF Tick
<1>2. Duration \in Nat
  BY ValidatorsAssumption
<1>3. \A x \in 0 .. Duration + 1 : Older(x) \in 0 .. Duration + 1
                                  /\ (x > Duration => Older(x) > Duration)
  BY <1>2 DEF Older
<1>4. /\ registry.left \in [Accounts -> 0 .. Duration + 1]
      /\ registry.updated \in [Accounts -> 0 .. Duration + 1]
      /\ registry.commission \in [Accounts -> {"old", "queued", "due", "new"}]
  BY DEF Registries
<1>5. /\ L \in [Accounts -> 0 .. Duration + 1] /\ U \in [Accounts -> 0 .. Duration + 1]
      /\ C \in [Accounts -> {"old", "queued", "due", "new"}]
  BY <1>3, <1>4
<1>6. \A a \in Accounts :
        /\ registry.left[a] > Duration => L[a] > Duration
        /\ registry.updated[a] > Duration => U[a] > Duration
        /\ C[a] = IF registry.commission[a] = "queued" THEN "due"
                  ELSE registry.commission[a]
  BY <1>3, <1>4
<1> HIDE DEF L, U, C
<1>7. /\ registry' \in Registries
      /\ registry'.list = registry.list /\ registry'.members = registry.members
      /\ registry'.validators = registry.validators /\ registry'.groups = registry.groups
      /\ registry'.affiliation = registry.affiliation /\ registry'.votes = registry.votes
      /\ registry'.left = L /\ registry'.updated = U /\ registry'.commission = C
  BY <1>1, <1>5 DEF Registries
<1> QED BY <1>1, <1>6, <1>7

\* The transaction with the key of an account changes nothing else.
LEMMA SendKeyIs ==
  ASSUME registry \in Registries, NEW a \in Users, SendKey(a)
  PROVE  /\ registry' \in Registries
         /\ registry'.list = registry.list /\ registry'.members = registry.members
         /\ registry'.validators = registry.validators /\ registry'.groups = registry.groups
         /\ registry'.affiliation = registry.affiliation /\ registry'.votes = registry.votes
         /\ registry'.left = registry.left /\ registry'.updated = registry.updated
         /\ registry'.commission = registry.commission
<1>1. a \in Accounts
  BY ValidatorsAssumption
<1>2. registry' = [registry EXCEPT !.keys = registry.keys \cup {a}]
  BY DEF SendKey
<1> QED BY <1>1, <1>2 DEF Registries

LEMMA RegistryNext ==
  RegistryInv /\ RunsInv /\ [ValidatorsNext]_validatorsVars => RegistryInv'
<1> SUFFICES ASSUME RegistryInv, RunsInv, [ValidatorsNext]_validatorsVars
             PROVE  RegistryInv'
  OBVIOUS
<1>1. CASE Tick
  <2>1. registry \in Registries /\ GoodLists(registry)
    BY DEF RegistryInv
  <2>2. GoodLists(registry)'
    BY <1>1, <2>1, TickIs DEF GoodLists
  <2> QED BY <1>1, <2>1, <2>2, TickIs DEF RegistryInv
<1>2. ASSUME NEW a \in Users, SendKey(a) PROVE RegistryInv'
  <2>1. registry \in Registries /\ GoodLists(registry)
    BY DEF RegistryInv
  <2>2. GoodLists(registry)'
    BY <1>2, <2>1, SendKeyIs DEF GoodLists
  <2> QED BY <1>2, <2>1, <2>2, SendKeyIs DEF RegistryInv
<1>3. ASSUME NEW a \in Users, SendTx(a) PROVE RegistryInv'
  <2>1. CASE Accepted(a)
    <3>1. registry' = Effect(a)
      BY <1>3, <2>1 DEF SendTx
    <3>2. Effect(a) \in Registries /\ GoodLists(Effect(a))
      BY <2>1, EffectKeeps
    <3> QED BY <3>1, <3>2 DEF RegistryInv, GoodLists
  <2>2. CASE ~Accepted(a)
    BY <1>3, <2>2 DEF SendTx, RegistryInv, GoodLists
  <2> QED BY <2>1, <2>2
<1>4. ASSUME UNCHANGED registry PROVE RegistryInv'
  BY <1>4 DEF RegistryInv, GoodLists
<1>5. ASSUME NEW a \in Users,
             Pursue(a) \/ Stray(a) \/ RunCheck(a) \/ BuildDeregister(a) \/ BuildAccept(a)
             \/ ReadWeight(a) \/ ReadHints(a) \/ BuildReorder(a)
             \/ BuildNothing(a) \/ Cut(a)
      PROVE  UNCHANGED registry
  BY <1>5 DEF Pursue, Stray, RunCheck, BuildDeregister, BuildAccept, ReadWeight,
              ReadHints, BuildReorder, BuildNothing, Cut, Reads
<1>6. UNCHANGED validatorsVars => UNCHANGED registry
  BY DEF validatorsVars
<1> QED BY <1>1, <1>2, <1>3, <1>4, <1>5, <1>6, RegistryByVote
        DEF ValidatorsNext, Command, AtRest

\* The records of the contracts and of the commands have their types.
THEOREM ValidatorsTypes == ValidatorsSpec => []ValidatorsTypeOK
<1>1. RegistryInv /\ RunsInv => ValidatorsTypeOK
  BY RunIs DEF RegistryInv, ValidatorsTypeOK
<1> QED BY <1>1, ValidatorsBegin, RegistryNext, RunsNext, PTL DEF ValidatorsSpec

-----------------------------------------------------------------------------
(* What a command knows as long as nobody else has changed anything.       *)

\* Every check so far would pass again and remember the same.
ChecksHold(a) ==
  \A i \in DOMAIN ChecksOf(run[a].command) : i < run[a].check =>
     /\ Passes(a, ChecksOf(run[a].command)[i])
     /\ run[a].seen = Remembers(a, ChecksOf(run[a].command)[i])

\* What the wrapper has looked up is right.
Prepared(a) ==
  LET r == run[a] IN
  /\ r.pc \in {"weight", "hints"} => r.to = 0 /\ Size(a) = 0
  /\ r.pc = "hints" => r.weight = registry.votes[a]
  /\ r.pc = "send" =>
       /\ r.command = "deregister" =>
            r.index \in DOMAIN registry.validators /\ registry.validators[r.index] = a
       /\ r.command = "deregisterGroup" =>
            r.index \in DOMAIN registry.groups /\ registry.groups[r.index] = a
       /\ r.command = "accept" =>
            r.to = Size(a) /\ (r.to = 0 => HintFits(a, r.hint))
       /\ r.command = "reorder" =>
            /\ r.arg \in Members(registry.members[a]) /\ r.to < Size(a)
            /\ r.hint = NewNeighbours(registry.members[a], r.arg, r.to)

Knowing(a) ==
  /\ run[a].pc \in {"weight", "hints", "send"} =>
       run[a].check > Len(ChecksOf(run[a].command))
  /\ run[a].pc \in {"weight", "hints"} => run[a].command = "accept"
  /\ run[a].fresh /\ run[a].pc \in {"checks", "weight", "hints", "send"} =>
       ChecksHold(a) /\ Prepared(a)

KnowingInv == \A a \in Users : Knowing(a)

\* The lists of checks.
LEMMA ChecksAre ==
  ASSUME NEW command \in ValidatorCommands
  PROVE  /\ Len(ChecksOf(command)) \in Nat
         /\ DOMAIN ChecksOf(command) = 1 .. Len(ChecksOf(command))
         /\ \A n \in DOMAIN ChecksOf(command) :
              ChecksOf(command)[n] \in {"readAffiliation", "readIfGroup"} =>
                \A i \in 1 .. n - 1 : ChecksOf(command)[i] = "isValidator"
<1>1. \/ ChecksOf(command) = <<"isNotValidator", "isNotValidatorGroup", "meetsBalance">>
      \/ ChecksOf(command) = <<"isValidator", "readAffiliation", "isNotMember", "leftLongAgo">>
      \/ ChecksOf(command) = <<"readIfGroup", "isGroup", "updatedLongAgo">>
      \/ ChecksOf(command) = <<"isValidator", "argIsGroup">>
      \/ ChecksOf(command) = <<"isValidator">>
      \/ ChecksOf(command) = <<"isGroup", "argIsValidator">>
      \/ ChecksOf(command) = <<"isQueued", "isDue">>
      \/ ChecksOf(command) = <<>>
  BY DEF ValidatorCommands, ChecksOf, RegisterChecks, GroupRegisterChecks, DeregisterChecks,
         GroupDeregisterChecks, AffiliateChecks, DeaffiliateChecks, MemberChecks,
         CommissionChecks
<1> QED BY <1>1

\* A command that nothing has happened to, but time, knows what it knew.
LEMMA StillKnowing ==
  ASSUME NEW a \in Users, a \in Accounts, Knowing(a),
         run'[a] = run[a], plan' = plan,
         registry'.list = registry.list, registry'.members = registry.members,
         registry'.validators = registry.validators, registry'.groups = registry.groups,
         registry'.affiliation = registry.affiliation, registry'.votes = registry.votes,
         registry.left[a] > Duration => registry'.left[a] > Duration,
         registry.updated[a] > Duration => registry'.updated[a] > Duration,
         \/ registry'.commission[a] = registry.commission[a]
         \/ registry.commission[a] = "queued" /\ registry'.commission[a] = "due"
  PROVE  Knowing(a)'
<1>1. ASSUME NEW check, Passes(a, check) PROVE Passes(a, check)'
  BY <1>1 DEF Passes, IsValidator, IsGroup, IsMember, LongAgo
<1>2. ASSUME NEW check PROVE Remembers(a, check)' = Remembers(a, check)
  BY DEF Remembers, IsGroup
<1>3. ChecksHold(a) => ChecksHold(a)'
  BY <1>1, <1>2 DEF ChecksHold
<1>4. Prepared(a) => Prepared(a)'
  BY DEF Prepared, Size, HintFits
<1> QED BY <1>3, <1>4 DEF Knowing

\* Enough is known that a transaction is accepted, if not for the rules that
\* no check looks at.
LEMMA KnowingSuffices ==
  ASSUME RegistryInv, RunsInv, NEW a \in Users, Knowing(a),
         run[a].pc = "send", run[a].fresh
  PROVE  Accepted(a) \/ Unchecked(a)
<1> DEFINE r == run[a]
           checks == ChecksOf(r.command)
           P(check) == Passes(a, check)
<1>1. /\ r.command \in ValidatorCommands /\ a \in Accounts /\ Nobody \notin Accounts
      /\ r.check \in Nat /\ r.check > Len(checks) /\ ChecksHold(a) /\ Prepared(a)
      /\ plan[a].locked \in Nat /\ Value \in Nat /\ Duration \in Nat
      /\ MaxGroupSize \in Nat
      /\ registry.members \in [Accounts -> Seq(Accounts)]
      /\ r.arg \in Accounts \cup {Nobody} /\ r.to \in Nat
  BY RunIs, ValidatorsAssumption DEF RunsInv, Knowing, Goals, RegistryInv, Registries
<1>2. \A i \in DOMAIN checks : Passes(a, checks[i]) /\ r.seen = Remembers(a, checks[i])
  BY <1>1, ChecksAre DEF ChecksHold
<1>3. Size(a) \in Nat
  BY <1>1 DEF Size
<1>4. CASE r.command \in {"register", "registerGroup"}
  <2>1. checks = <<"isNotValidator", "isNotValidatorGroup", "meetsBalance">>
    BY <1>4 DEF ChecksOf, RegisterChecks, GroupRegisterChecks
  <2>2. Passes(a, "isNotValidator") /\ Passes(a, "isNotValidatorGroup")
    BY <1>2, <2>1
  <2>3. ~IsValidator(a) /\ ~IsGroup(a)
    BY <2>2 DEF Passes
  <2> QED BY <1>1, <1>4, <2>3 DEF Accepted, Unchecked
<1>5. CASE r.command = "deregister"
  <2>1. checks = <<"isValidator", "readAffiliation", "isNotMember", "leftLongAgo">>
    BY <1>5 DEF ChecksOf, DeregisterChecks
  <2>2. /\ Passes(a, "isNotMember") /\ Passes(a, "leftLongAgo")
        /\ r.seen = Remembers(a, "readAffiliation")
    BY <1>2, <2>1
  <2>3. /\ r.seen = registry.affiliation[a]
        /\ r.seen # Nobody => ~IsMember(a, r.seen)
        /\ registry.left[a] > Duration
    BY <2>2 DEF Passes, Remembers, LongAgo
  <2>4. r.index \in DOMAIN registry.validators /\ registry.validators[r.index] = a
    BY <1>1, <1>5 DEF Prepared
  <2> QED BY <1>5, <2>3, <2>4 DEF Accepted, IsMember
<1>6. CASE r.command = "affiliate"
  <2>1. checks = <<"isValidator", "argIsGroup">>
    BY <1>6 DEF ChecksOf, AffiliateChecks
  <2>2. Passes(a, "isValidator") /\ Passes(a, "argIsGroup")
    BY <1>2, <2>1
  <2> QED BY <1>6, <2>2 DEF Accepted, Passes
<1>7. CASE r.command = "deaffiliate"
  <2>1. checks = <<"isValidator">>
    BY <1>7 DEF ChecksOf, DeaffiliateChecks
  <2>2. Passes(a, "isValidator")
    BY <1>2, <2>1
  <2>3. IsValidator(a)
    BY <2>2 DEF Passes
  <2> QED BY <1>7, <2>3 DEF Accepted, Unchecked
<1>8. CASE r.command = "deregisterGroup"
  <2>1. checks = <<"readIfGroup", "isGroup", "updatedLongAgo">>
    BY <1>8 DEF ChecksOf, GroupDeregisterChecks
  <2>2. /\ r.seen = Remembers(a, "readIfGroup") /\ Passes(a, "isGroup")
        /\ Passes(a, "updatedLongAgo")
    BY <1>2, <2>1
  <2>3. IsGroup(a)
    BY <2>2 DEF Passes
  <2>4. r.seen = a
    BY <2>2, <2>3 DEF Remembers
  <2>5. registry.updated[a] > Duration
    BY <2>2, <2>4 DEF Passes, LongAgo
  <2>6. r.index \in DOMAIN registry.groups /\ registry.groups[r.index] = a
    BY <1>1, <1>8 DEF Prepared
  <2> QED BY <1>3, <1>8, <2>5, <2>6 DEF Accepted, Unchecked
<1>9. CASE r.command \in {"accept", "remove", "reorder"}
  <2>1. checks = <<"isGroup", "argIsValidator">>
    BY <1>9 DEF ChecksOf, MemberChecks
  <2>2. Passes(a, "isGroup") /\ Passes(a, "argIsValidator")
    BY <1>2, <2>1
  <2>3. IsGroup(a) /\ IsValidator(r.arg)
    BY <2>2 DEF Passes
  <2>4. CASE r.command = "accept"
    <3>1. r.to = Size(a) /\ (r.to = 0 => HintFits(a, r.hint))
      BY <1>1, <2>4 DEF Prepared
    <3>2. IF r.to = 0 THEN Size(a) = 0 /\ HintFits(a, r.hint) ELSE Size(a) > 0
      BY <1>3, <3>1
    <3>3. Value * (Size(a) + 1) \in Nat
      BY <1>1, <1>3
    <3>4. plan[a].locked >= Value * (Size(a) + 1) \/ plan[a].locked < Value * (Size(a) + 1)
      <4> HIDE DEF r
      <4> QED BY <1>1, <3>3
    <3>5. Size(a) < MaxGroupSize \/ Size(a) >= MaxGroupSize
      BY <1>1, <1>3
    <3> QED BY <2>3, <2>4, <3>2, <3>4, <3>5 DEF Accepted, Unchecked
  <2>5. CASE r.command = "remove"
    BY <2>3, <2>5 DEF Accepted, Unchecked
  <2>6. CASE r.command = "reorder"
    <3>1. /\ r.arg \in Members(registry.members[a]) /\ r.to < Len(registry.members[a])
          /\ r.hint = NewNeighbours(registry.members[a], r.arg, r.to)
      BY <1>1, <2>6 DEF Prepared, Size
    <3>2. Distinct(registry.members[a]) /\ registry.members[a] \in Seq(Accounts)
      BY <1>1 DEF RegistryInv, GoodLists
    <3>3. Between(Rest(registry.members[a], r.arg), r.hint) = {r.to}
      BY <1>1, <3>1, <3>2, NeighboursAre
    <3>4. IsMember(r.arg, a)
      BY <1>1, <3>1 DEF IsMember
    <3> QED BY <2>3, <2>6, <3>3, <3>4 DEF Accepted
  <2> QED BY <1>9, <2>4, <2>5, <2>6
<1>10. CASE r.command = "queueUpdate"
  BY <1>10 DEF Accepted, Unchecked
<1>11. CASE r.command = "apply"
  <2>1. checks = <<"isQueued", "isDue">>
    BY <1>11 DEF ChecksOf, CommissionChecks
  <2>2. Passes(a, "isQueued") /\ Passes(a, "isDue")
    BY <1>2, <2>1
  <2>3. IsGroup(a) /\ registry.commission[a] = "due"
    BY <2>2 DEF Passes
  <2> QED BY <1>11, <2>3 DEF Accepted
<1> QED BY <1>1, <1>4, <1>5, <1>6, <1>7, <1>8, <1>9, <1>10, <1>11 DEF ValidatorCommands

\* Who runs no command, or has sent its transaction, knows nothing.
LEMMA NothingKnown ==
  ASSUME NEW a \in Users, run'[a].pc \in {"idle", "key"}
  PROVE  Knowing(a)'
BY DEF Knowing

\* A check that passed passes again, if nothing that it looks at has changed.
LEMMA PassesAgain ==
  ASSUME NEW a \in Users, registry' = registry, plan' = plan, run'[a].arg = run[a].arg,
         NEW check, Passes(a, check),
         \/ run'[a].seen = run[a].seen
         \/ check \in {"readAffiliation", "readIfGroup", "isValidator"}
  PROVE  Passes(a, check)'
<1>1. CASE run'[a].seen = run[a].seen
  BY <1>1 DEF Passes, IsValidator, IsGroup, IsMember
<1>2. CASE check \in {"readAffiliation", "readIfGroup", "isValidator"}
  BY <1>2 DEF Passes, IsValidator
<1> QED BY <1>1, <1>2

\* What a check reads it would read again, and the others read nothing.
LEMMA RemembersAgain ==
  ASSUME NEW a \in Users, registry' = registry, NEW check
  PROVE  /\ check \in {"readAffiliation", "readIfGroup"} =>
              Remembers(a, check)' = Remembers(a, check)
         /\ check \notin {"readAffiliation", "readIfGroup"} =>
              /\ Remembers(a, check) = run[a].seen
              /\ Remembers(a, check)' = run'[a].seen
BY DEF Remembers, IsGroup

\* The check that passes is one of those that would pass again.
LEMMA KnowingByCheck ==
  ASSUME RegistryInv, RunsInv, NEW a \in Users, Knowing(a), RunCheck(a)
  PROVE  Knowing(a)'
<1>1. PICK cs, n, check :
        cs = ChecksOf(run[a].command) /\ n = run[a].check /\ check = cs[n]
  OBVIOUS
<1>2. /\ run[a].pc = "checks" /\ n \in DOMAIN cs
      /\ run' = [run EXCEPT ![a] = IF Passes(a, check)
                                   THEN [run[a] EXCEPT !.check = run[a].check + 1,
                                                       !.seen = Remembers(a, check)]
                                   ELSE Idle]
      /\ plan' = plan /\ registry' = registry
  BY <1>1 DEF RunCheck, Reads
<1>3. /\ run[a] \in Runs /\ n \in Nat /\ DOMAIN run = Users
      /\ run[a].command \in ValidatorCommands
  BY <1>1, <1>2, RunIs DEF RunsInv
<1>4. CASE ~Passes(a, check)
  <2>1. run'[a] = Idle
    BY <1>2, <1>3, <1>4
  <2> QED BY <2>1, IdleIs, NothingKnown
<1>5. CASE Passes(a, check)
  <2>1. run'[a] = [run[a] EXCEPT !.check = run[a].check + 1, !.seen = Remembers(a, check)]
    BY <1>2, <1>3, <1>5
  <2>2. /\ run'[a].check = n + 1 /\ run'[a].seen = Remembers(a, check)
        /\ run'[a].pc = "checks" /\ run'[a].command = run[a].command
        /\ run'[a].fresh = run[a].fresh /\ run'[a].arg = run[a].arg
    <3>1. PICK m, s : m = run[a].check + 1 /\ s = Remembers(a, check)
      OBVIOUS
    <3>2. run'[a] = [run[a] EXCEPT !.check = m, !.seen = s]
      BY <2>1, <3>1
    <3> QED BY <1>1, <1>2, <1>3, <3>1, <3>2 DEF Runs
  <2>3. ASSUME run[a].fresh PROVE ChecksHold(a)'
    <3>1. ChecksHold(a)
      BY <1>2, <2>3 DEF Knowing
    <3>2. /\ Len(cs) \in Nat /\ DOMAIN cs = 1 .. Len(cs)
          /\ check \in {"readAffiliation", "readIfGroup"} =>
               \A j \in 1 .. n - 1 : cs[j] = "isValidator"
      BY <1>1, <1>2, <1>3, ChecksAre
    <3>3. ASSUME NEW i \in DOMAIN cs, i < n + 1, NEW c, c = cs[i]
          PROVE  Passes(a, c)' /\ run'[a].seen = Remembers(a, c)'
      <4>1. CASE i = n
        <5>1. c = check
          BY <1>1, <3>3, <4>1
        <5>2. CASE check \in {"readAffiliation", "readIfGroup"}
          BY <1>2, <1>5, <2>2, <5>1, <5>2, PassesAgain, RemembersAgain
        <5>3. CASE check \notin {"readAffiliation", "readIfGroup"}
          BY <1>2, <1>5, <2>2, <5>1, <5>3, PassesAgain, RemembersAgain
        <5> QED BY <5>2, <5>3
      <4>2. CASE i # n
        <5>1. i < n /\ i \in 1 .. n - 1
          BY <1>3, <3>2, <3>3, <4>2
        <5>2. Passes(a, c) /\ run[a].seen = Remembers(a, c)
          BY <1>1, <3>1, <3>3, <5>1 DEF ChecksHold
        <5>3. CASE check \in {"readAffiliation", "readIfGroup"}
          <6>1. c = "isValidator"
            BY <3>2, <3>3, <5>1, <5>3
          <6> QED BY <1>2, <2>2, <5>2, <6>1, PassesAgain, RemembersAgain
        <5>4. CASE check \notin {"readAffiliation", "readIfGroup"}
          <6>1. run'[a].seen = run[a].seen
            BY <1>2, <2>2, <5>4, RemembersAgain
          <6>2. Passes(a, c)'
            BY <1>2, <2>2, <5>2, <6>1, PassesAgain
          <6>3. run'[a].seen = Remembers(a, c)'
            BY <1>2, <5>2, <6>1, RemembersAgain
          <6> QED BY <6>2, <6>3
        <5> QED BY <5>3, <5>4
      <4> QED BY <4>1, <4>2
    <3>4. cs = ChecksOf(run'[a].command)
      BY <1>1, <2>2
    <3>5. \A i \in DOMAIN cs : i < n + 1 =>
            Passes(a, cs[i])' /\ run'[a].seen = Remembers(a, cs[i])'
      BY <3>3
    <3> QED BY <2>2, <3>4, <3>5 DEF ChecksHold
  <2>4. Prepared(a)'
    BY <2>2 DEF Prepared
  <2> QED BY <2>2, <2>3, <2>4 DEF Knowing
<1> QED BY <1>4, <1>5

\* The checks of a command stay what they are when it goes on to its transaction.
LEMMA ChecksStay ==
  ASSUME NEW a \in Users, registry' = registry, plan' = plan,
         run'[a].command = run[a].command, run'[a].check = run[a].check,
         run'[a].seen = run[a].seen, run'[a].arg = run[a].arg
  PROVE  ChecksHold(a) => ChecksHold(a)'
<1>1. ASSUME NEW check, Passes(a, check) PROVE Passes(a, check)'
  BY <1>1 DEF Passes, IsValidator, IsGroup, IsMember
<1>2. ASSUME NEW check PROVE run[a].seen = Remembers(a, check)
                             => run'[a].seen = Remembers(a, check)'
  BY DEF Remembers, IsGroup
<1> QED BY <1>1, <1>2 DEF ChecksHold

\* What the wrapper looks up for a transaction is right at that moment.
LEMMA KnowingByBuild ==
  ASSUME RegistryInv, RunsInv, NEW a \in Users, Knowing(a),
         BuildDeregister(a) \/ BuildAccept(a) \/ ReadWeight(a) \/ ReadHints(a)
         \/ BuildReorder(a) \/ BuildNothing(a)
  PROVE  Knowing(a)'
<1>1. /\ a \in Accounts /\ Nobody \notin Accounts
      /\ run[a] \in Runs /\ DOMAIN run = Users /\ run[a].check \in Nat /\ run[a].to \in Nat
      /\ registry' = registry /\ plan' = plan
      /\ run[a].pc \in {"checks", "weight", "hints"}
  BY RunIs, ValidatorsAssumption
     DEF Reads, Built, BuildDeregister, BuildAccept, ReadWeight, ReadHints, BuildReorder, BuildNothing
<1>2. /\ registry.list \in Seq(Accounts) /\ registry.members[a] \in Seq(Accounts)
      /\ registry.validators \in Seq(Accounts) /\ registry.groups \in Seq(Accounts)
      /\ registry.votes \in [Accounts -> Nat]
  BY <1>1 DEF RegistryInv, Registries
<1>3. run[a].check > Len(ChecksOf(run[a].command))
  BY DEF Knowing, Built, BuildDeregister, BuildAccept, ReadWeight, ReadHints,
         BuildReorder, BuildNothing
\* It is enough that what is looked up is right.
<1>4. ASSUME run'[a].pc \in {"weight", "hints", "send"},
             run'[a].pc \in {"weight", "hints"} => run'[a].command = "accept",
             run'[a].command = run[a].command, run'[a].check = run[a].check,
             run'[a].seen = run[a].seen, run'[a].arg = run[a].arg,
             run'[a].fresh = run[a].fresh,
             run[a].fresh => Prepared(a)'
      PROVE  Knowing(a)'
  <2>1. run[a].fresh => ChecksHold(a)
    BY <1>1 DEF Knowing
  <2>2. run[a].fresh => ChecksHold(a)'
    BY <1>1, <1>4, <2>1, ChecksStay
  <2> QED BY <1>3, <1>4, <2>2 DEF Knowing
<1>5. ASSUME run'[a] = Idle PROVE Knowing(a)'
  BY <1>5, IdleIs, NothingKnown
<1>6. CASE BuildDeregister(a)
  <2>1. PICK entries, index :
          /\ entries = IF run[a].command = "deregister" THEN registry.validators
                       ELSE registry.groups
          /\ index = FindAddressIndex(a, entries)
    OBVIOUS
  <2>2. /\ run[a].command \in {"deregister", "deregisterGroup"}
        /\ run' = [run EXCEPT ![a] = IF index = 0 THEN Idle
                               ELSE [run[a] EXCEPT !.pc = "send", !.index = index]]
    BY <1>6, <2>1 DEF BuildDeregister
  <2>3. CASE index = 0
    <3>1. run'[a] = Idle
      BY <1>1, <2>2, <2>3
    <3> QED BY <1>5, <3>1
  <2>4. CASE index # 0
    <3>1. run'[a] = [run[a] EXCEPT !.pc = "send", !.index = index]
      BY <1>1, <2>2, <2>4
    <3>2. /\ run'[a].pc = "send" /\ run'[a].index = index
          /\ run'[a].command = run[a].command /\ run'[a].check = run[a].check
          /\ run'[a].seen = run[a].seen /\ run'[a].arg = run[a].arg
          /\ run'[a].fresh = run[a].fresh
      BY <1>1, <3>1 DEF Runs
    <3>3. entries \in Seq(Accounts) /\ a \in Members(entries) /\ index = PlaceOf(entries, a)
      BY <1>2, <2>1, <2>4 DEF FindAddressIndex
    <3>4. index \in DOMAIN entries /\ entries[index] = a
      BY <3>3, PlaceOfMember
    <3>5. Prepared(a)'
      BY <1>1, <2>1, <2>2, <3>2, <3>4 DEF Prepared
    <3> QED BY <1>4, <3>2, <3>5
  <2> QED BY <2>3, <2>4
<1>7. CASE BuildAccept(a)
  <2>1. PICK stage, size : stage = (IF Size(a) = 0 THEN "weight" ELSE "send") /\ size = Size(a)
    OBVIOUS
  <2>2. run[a].command = "accept" /\ run' = [run EXCEPT ![a].pc = stage, ![a].to = size]
    BY <1>7, <2>1 DEF BuildAccept
  <2>3. run'[a] = [run[a] EXCEPT !.pc = stage, !.to = size]
    BY <1>1, <2>2
  <2>4. /\ run'[a].pc = stage /\ run'[a].to = size
        /\ run'[a].command = run[a].command /\ run'[a].check = run[a].check
        /\ run'[a].seen = run[a].seen /\ run'[a].arg = run[a].arg
        /\ run'[a].fresh = run[a].fresh
    BY <1>1, <2>3 DEF Runs
  <2>5. Prepared(a)'
    BY <1>1, <2>1, <2>2, <2>4 DEF Prepared, Size
  <2>6. stage \in {"weight", "send"}
    BY <2>1
  <2> QED BY <1>4, <2>2, <2>4, <2>5, <2>6
<1>11. CASE ReadWeight(a)
  <2>1. PICK w \in Nat : w = registry.votes[a]
    BY <1>1, <1>2
  <2>2. /\ run[a].pc = "weight" /\ run[a].command = "accept"
        /\ run' = [run EXCEPT ![a].pc = "hints", ![a].weight = w]
    BY <1>11, <2>1 DEF ReadWeight, Knowing
  <2>3. run'[a] = [run[a] EXCEPT !.pc = "hints", !.weight = w]
    BY <1>1, <2>2
  <2>4. /\ run'[a].pc = "hints" /\ run'[a].weight = w /\ run'[a].to = run[a].to
        /\ run'[a].command = run[a].command /\ run'[a].check = run[a].check
        /\ run'[a].seen = run[a].seen /\ run'[a].arg = run[a].arg
        /\ run'[a].fresh = run[a].fresh
    BY <1>1, <2>3 DEF Runs
  <2>5. ASSUME run[a].fresh PROVE Prepared(a)'
    <3>1. run[a].to = 0 /\ Size(a) = 0
      BY <2>2, <2>5 DEF Knowing, Prepared
    <3> QED BY <1>1, <2>1, <2>4, <3>1 DEF Prepared, Size
  <2> QED BY <1>4, <2>2, <2>4, <2>5
<1>8. CASE ReadHints(a)
  <2>1. PICK h : h = LesserAndGreater(registry.list, registry.votes, a, run[a].weight)
    OBVIOUS
  <2>2. /\ run[a].pc = "hints" /\ run[a].command = "accept"
        /\ run' = [run EXCEPT ![a].pc = "send", ![a].hint = h]
    BY <1>8, <2>1 DEF ReadHints, Knowing
  <2>3. run'[a] = [run[a] EXCEPT !.pc = "send", !.hint = h]
    BY <1>1, <2>2
  <2>4. /\ run'[a].pc = "send" /\ run'[a].hint = h /\ run'[a].to = run[a].to
        /\ run'[a].command = run[a].command /\ run'[a].check = run[a].check
        /\ run'[a].seen = run[a].seen /\ run'[a].arg = run[a].arg
        /\ run'[a].fresh = run[a].fresh
    BY <1>1, <2>3 DEF Runs
  <2>5. ASSUME run[a].fresh PROVE Prepared(a)'
    <3>1. run[a].to = 0 /\ Size(a) = 0 /\ run[a].weight = registry.votes[a]
      BY <2>2, <2>5 DEF Knowing, Prepared
    <3>2. registry.members[a] = <<>>
      BY <1>2, <3>1, EmptySeq DEF Size
    <3>3. a \notin Members(registry.list)
      BY <3>2 DEF RegistryInv, GoodLists
    <3>4. registry.votes \in [Accounts -> Int] /\ registry.votes[a] \in Int
      BY <1>1, <1>2
    <3>5. HintFits(a, h)
      <4>1. PICK s, v : s = registry.list /\ v = registry.votes
        OBVIOUS
      <4>2. /\ h.lesser # Nobody \/ h.greater # Nobody \/ s = <<>>
            /\ {h.lesser, h.greater} \subseteq Members(s) \cup {Nobody}
            /\ Places(s, v, v[a], h) # {}
        <5>1. s \in Seq(Accounts) /\ v \in [Accounts -> Int] /\ v[a] \in Int
              /\ a \notin Members(s) /\ h = LesserAndGreater(s, v, a, v[a])
          BY <1>2, <2>1, <3>1, <3>3, <3>4, <4>1
        <5>2. PICK w \in Int : w = v[a]
          BY <5>1
        <5>3. h = LesserAndGreater(s, v, a, w)
          BY <5>1, <5>2
        <5>4. Places(s, v, w, h) # {} /\ (h.lesser # Nobody \/ h.greater # Nobody \/ s = <<>>)
              /\ {h.lesser, h.greater} \subseteq Members(s) \cup {Nobody}
          BY ONLY <1>1, <5>1, <5>3, HintsOfNewcomer
        <5> QED BY <5>2, <5>4
      <4>3. None.lesser = Nobody /\ None.greater = Nobody
        BY DEF None
      <4> QED BY <4>1, <4>2, <4>3 DEF HintFits
    <3>6. HintFits(a, h)'
      BY <1>1, <3>5 DEF HintFits
    <3> QED BY <1>1, <2>2, <2>4, <3>1, <3>6 DEF Prepared, Size
  <2> QED BY <1>4, <2>4, <2>5
<1>9. CASE BuildReorder(a)
  <2>1. PICK ms, h :
          /\ ms = IF IsGroup(a) THEN registry.members[a] ELSE <<>>
          /\ h = NewNeighbours(ms, run[a].arg, run[a].to)
    OBVIOUS
  <2>2. /\ run[a].command = "reorder"
        /\ run' = [run EXCEPT ![a] = IF /\ run[a].to < Len(ms) /\ run[a].arg \in Members(ms)
                                        /\ PlaceOf(ms, run[a].arg) # run[a].to + 1
                                     THEN [run[a] EXCEPT !.pc = "send", !.hint = h]
                                     ELSE Idle]
    BY <1>9, <2>1 DEF BuildReorder
  <2>3. CASE run'[a] = Idle
    BY <1>5, <2>3
  <2>4. CASE run'[a] # Idle
    <3>1. /\ run'[a] = [run[a] EXCEPT !.pc = "send", !.hint = h]
          /\ run[a].to < Len(ms) /\ run[a].arg \in Members(ms)
      BY <1>1, <2>2, <2>4
    <3>2. /\ run'[a].pc = "send" /\ run'[a].hint = h /\ run'[a].to = run[a].to
          /\ run'[a].command = run[a].command /\ run'[a].check = run[a].check
          /\ run'[a].seen = run[a].seen /\ run'[a].arg = run[a].arg
          /\ run'[a].fresh = run[a].fresh
      BY <1>1, <3>1 DEF Runs
    <3>3. ms = registry.members[a]
      BY <2>1, <3>1 DEF Members
    <3>4. Prepared(a)'
      BY <1>1, <2>1, <2>2, <3>1, <3>2, <3>3 DEF Prepared, Size
    <3> QED BY <1>4, <3>2, <3>4
  <2> QED BY <2>3, <2>4
<1>10. CASE BuildNothing(a)
  <2>1. /\ run[a].command \notin {"deregister", "deregisterGroup", "accept", "reorder"}
        /\ run' = [run EXCEPT ![a].pc = "send"]
    BY <1>10 DEF BuildNothing
  <2>2. run'[a] = [run[a] EXCEPT !.pc = "send"]
    BY <1>1, <2>1
  <2>3. /\ run'[a].pc = "send"
        /\ run'[a].command = run[a].command /\ run'[a].check = run[a].check
        /\ run'[a].seen = run[a].seen /\ run'[a].arg = run[a].arg
        /\ run'[a].fresh = run[a].fresh
    BY <1>1, <2>2 DEF Runs
  <2>4. Prepared(a)'
    BY <2>1, <2>3 DEF Prepared
  <2> QED BY <1>4, <2>3, <2>4
<1> QED BY <1>6, <1>7, <1>8, <1>9, <1>10, <1>11

\* A command that starts has checked nothing yet.
LEMMA KnowingByStart ==
  ASSUME RegistryInv, RunsInv, NEW a \in Users, Pursue(a) \/ Stray(a)
  PROVE  Knowing(a)'
<1>1. PICK command \in ValidatorCommands, arg \in Accounts \cup {Nobody}, to \in Nat :
        StartCommand(a, command, arg, to)
  <2>1. CASE Pursue(a)
    BY <2>1, WantsAre DEF Pursue
  <2>2. CASE Stray(a)
    BY <2>2, ValidatorsAssumption DEF Stray
  <2> QED BY <2>1, <2>2
<1>2. run'[a] = [Idle EXCEPT !.pc = "checks", !.command = command, !.arg = arg, !.to = to]
  BY <1>1, RunIs DEF StartCommand
<1>3. run'[a].pc = "checks" /\ run'[a].check = 1 /\ run'[a].command = command
  BY <1>2 DEF Idle
<1>4. ChecksHold(a)'
  <2>1. /\ Len(ChecksOf(command)) \in Nat
        /\ DOMAIN ChecksOf(command) = 1 .. Len(ChecksOf(command))
    BY ChecksAre
  <2>2. \A i \in DOMAIN ChecksOf(command) : ~(i < 1)
    BY <2>1
  <2> QED BY <1>3, <2>2 DEF ChecksHold
<1>5. Prepared(a)'
  BY <1>3 DEF Prepared
<1> QED BY <1>3, <1>4, <1>5 DEF Knowing

\* What anybody else does leaves a command as it is or makes it unfresh.
LEMMA KnowingByOther ==
  ASSUME RegistryInv, RunsInv, NEW a \in Users, NEW b \in Users, a # b, Knowing(a),
         Pursue(b) \/ Stray(b) \/ Command(b) \/ Cut(b)
  PROVE  Knowing(a)'
<1>1. DOMAIN run = Users /\ a \in Accounts /\ registry \in Registries
  BY RunIs, ValidatorsAssumption DEF RegistryInv
<1>2. ASSUME registry' = registry, plan' = plan, NEW x, run' = [run EXCEPT ![b] = x]
      PROVE  Knowing(a)'
  <2>1. run'[a] = run[a]
    BY <1>1, <1>2
  <2> QED BY <1>1, <1>2, <2>1, StillKnowing
<1>3. CASE Pursue(b) \/ Stray(b)
  <2>1. PICK command, arg, to : StartCommand(b, command, arg, to)
    BY <1>3 DEF Pursue, Stray
  <2>2. registry' = registry /\ plan' = plan
    BY <1>3 DEF Pursue, Stray, Reads
  <2> QED BY <1>2, <2>1, <2>2 DEF StartCommand
<1>4. CASE RunCheck(b) \/ BuildDeregister(b) \/ BuildReorder(b) \/ Cut(b)
  <2>1. registry' = registry /\ plan' = plan
    BY <1>4 DEF RunCheck, BuildDeregister, BuildReorder, Cut, Reads
  <2>2. \E x : run' = [run EXCEPT ![b] = x]
    BY <1>4 DEF RunCheck, BuildDeregister, BuildReorder, Cut
  <2> QED BY <1>2, <2>1, <2>2
<1>5. CASE BuildAccept(b) \/ ReadWeight(b) \/ ReadHints(b) \/ BuildNothing(b)
  <2>1. registry' = registry /\ plan' = plan
    BY <1>5 DEF BuildAccept, ReadWeight, ReadHints, BuildNothing, Reads
  <2>2. run'[a] = run[a]
    BY <1>1, <1>5 DEF BuildAccept, ReadWeight, ReadHints, BuildNothing
  <2> QED BY <1>1, <2>1, <2>2, StillKnowing
<1>6. CASE SendTx(b)
  <2>1. plan' = plan
    BY <1>6 DEF SendTx
  <2>2. CASE Accepted(b)
    <3>1. run'[a] = [run[a] EXCEPT !.fresh = FALSE]
      BY <1>6, <2>2 DEF SendTx, Unfresh
    <3>2. /\ run'[a].fresh = FALSE /\ run'[a].pc = run[a].pc
          /\ run'[a].command = run[a].command /\ run'[a].check = run[a].check
      BY <3>1, RunIs DEF Runs
    <3> QED BY <3>2 DEF Knowing
  <2>3. CASE ~Accepted(b)
    BY <1>2, <1>6, <2>1, <2>3 DEF SendTx
  <2> QED BY <2>2, <2>3
<1>7. CASE SendKey(b)
  <2>1. plan' = plan /\ run'[a] = run[a]
    BY <1>1, <1>7 DEF SendKey
  <2> QED BY <1>1, <1>7, <2>1, SendKeyIs, StillKnowing
<1> QED BY <1>3, <1>4, <1>5, <1>6, <1>7 DEF Command

LEMMA KnowingNext ==
  RegistryInv /\ RunsInv /\ KnowingInv /\ [ValidatorsNext]_validatorsVars => KnowingInv'
<1> SUFFICES ASSUME RegistryInv, RunsInv, KnowingInv, [ValidatorsNext]_validatorsVars,
                    NEW a \in Users
             PROVE  Knowing(a)'
  BY DEF KnowingInv
<1>1. Knowing(a) /\ a \in Accounts /\ registry \in Registries /\ DOMAIN run = Users
  BY RunIs, ValidatorsAssumption DEF KnowingInv, RegistryInv
<1>2. ASSUME NEW b \in Users, Pursue(b) \/ Stray(b) \/ Command(b) \/ Cut(b)
      PROVE  Knowing(a)'
  <2>1. CASE a # b
    BY <1>1, <1>2, <2>1, KnowingByOther
  <2>2. CASE a = b
    <3>1. CASE Pursue(a) \/ Stray(a)
      BY <3>1, KnowingByStart
    <3>2. CASE RunCheck(a)
      BY <1>1, <3>2, KnowingByCheck
    <3>3. CASE BuildDeregister(a) \/ BuildAccept(a) \/ ReadWeight(a) \/ ReadHints(a)
               \/ BuildReorder(a) \/ BuildNothing(a)
      BY <1>1, <3>3, KnowingByBuild
    <3>4. CASE SendTx(a)
      <4>1. CASE Accepted(a)
        <5>1. run'[a] = IF run[a].command = "register" THEN [run[a] EXCEPT !.pc = "key"]
                        ELSE Idle
          BY <3>4, <4>1 DEF SendTx, Unfresh
        <5>2. run'[a].pc \in {"idle", "key"}
          BY <5>1, RunIs, IdleIs DEF Runs
        <5> QED BY <5>2, NothingKnown
      <4>2. CASE ~Accepted(a)
        <5>1. run'[a] = Idle
          BY <1>1, <3>4, <4>2 DEF SendTx
        <5> QED BY <5>1, IdleIs, NothingKnown
      <4> QED BY <4>1, <4>2
    <3>5. CASE SendKey(a) \/ Cut(a)
      <4>1. run'[a] = Idle
        BY <1>1, <3>5 DEF SendKey, Cut
      <4> QED BY <4>1, IdleIs, NothingKnown
    <3> QED BY <1>2, <2>2, <3>1, <3>2, <3>3, <3>4, <3>5 DEF Command
  <2> QED BY <2>1, <2>2
<1>3. ASSUME NEW group, VotesChange(group) PROVE Knowing(a)'
  <2>1. run'[a] = [run[a] EXCEPT !.fresh = FALSE]
    BY <1>3 DEF VotesChange
  <2>2. /\ run'[a].fresh = FALSE /\ run'[a].pc = run[a].pc
        /\ run'[a].command = run[a].command /\ run'[a].check = run[a].check
    BY <2>1, RunIs DEF Runs
  <2> QED BY <1>1, <2>2 DEF Knowing
<1>4. CASE Tick
  <2>1. /\ run'[a] = run[a] /\ plan' = plan
        /\ registry'.commission[a] = IF registry.commission[a] = "queued" THEN "due"
                                     ELSE registry.commission[a]
    BY <1>1, <1>4, TickIs
  <2> QED BY <1>1, <1>4, <2>1, TickIs, StillKnowing
<1>5. CASE UNCHANGED validatorsVars
  BY <1>1, <1>5, StillKnowing DEF validatorsVars
<1> QED BY <1>2, <1>3, <1>4, <1>5 DEF ValidatorsNext, AtRest

LEMMA KnowingBegins == ValidatorsInit => KnowingInv
BY DEF ValidatorsInit, KnowingInv, Knowing, Idle

\* What validators and groups check and look up before a transaction is
\* enough: it is reverted only if somebody else has changed something since the
\* command began, or if it breaks a rule that no check of the command looks at.
THEOREM TransactionsGoThrough == ValidatorsSpec => ChecksSuffice
<1>1. ASSUME RegistryInv, RunsInv, KnowingInv
      PROVE  \A a \in Users : SendTx(a) /\ ~Accepted(a) => ~run[a].fresh \/ Unchecked(a)
  BY <1>1, KnowingSuffices DEF SendTx, KnowingInv
<1> QED BY <1>1, ValidatorsBegin, RegistryNext, RunsNext, KnowingBegins, KnowingNext, PTL
        DEF ValidatorsSpec, ChecksSuffice

\* reorderMember puts a member where it was asked to, for every group and index,
\* if nobody else has changed anything since the command began.
THEOREM MembersComeToPlace == ValidatorsSpec => ReordersToPlace
<1>1. ASSUME RegistryInv, RunsInv, KnowingInv, NEW a \in Users, SendTx(a), Accepted(a),
             run[a].command = "reorder", run[a].fresh
      PROVE  registry'.members[a][run[a].to + 1] = run[a].arg
  <2>1. PICK ms, x, to, h, rest :
          /\ ms = registry.members[a] /\ x = run[a].arg /\ to = run[a].to /\ h = run[a].hint
          /\ rest = Rest(ms, x)
    OBVIOUS
  <2>2. /\ a \in Accounts /\ Nobody \notin Accounts /\ registry \in Registries
        /\ ms \in Seq(Accounts) /\ Distinct(ms) /\ to \in Nat
    BY <1>1, <2>1, RunIs, ValidatorsAssumption DEF RegistryInv, GoodLists, Registries
  <2>3. x \in Members(ms) /\ to < Len(ms) /\ h = NewNeighbours(ms, x, to)
    <3>1. Knowing(a) /\ run[a].pc = "send"
      BY <1>1 DEF KnowingInv, SendTx
    <3>2. Prepared(a)
      BY <1>1, <3>1 DEF Knowing
    <3> QED BY <1>1, <2>1, <3>1, <3>2 DEF Prepared, Size
  <2>4. Between(rest, h) = {to} /\ Len(rest) = Len(ms) - 1 /\ Len(ms) \in Nat
    BY <2>1, <2>2, <2>3, NeighboursAre, RestOf
  <2>5. (CHOOSE p \in Between(rest, h) : TRUE) = to
    BY <2>4
  <2>6. registry' = [registry EXCEPT !.members[a] = PutAt(rest, x, to)]
    <3>1. registry' = Effect(a)
      BY <1>1 DEF SendTx
    <3>2. Effect(a) = [registry EXCEPT !.members[a] =
                         PutAt(rest, x, CHOOSE p \in Between(rest, h) : TRUE)]
      BY <1>1, <2>1 DEF Effect
    <3> QED BY <2>5, <3>1, <3>2
  <2>7. PutAt(rest, x, to)[to + 1] = x
    BY <2>2, <2>3, <2>4 DEF PutAt
  <2>8. registry'.members[a] = PutAt(rest, x, to)
    BY <2>2, <2>6 DEF Registries
  <2> QED BY <2>1, <2>7, <2>8
<1>2. ASSUME RegistryInv, RunsInv, KnowingInv
      PROVE  \A a \in Users :
               LET r == run[a] IN
               (SendTx(a) /\ Accepted(a) /\ r.command = "reorder" /\ r.fresh) =>
                 registry'.members[a][r.to + 1] = r.arg
  BY <1>1, <1>2
<1> QED BY <1>2, ValidatorsBegin, RegistryNext, RunsNext, KnowingBegins, KnowingNext, PTL
        DEF ValidatorsSpec, ReordersToPlace
=============================================================================
