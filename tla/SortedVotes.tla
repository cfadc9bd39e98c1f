---------------------------- MODULE SortedVotes ----------------------------
(***************************************************************************)
(* The list of eligible validator groups, sorted from most to fewest       *)
(* votes, as the Election contract keeps it, and the hints that            *)
(* findLesserAndGreaterAfterVote of contractkit's Election wrapper         *)
(* computes so that the contract need not search the list.                 *)
(***************************************************************************)
EXTENDS Integers, Sequences, FiniteSets
CONSTANT Nobody   \* NULL_ADDRESS

Members(list) == {list[i] : i \in DOMAIN list}

\* The elements of s at the positions P, in their order.
Subsequence(s, P) ==
  [n \in 1 .. Cardinality(P) |->
     s[CHOOSE i \in P : Cardinality({j \in P : j <= i}) = n]]

\* The indexes of a list that hold other groups than the voted one.
Others(list, group) == {i \in DOMAIN list : list[i] # group}

\* A group that is not eligible is not in the list: only the weight counts.
VoteTotal(list, votes, group, weight) ==
  IF group \in Members(list) THEN votes[group] + weight ELSE weight

Below(list, votes, group, total) ==
  {i \in Others(list, group) : votes[list[i]] <= total}

\* Everything the loop passed before it found a group with fewer votes.
Above(list, votes, group, total) ==
  {i \in Others(list, group) : \A j \in Below(list, votes, group, total) : i < j}

First(S) == CHOOSE i \in S : \A j \in S : i <= j
Latest(S) == CHOOSE i \in S : \A j \in S : j <= i

\* MUTANT of LesserAndGreater: does not skip the voted group itself.
HintsWithSelf(list, votes, group, weight) ==
  LET total == VoteTotal(list, votes, group, weight)
      below == {i \in DOMAIN list : votes[list[i]] <= total}
      above == {i \in DOMAIN list : \A j \in below : i < j}
  IN [lesser  |-> IF below = {} THEN Nobody ELSE list[First(below)],
      greater |-> IF above = {} THEN Nobody ELSE list[Latest(above)]]

\* findLesserAndGreaterAfterVote.
LesserAndGreater(list, votes, group, weight) ==
  LET total == VoteTotal(list, votes, group, weight)
      below == Below(list, votes, group, total)
      above == Above(list, votes, group, total)
  IN [lesser  |-> IF below = {} THEN Nobody ELSE list[First(below)],
      greater |-> IF above = {} THEN Nobody ELSE list[Latest(above)]]

-----------------------------------------------------------------------------
(* External: SortedLinkedList of the Election contract.  A position p of a *)
(* list is the place after its p-th element.                               *)

Sorted(list, votes) ==
  \A i, j \in DOMAIN list : i < j => votes[list[i]] >= votes[list[j]]

PlaceOf(list, group) == CHOOSE i \in DOMAIN list : list[i] = group

\* The list after a group of it is removed.
Rest(list, group) ==
  [i \in 1 .. Len(list) - 1 |->
     list[IF i < PlaceOf(list, group) THEN i ELSE i + 1]]

Fits(rest, votes, total, p) ==
  /\ p > 0 => votes[rest[p]] >= total
  /\ p < Len(rest) => votes[rest[p + 1]] <= total

\* A hint is enough when one of its two ends names the right place.
Places(rest, votes, total, hint) ==
  {p \in 0 .. Len(rest) :
     /\ Fits(rest, votes, total, p)
     /\ \/ hint.lesser = Nobody /\ p = Len(rest)
        \/ hint.greater = Nobody /\ p = 0
        \/ p < Len(rest) /\ rest[p + 1] = hint.lesser
        \/ p > 0 /\ rest[p] = hint.greater}

Accepts(list, votes, group, total, hint) ==
  LET rest == Rest(list, group) IN
  /\ hint.lesser # Nobody \/ hint.greater # Nobody \/ rest = <<>>
  /\ {hint.lesser, hint.greater} \subseteq Members(rest) \cup {Nobody}
  /\ Places(rest, votes, total, hint) # {}

PutAt(rest, group, p) ==
  [i \in 1 .. Len(rest) + 1 |-> CASE i <= p     -> rest[i]
                                 [] i = p + 1  -> group
                                 [] OTHER      -> rest[i - 1]]
=============================================================================
