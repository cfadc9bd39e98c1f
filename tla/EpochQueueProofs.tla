-------------------------- MODULE EpochQueueProofs --------------------------
(***************************************************************************)
(* Theorems about Epochs, for any operators, groups, lists and rewards,    *)
(* and about GovernanceQueue, for any proposals, beginnings and commands:  *)
(* the two components that work out a place in a sorted list.              *)
(***************************************************************************)
EXTENDS Epochs, GovernanceQueue, SortedVotesProofs

-----------------------------------------------------------------------------
(* The groups that are left.                                               *)

\* Each elected group that is in no event, once.
LEMMA ElectedWithoutIs ==
  ASSUME NEW events
  PROVE  LET t == ElectedWithout(events) IN
         /\ t \in Seq(Groups) /\ Distinct(t)
         /\ Members(t) = Members(Elected) \ events
         /\ Len(t) = Cardinality(Members(Elected) \ events)
  <1> DEFINE P == {i \in DOMAIN Elected :
                     /\ \A j \in 1 .. i - 1 : Elected[j] # Elected[i]
                     /\ Elected[i] \notin events}
             t == ElectedWithout(events)
             M == Members(Elected) \ events
  <1>1. /\ Elected \in Seq(Groups) /\ Len(Elected) \in Nat
        /\ DOMAIN Elected = 1 .. Len(Elected)
    BY EpochsAssumption
  <1>2. P \in SUBSET (1 .. Len(Elected)) /\ t = Subsequence(Elected, P)
    BY <1>1 DEF ElectedWithout
  <1>3. \A i, j \in P : Elected[i] = Elected[j] => i = j
    <2> SUFFICES ASSUME NEW i \in P, NEW j \in P, Elected[i] = Elected[j], i # j
                 PROVE  FALSE
      OBVIOUS
    <2>1. i \in Nat \ {0} /\ j \in Nat \ {0}
      BY <1>1
    <2>2. i < j \/ j < i
      BY <2>1
    <2>3. i \in 1 .. j - 1 \/ j \in 1 .. i - 1
      BY <2>1, <2>2
    <2> QED BY <2>3
  <1>4. {Elected[i] : i \in P} = M
    <2>1. ASSUME NEW g \in M PROVE \E i \in P : g = Elected[i]
      <3> DEFINE I == {i \in DOMAIN Elected : Elected[i] = g}
      <3>1. I \in SUBSET Nat /\ I # {}
        BY <1>1 DEF Members
      <3>2. PICK i \in I : \A j \in I : i <= j
        <4> HIDE DEF I
        <4> QED BY <3>1, LeastNatural
      <3>3. \A j \in 1 .. i - 1 : j \in DOMAIN Elected /\ ~(i <= j)
        BY <1>1
      <3> QED BY <3>2, <3>3
    <2>2. \A i \in P : Elected[i] \in M
      BY DEF Members
    <2> QED BY <2>1, <2>2
  <1> HIDE DEF P, t
  <1>5. /\ t \in Seq(Groups) /\ IsFiniteSet(P) /\ Len(t) = Cardinality(P)
        /\ Members(t) = M /\ Distinct(t)
    BY <1>1, <1>2, <1>3, <1>4, SubsequenceIs
  <1>6. Cardinality(P) = Cardinality(M)
    <2> DEFINE f == [i \in P |-> Elected[i]]
    <2>1. f \in Bijection(P, M)
      BY <1>3, <1>4 DEF Bijection, Injection, IsInjective, Surjection
    <2>2. ExistsBijection(P, M)
      BY <2>1 DEF ExistsBijection
    <2> QED BY <1>5, <2>2, FS_Bijection
  <1> QED BY <1>5, <1>6 DEF t

-----------------------------------------------------------------------------
(* What is left to be processed.                                           *)

\* While an epoch is processed the groups that are left are the elected ones without
\* those that were processed after its first block; otherwise there are none of these.
Left ==
  /\ status # "none" => toProcess = Members(Elected) \ processed.later
  /\ status = "none" => processed.later = {}
  /\ processed = [first |-> processed.first, later |-> processed.later]

\* It holds at first.
LEMMA LeftInit == Init => Left
  BY DEF Init, Left

\* Whoever processes groups moves them from those that are left to the events.
LEMMA LeftByProcess ==
  ASSUME Left, status # "none", NEW groups, NEW hints, Process(groups, hints)
  PROVE  Left'
  <1>1. CASE EpochEnds(groups)
    BY <1>1 DEF EpochEnds, Left
  <1>2. CASE /\ toProcess' = toProcess \ Members(groups)
             /\ processed' = [processed EXCEPT !.later = @ \cup Members(groups)]
             /\ UNCHANGED <<epoch, due, status>>
    <2>1. /\ processed'.later = processed.later \cup Members(groups)
          /\ processed' = [first |-> processed'.first, later |-> processed'.later]
      BY <1>2 DEF Left
    <2> QED BY <1>2, <2>1 DEF Left
  <1> QED BY <1>1, <1>2 DEF Process

\* What begins an epoch's end finds no events; other steps leave this alone.
LEMMA LeftNext == Left /\ [Next]_vars => Left'
  <1> SUFFICES ASSUME Left, [Next]_vars PROVE Left'
    OBVIOUS
  <1>1. CASE UNCHANGED process
    BY <1>1 DEF process, Left
  <1>2. ASSUME NEW o \in Operators, SendGroups(o) PROVE Left'
    BY <1>1, <1>2, LeftByProcess DEF SendGroups, ProcessAccepted, FinishAccepted
  <1>3. ASSUME NEW g \in Groups, OtherProcesses(g) PROVE Left'
    BY <1>3, LeftByProcess DEF OtherProcesses
  <1>4. ASSUME NEW o \in Operators, SendStart(o) PROVE Left'
    BY <1>4 DEF SendStart, Left
  <1>5. ASSUME NEW o \in Operators, SetToProcessGroups(o) PROVE Left'
    BY <1>5 DEF SetToProcessGroups, Left
  <1>6. CASE Tick
    BY <1>6 DEF Tick, Left
  <1>7. ASSUME NEW o \in Operators, Begin(o) \/ Command(o) \/ Cut(o)
        PROVE  SendGroups(o) \/ SendStart(o) \/ SetToProcessGroups(o) \/ UNCHANGED process
    BY <1>7 DEF Begin, Command, Cut, Reads, ReadTime, ReadStatus, CheckElected,
      ReadStatusAgain, ReadProcessing, ReadIndividual, ReadCurrentEpoch,
      ReadGroups, ReadNeighbours
  <1>8. ASSUME Vote \/ ActivateCommand PROVE UNCHANGED process
    BY <1>8 DEF Vote, ActivateCommand, SendVote, ReadVotes, BeginActivate, ReadEpoch,
      WakeUp, Poll, ReadPending, ReadActivatable, Activate, VoterReads
  <1>9. ASSUME NEW i \in DOMAIN Elected, Leave(i) PROVE UNCHANGED process
    BY <1>9 DEF Leave
  <1>10. ASSUME NEW g \in Groups, OtherActivates(g) PROVE UNCHANGED process
    BY <1>10 DEF OtherActivates
  <1>11. CASE UNCHANGED vars
    BY <1>1, <1>11 DEF vars
  <1> QED BY <1>1, <1>2, <1>3, <1>4, <1>5, <1>6, <1>7, <1>8, <1>9, <1>10, <1>11 DEF Next

\* The groups that the wrapper works out from the elected accounts and the events are
\* those that the contract still wants, each once (EpochManager.ts,
\* getEpochGroupsAndSorting).
THEOREM RemainingIsExact == Spec => []RemainingExact
  <1>1. Left => RemainingExact
    BY ElectedWithoutIs DEF Left, RemainingExact, GroupsToProcess, EventsSince
  <1> QED BY <1>1, LeftInit, LeftNext, PTL DEF Spec

-----------------------------------------------------------------------------
(* election:activate --wait.                                               *)

Fields == activation = [pc |-> activation.pc, wait |-> activation.wait,
                       since |-> activation.since, groups |-> activation.groups,
                       asked |-> activation.asked]

\* Numbers of epochs; and, in a command that waits, that the epoch it waited for has
\* ended, and that what was pending when it began is still among the groups that it
\* is about to activate, was activated, or was voted for again.
Waited ==
  /\ epoch \in Nat /\ pending \in [Groups -> Nat]
  /\ Fields /\ activation.since \in Nat /\ activation.asked \subseteq Groups
  /\ activation.groups \subseteq Groups /\ active \subseteq Groups
  /\ activation.since <= epoch
  /\ activation.wait /\ activation.pc \in {"groups", "filter", "send", "done"} =>
       activation.since < epoch
  /\ activation.wait /\ activation.pc \in {"filter", "send", "done"} =>
       \A g \in activation.asked :
         g \in activation.groups \/ pending[g] = 0 \/ pending[g] > activation.since
  /\ activation.pc = "done" => activation.groups = {}

\* Nobody activates at first.
LEMMA WaitedInit == Init => Waited
  <1> SUFFICES ASSUME Init PROVE Waited
    OBVIOUS
  <1>1. /\ activation = NoActivation /\ epoch = 1 /\ active = {}
        /\ pending = [g \in Groups |-> 0]
    BY DEF Init
  <1>2. /\ activation.pc = "idle" /\ activation.since = 0 /\ activation.wait = FALSE
        /\ activation.groups = {} /\ activation.asked = {}
        /\ Fields
    BY <1>1 DEF NoActivation, Fields
  <1> QED BY <1>1, <1>2 DEF Waited

\* A step of others, who may end the epoch, vote and activate.
LEMMA WaitedByOthers ==
  ASSUME Waited, UNCHANGED activation, epoch' \in Nat, epoch' >= epoch,
         active' \subseteq Groups, pending' \in [Groups -> Nat],
         \A g \in Groups : pending'[g] \in {0, pending[g], epoch}
  PROVE  Waited'
  <1>1. Fields /\ Fields'
    BY DEF Waited, Fields
  <1>2. /\ activation'.since \in Nat /\ activation'.asked \subseteq Groups
        /\ activation'.groups \subseteq Groups /\ activation'.since <= epoch'
        /\ activation'.pc = "done" => activation'.groups = {}
    BY DEF Waited
  <1>3. activation'.wait /\ activation'.pc \in {"groups", "filter", "send", "done"} =>
          activation'.since < epoch'
    BY DEF Waited
  <1>4. ASSUME activation'.wait, activation'.pc \in {"filter", "send", "done"},
               NEW g \in activation'.asked
        PROVE  g \in activation'.groups \/ pending'[g] = 0 \/ pending'[g] > activation'.since
    <2>1. g \in Groups /\ activation.since < epoch
          /\ (g \in activation.groups \/ pending[g] = 0 \/ pending[g] > activation.since)
      BY <1>4 DEF Waited
    <2>2. pending'[g] = 0 \/ pending'[g] = pending[g] \/ pending'[g] = epoch
      BY <2>1
    <2>3. activation.since \in Nat /\ epoch \in Nat /\ pending[g] \in Nat
      BY <2>1 DEF Waited
    <2> QED BY <2>1, <2>2, <2>3
  <1> QED BY <1>1, <1>2, <1>3, <1>4 DEF Waited

\* So do the operators and time ...
LEMMA EpochGrows ==
  ASSUME epoch \in Nat, [Next]_vars
  PROVE  epoch' \in Nat /\ epoch' >= epoch
  <1>1. CASE UNCHANGED process
    BY <1>1 DEF process
  <1>2. ASSUME NEW groups, NEW hints, Process(groups, hints)
        PROVE  epoch' \in Nat /\ epoch' >= epoch
    BY <1>2 DEF Process, EpochEnds
  <1>3. ASSUME NEW o \in Operators, SendGroups(o) PROVE epoch' \in Nat /\ epoch' >= epoch
    BY <1>1, <1>2, <1>3 DEF SendGroups
  <1>4. ASSUME NEW g \in Groups, OtherProcesses(g) PROVE epoch' \in Nat /\ epoch' >= epoch
    BY <1>2, <1>4 DEF OtherProcesses
  <1>5. ASSUME NEW o \in Operators, Begin(o) \/ Command(o) \/ Cut(o), ~SendGroups(o)
        PROVE  UNCHANGED epoch
    BY <1>5 DEF Begin, Command, Cut, Reads, ReadTime, ReadStatus, CheckElected,
      ReadStatusAgain, ReadProcessing, ReadIndividual, ReadCurrentEpoch,
      ReadGroups, ReadNeighbours,
      SendStart, SetToProcessGroups, process
  <1>6. ASSUME Vote \/ ActivateCommand PROVE UNCHANGED process
    BY <1>6 DEF Vote, ActivateCommand, SendVote, ReadVotes, BeginActivate, ReadEpoch,
      WakeUp, Poll, ReadPending, ReadActivatable, Activate, VoterReads
  <1>7. ASSUME NEW i \in DOMAIN Elected, Leave(i) PROVE UNCHANGED process
    BY <1>7 DEF Leave
  <1>8. ASSUME NEW g \in Groups, OtherActivates(g) PROVE UNCHANGED process
    BY <1>8 DEF OtherActivates
  <1>9. CASE Tick \/ UNCHANGED vars
    BY <1>9 DEF Tick, vars, process
  <1> QED BY <1>1, <1>3, <1>4, <1>5, <1>6, <1>7, <1>8, <1>9 DEF Next

\* So does every step.
LEMMA WaitedNext == Waited /\ [Next]_vars => Waited'
  <1> SUFFICES ASSUME Waited, [Next]_vars PROVE Waited'
    OBVIOUS
  <1>1. epoch' \in Nat /\ epoch' >= epoch
    BY EpochGrows DEF Waited
  <1>2. CASE UNCHANGED <<activation, pending, active>>
    BY <1>1, <1>2, WaitedByOthers DEF Waited
  <1>3. CASE SendVote
    BY <1>1, <1>3, WaitedByOthers DEF SendVote, Waited
  <1>4. ASSUME NEW g \in Groups, OtherActivates(g) PROVE Waited'
    BY <1>1, <1>4, WaitedByOthers DEF OtherActivates, Waited
  <1>5. ASSUME NEW wait \in BOOLEAN, BeginActivate(wait) PROVE Waited'
    <2>1. UNCHANGED <<epoch, pending, active>>
      BY <1>5 DEF BeginActivate, VoterReads, process
    <2>2. /\ Fields'
          /\ activation'.pc \in {"idle", "epoch", "groups"}
          /\ activation'.pc = "groups" => ~activation'.wait
          /\ activation'.since = 0 /\ activation'.groups = {}
          /\ activation'.asked \subseteq Groups
      BY <1>5 DEF BeginActivate, NoActivation, Fields
    <2> QED BY <2>1, <2>2 DEF Waited
  <1>6. CASE ReadEpoch
    <2>1. UNCHANGED <<epoch, pending, active>>
      BY <1>6 DEF ReadEpoch, VoterReads, process
    <2>2. /\ Fields' /\ activation'.pc = "sleep" /\ activation'.since = epoch
          /\ activation'.groups = activation.groups
          /\ activation'.asked = activation.asked
      BY <1>6 DEF ReadEpoch, Waited, Fields
    <2> QED BY <2>1, <2>2 DEF Waited
  <1>7. CASE WakeUp
    <2>1. UNCHANGED <<epoch, pending, active>>
      BY <1>7 DEF WakeUp, VoterReads, process
    <2>2. /\ Fields' /\ activation'.pc = "poll" /\ activation'.since = activation.since
          /\ activation'.groups = activation.groups
          /\ activation'.asked = activation.asked
      BY <1>7 DEF WakeUp, Waited, Fields
    <2> QED BY <2>1, <2>2 DEF Waited
  <1>8. CASE Poll
    <2>1. UNCHANGED <<epoch, pending, active>>
      BY <1>8 DEF Poll, VoterReads, process
    <2>2. /\ Fields' /\ activation'.pc = "groups" /\ activation'.since = activation.since
          /\ activation'.groups = activation.groups
          /\ activation'.asked = activation.asked
          /\ epoch # activation.since
      BY <1>8 DEF Poll, Waited, Fields
    <2> QED BY <2>1, <2>2 DEF Waited
  <1>9. CASE ReadPending
    <2>1. UNCHANGED <<epoch, pending, active>>
      BY <1>9 DEF ReadPending, VoterReads, process
    <2>2. /\ Fields' /\ activation.pc = "groups" /\ activation'.pc = "filter"
          /\ activation'.since = activation.since /\ activation'.wait = activation.wait
          /\ activation'.groups = VotedFor
          /\ activation'.asked = activation.asked
      BY <1>9 DEF ReadPending, Waited, Fields, GroupsWithPendingVotes
    <2>3. \A g \in Groups : g \in VotedFor \/ pending[g] = 0
      BY DEF VotedFor, Waited
    <2>4. VotedFor \subseteq Groups
      BY DEF VotedFor, Waited
    <2> QED BY <2>1, <2>2, <2>3, <2>4 DEF Waited
  <1>10. CASE ReadActivatable
    <2>1. UNCHANGED <<epoch, pending, active>>
      BY <1>10 DEF ReadActivatable, VoterReads, process
    <2>2. PICK G : G = {g \in activation.groups : Activatable(g)}
      OBVIOUS
    <2>3. /\ Fields' /\ activation.pc = "filter" /\ activation'.pc \in {"done", "send"}
          /\ activation'.since = activation.since /\ activation'.wait = activation.wait
          /\ activation'.groups = G /\ (activation'.pc = "done" => G = {})
          /\ activation'.asked = activation.asked
      BY <1>10, <2>2 DEF ReadActivatable, Waited, Fields
    <2>4. G \subseteq Groups
      BY <2>2 DEF Waited
    <2>5. activation.wait =>
            \A g \in activation.asked :
              g \in G \/ pending[g] = 0 \/ pending[g] > activation.since
      <3> SUFFICES ASSUME activation.wait, NEW g \in activation.asked,
                          g \in activation.groups, ~Activatable(g)
                   PROVE  pending[g] = 0 \/ pending[g] > activation.since
        BY <2>2, <2>3 DEF Waited
      <3>1. pending[g] \in Nat /\ activation.since < epoch
        BY <2>3 DEF Waited
      <3> QED BY <3>1 DEF Activatable, Waited
    <2> QED BY <2>1, <2>3, <2>4, <2>5 DEF Waited
  <1>11. ASSUME NEW g \in Groups, Activate(g) PROVE Waited'
    <2>1. UNCHANGED epoch /\ activation.pc = "send"
      BY <1>11 DEF Activate, process
    <2>2. /\ Fields' /\ activation'.since = activation.since
          /\ activation'.wait = activation.wait /\ activation'.asked = activation.asked
      BY <1>11 DEF Activate, Waited, Fields
    <2>3. \/ /\ activation'.groups = activation.groups \ {g}
             /\ activation'.pc \in {"send", "done"}
             /\ activation'.pc = "done" => activation'.groups = {}
             /\ pending' = [pending EXCEPT ![g] = 0] /\ active' = active \cup {g}
          \/ /\ activation'.pc = "failed" /\ activation'.groups = activation.groups
             /\ UNCHANGED <<pending, active>>
      <3>1. CASE Activatable(g)
        <4>1. /\ activation'.groups = activation.groups \ {g}
              /\ activation'.pc \in {"send", "done"}
              /\ activation'.pc = "done" => activation.groups = {g}
              /\ pending' = [pending EXCEPT ![g] = 0] /\ active' = active \cup {g}
          BY <1>11, <2>1, <3>1 DEF Activate, Waited, Fields
        <4> QED BY <4>1
      <3>2. CASE ~Activatable(g)
        BY <1>11, <2>1, <3>2 DEF Activate, Waited, Fields
      <3> QED BY <3>1, <3>2
    <2> QED BY <2>1, <2>2, <2>3 DEF Waited
  <1>12. ASSUME NEW o \in Operators, Begin(o) \/ Command(o) \/ Cut(o)
         PROVE  UNCHANGED voter
    BY <1>12 DEF Begin, Command, Cut, Reads, ReadTime, ReadStatus, CheckElected,
      ReadStatusAgain, ReadProcessing, ReadIndividual, ReadCurrentEpoch,
      ReadGroups, ReadNeighbours,
      SendStart, SetToProcessGroups, SendGroups
  <1>13. ASSUME NEW g \in Groups, ReadVotes(g) PROVE UNCHANGED <<activation, pending, active>>
    BY <1>13 DEF ReadVotes, VoterReads
  <1>14. CASE Tick \/ (\E i \in DOMAIN Elected : Leave(i))
              \/ (\E g \in Groups : OtherProcesses(g)) \/ UNCHANGED vars
    BY <1>2, <1>14 DEF Tick, Leave, OtherProcesses, vars, voter
  <1> QED BY <1>2, <1>3, <1>4, <1>5, <1>6, <1>7, <1>8, <1>9, <1>10, <1>11, <1>12,
             <1>13, <1>14 DEF Next, Vote, ActivateCommand, voter

\* When election:activate --wait has ended well, nothing is pending that was pending
\* when it began, unless it was voted for again in a later epoch (activate.ts).
THEOREM WaitingActivates == Spec => []ActivatesAfterWait
  <1>1. Waited => ActivatesAfterWait
    BY DEF Waited, ActivatesAfterWait
  <1> QED BY <1>1, WaitedInit, WaitedNext, PTL DEF Spec

-----------------------------------------------------------------------------
(* The payment of the groups.                                              *)

\* The groups are paid one after the other.
IsPaid(paid, m, groups, hints) ==
  paid = [n \in 0 .. m |->
            IF n = 0 THEN chain ELSE PayGroup(groups[n], hints[n])[paid[n - 1]]]

\* Pay is what that comes to.
LEMMA PayIs ==
  ASSUME NEW groups, NEW hints, Len(groups) \in Nat
  PROVE  \E paid : /\ IsPaid(paid, Len(groups), groups, hints)
                   /\ Pay(groups, hints) = paid[Len(groups)]
  <1> DEFINE N == Len(groups)
             next(c, n) == PayGroup(groups[n], hints[n])[c]
             Paid(f, m) == f = [n \in 0 .. m |-> IF n = 0 THEN chain ELSE next(f[n - 1], n)]
             Unpaid == {m \in 0 .. N : ~\E f : Paid(f, m)}
  <1>1. Unpaid = {}
    <2> SUFFICES ASSUME Unpaid # {} PROVE FALSE
      OBVIOUS
    <2>1. PICK m \in Unpaid : \A j \in Unpaid : m <= j
      <3>1. Unpaid \in SUBSET Nat
        OBVIOUS
      <3> HIDE DEF Unpaid
      <3> QED BY <3>1, LeastNatural
    <2>2. m \in Nat /\ m <= N /\ N \in Nat
      OBVIOUS
    <2>3. m # 0
      <3> SUFFICES ASSUME m = 0 PROVE FALSE
        OBVIOUS
      <3> DEFINE f == [n \in 0 .. 0 |-> chain]
      <3>1. f = [n \in 0 .. 0 |-> IF n = 0 THEN chain ELSE next(f[n - 1], n)]
        <4> HIDE DEF next
        <4>1. \A n \in 0 .. 0 : n = 0
          OBVIOUS
        <4> QED BY <4>1
      <3>2. Paid(f, m)
        BY <3>1
      <3> QED BY <3>2
    <2>4. PICK l \in Nat : l = m - 1 /\ l < m /\ l + 1 = m
      BY <2>2, <2>3
    <2>5. l \in 0 .. N /\ l \notin Unpaid
      <3>1. l \in 0 .. N /\ ~(m <= l)
        BY <2>2, <2>4
      <3> HIDE DEF Unpaid
      <3> QED BY <2>1, <3>1
    <2>6. PICK f : Paid(f, l)
      BY <2>5
    <2> DEFINE g == [n \in 0 .. m |-> IF n = m THEN next(f[l], m) ELSE f[n]]
    <2> HIDE DEF next
    <2>7. ASSUME NEW n \in 0 .. m PROVE g[n] = IF n = 0 THEN chain ELSE next(g[n - 1], n)
      <3>1. CASE n = m
        <4>1. g[n] = next(f[l], m)
          BY <3>1
        <4>2. l \in 0 .. m /\ l # m /\ n - 1 = l /\ n # 0
          BY <2>3, <2>4, <3>1
        <4>3. g[n - 1] = f[l]
          BY <4>2
        <4> QED BY <3>1, <4>1, <4>2, <4>3
      <3>2. CASE n # m
        <4>1. n \in 0 .. l /\ g[n] = f[n]
          BY <2>2, <2>4, <3>2
        <4>2. f[n] = IF n = 0 THEN chain ELSE next(f[n - 1], n)
          BY <2>6, <4>1
        <4>3. n # 0 => n - 1 \in 0 .. m /\ n - 1 # m
          BY <2>2, <2>4, <4>1
        <4>4. n # 0 => g[n - 1] = f[n - 1]
          BY <4>3
        <4> QED BY <4>1, <4>2, <4>4
      <3> QED BY <3>1, <3>2
    <2>8. DOMAIN g = 0 .. m /\ g = [n \in 0 .. m |-> g[n]]
      OBVIOUS
    <2> HIDE DEF g
    <2>9. Paid(g, m)
      BY <2>7, <2>8
    <2> QED BY <2>9
  <1>2. \E f : Paid(f, N)
    BY <1>1
  <1> DEFINE q == CHOOSE f : Paid(f, N)
  <1>3. Paid(q, N)
    BY <1>2
  <1>4. Pay(groups, hints) = q[N]
    BY Zenon DEF Pay
  <1>5. IsPaid(q, N, groups, hints)
    BY <1>3 DEF IsPaid
  <1> HIDE DEF q
  <1> QED BY <1>4, <1>5

\* A list of States is in order.
Good(c) == c \in States /\ Distinct(c.list) /\ Sorted(c.list, c.votes)

\* What a group's move does.
LEMMA MoveIs ==
  ASSUME NEW c, Good(c), NEW g \in Members(c.list), NEW total \in Nat, NEW near,
         Places(Rest(c.list, g), c.votes, total, near) # {},
         NEW d, d = Move(c, g, total, near)
  PROVE  /\ Good(d) /\ Members(d.list) = Members(c.list) /\ d.ok = c.ok
         /\ d.reward = c.reward
         /\ d.votes[g] = total /\ \A x \in Groups \ {g} : d.votes[x] = c.votes[x]
         /\ \E p \in Places(Rest(c.list, g), c.votes, total, near) :
              d.list = PutAt(Rest(c.list, g), g, p)
  <1> DEFINE list == c.list
             votes == c.votes
             rest == Rest(list, g)
             P == Places(rest, votes, total, near)
             p == CHOOSE x \in P : TRUE
             then == [x \in Groups |-> IF x = g THEN total ELSE votes[x]]
  <1>1. /\ c = [ok |-> c.ok, list |-> c.list, votes |-> c.votes, reward |-> c.reward]
        /\ c.ok \in BOOLEAN /\ list \in Seq(Groups) /\ votes \in [Groups -> Nat]
        /\ c.reward \in [Groups -> Nat] /\ Distinct(list) /\ Sorted(list, votes)
    BY DEF Good, States
  <1>2. g \in Groups
    BY <1>1 DEF Members
  <1>3. /\ d.ok = c.ok /\ d.reward = c.reward /\ d.votes = then /\ d.list = PutAt(rest, g, p)
        /\ d = [ok |-> d.ok, list |-> d.list, votes |-> d.votes, reward |-> d.reward]
    <2> HIDE DEF rest, P
    <2>1. d = [c EXCEPT !.votes[g] = total, !.list = PutAt(rest, g, p)]
      BY DEF Move, rest, P
    <2> HIDE DEF p
    <2> QED BY <1>1, <2>1
  <1>4. p \in P
    OBVIOUS
  <1> HIDE DEF p, rest, P, list, votes
  <1>5. p \in 0 .. Len(rest) /\ Fits(rest, votes, total, p)
    BY <1>4 DEF P, Places
  <1>6. /\ rest \in Seq(Groups) /\ Distinct(rest) /\ g \notin Members(rest)
        /\ Sorted(rest, votes) /\ Members(rest) = Members(list) \ {g}
    BY <1>1, RestShifts, RestIs DEF rest, list
  <1>7. /\ then[g] = total /\ \A x \in Groups \ {g} : then[x] = votes[x]
        /\ then \in [Groups -> Nat] /\ \A x \in Groups : votes[x] \in Int
    BY <1>1, <1>2
  <1> HIDE DEF then
  <1>8. PutAt(rest, g, p) \in Seq(Groups) /\ Distinct(PutAt(rest, g, p))
    BY <1>2, <1>5, <1>6, PutAtKeeps
  <1>9. /\ Sorted(PutAt(rest, g, p), then)
        /\ Members(PutAt(rest, g, p)) = Members(rest) \cup {g}
    BY ONLY <1>2, <1>5, <1>6, <1>7, total \in Nat, PutAtIs
  <1>10. Good(d)
    BY <1>1, <1>3, <1>7, <1>8, <1>9 DEF Good, States
  <1>11. Members(d.list) = Members(list)
    BY <1>3, <1>6, <1>9 DEF list
  <1> QED BY <1>3, <1>4, <1>7, <1>10, <1>11 DEF P, rest, list, votes

\* The total of a group with its reward.
Rewarded(c, g) == c.votes[g] + c.reward[g]

\* What happens to a group whose turn it is.
Skipped(c, d) == ~c.ok /\ d = c
Unlisted(c, g, d) ==
  /\ c.ok /\ (c.reward[g] = 0 \/ g \notin Members(c.list))
  /\ d = [c EXCEPT !.votes[g] = Rewarded(c, g)]
Moved(c, g, near, d) ==
  /\ c.ok /\ c.reward[g] # 0 /\ g \in Members(c.list)
  /\ Accepts(c.list, c.votes, g, Rewarded(c, g), near)
  /\ d = Move(c, g, Rewarded(c, g), near)
Reverted(c, g, near, d) ==
  /\ c.ok /\ c.reward[g] # 0 /\ g \in Members(c.list)
  /\ ~Accepts(c.list, c.votes, g, Rewarded(c, g), near)
  /\ d = [c EXCEPT !.ok = FALSE]

\* One of the four.
LEMMA PayGroupIs ==
  ASSUME NEW c \in States, NEW g, NEW near, NEW d, d = PayGroup(g, near)[c]
  PROVE  \/ Skipped(c, d) \/ Unlisted(c, g, d)
         \/ Moved(c, g, near, d) \/ Reverted(c, g, near, d)
  <1> DEFINE total == c.votes[g] + c.reward[g]
  <1>1. d = CASE ~c.ok -> c
              [] c.ok /\ (c.reward[g] = 0 \/ g \notin Members(c.list)) ->
                   [c EXCEPT !.votes[g] = total]
              [] OTHER -> IF Accepts(c.list, c.votes, g, total, near)
                          THEN Move(c, g, total, near) ELSE [c EXCEPT !.ok = FALSE]
    BY DEF PayGroup
  <1>2. total = Rewarded(c, g)
    BY DEF Rewarded
  <1> HIDE DEF total
  <1>3. CASE ~c.ok
    BY <1>1, <1>3 DEF Skipped
  <1>4. CASE c.ok /\ (c.reward[g] = 0 \/ g \notin Members(c.list))
    BY <1>1, <1>2, <1>4 DEF Unlisted
  <1>5. CASE c.ok /\ c.reward[g] # 0 /\ g \in Members(c.list)
    BY <1>1, <1>2, <1>5 DEF Moved, Reverted
  <1> QED BY <1>3, <1>4, <1>5

\* What Good says, field by field.
LEMMA GoodIs ==
  ASSUME NEW c, Good(c)
  PROVE  /\ c = [ok |-> c.ok, list |-> c.list, votes |-> c.votes, reward |-> c.reward]
         /\ c \in States /\ c.ok \in BOOLEAN /\ c.list \in Seq(Groups)
         /\ c.votes \in [Groups -> Nat] /\ c.reward \in [Groups -> Nat]
         /\ Distinct(c.list) /\ Sorted(c.list, c.votes)
         /\ \A g \in Groups : Rewarded(c, g) \in Nat
  BY DEF Good, States, Rewarded

\* A group outside of the list does not disturb its order.
LEMMA UnlistedKeeps ==
  ASSUME NEW c, Good(c), NEW g \in Groups, NEW d, Unlisted(c, g, d)
  PROVE  /\ Good(d) /\ d.ok = c.ok /\ d.list = c.list /\ d.reward = c.reward
         /\ d.votes[g] = Rewarded(c, g)
         /\ \A x \in Groups \ {g} : d.votes[x] = c.votes[x]
         /\ g \in Members(c.list) => d.votes = c.votes
  <1>1. PICK total \in Nat : total = Rewarded(c, g)
    BY GoodIs
  <1>2. d = [c EXCEPT !.votes[g] = total]
    BY <1>1 DEF Unlisted
  <1>3. /\ c = [ok |-> c.ok, list |-> c.list, votes |-> c.votes, reward |-> c.reward]
        /\ c.ok \in BOOLEAN /\ c.list \in Seq(Groups)
        /\ c.votes \in [Groups -> Nat] /\ c.reward \in [Groups -> Nat]
        /\ Distinct(c.list) /\ Sorted(c.list, c.votes)
    BY GoodIs
  <1>4. /\ d.ok = c.ok /\ d.list = c.list /\ d.reward = c.reward
        /\ d.votes = [x \in Groups |-> IF x = g THEN total ELSE c.votes[x]] /\ d.votes \in [Groups -> Nat]
        /\ d = [ok |-> d.ok, list |-> d.list, votes |-> d.votes, reward |-> d.reward]
    BY ONLY <1>2, <1>3, g \in Groups, total \in Nat
  <1>5. g \in Members(c.list) => d.votes = c.votes
    <2>1. g \in Members(c.list) => total = c.votes[g]
      BY <1>1, <1>3 DEF Rewarded, Unlisted
    <2> QED BY <1>3, <1>4, <2>1
  <1>6. \A x \in Members(c.list) : d.votes[x] = c.votes[x]
    <2>1. Members(c.list) \subseteq Groups
      BY <1>3 DEF Members
    <2> QED BY <1>3, <1>4, <1>5, <2>1
  <1>7. Sorted(d.list, d.votes)
    BY <1>3, <1>4, <1>6 DEF Sorted, Members
  <1>8. d \in States
    BY <1>3, <1>4 DEF States
  <1> QED BY <1>1, <1>3, <1>4, <1>5, <1>7, <1>8 DEF Good

\* What a group's move does.
LEMMA MovedKeeps ==
  ASSUME NEW c, Good(c), NEW g, NEW near, NEW d, Moved(c, g, near, d)
  PROVE  /\ Good(d) /\ Members(d.list) = Members(c.list) /\ d.ok = c.ok
         /\ d.reward = c.reward /\ d.votes[g] = Rewarded(c, g)
         /\ \A x \in Groups \ {g} : d.votes[x] = c.votes[x]
         /\ \E p \in Places(Rest(c.list, g), c.votes, Rewarded(c, g), near) :
              d.list = PutAt(Rest(c.list, g), g, p)
  <1>1. g \in Members(c.list)
    BY DEF Moved
  <1>2. g \in Groups
    BY <1>1, GoodIs DEF Members
  <1>3. PICK total \in Nat : total = Rewarded(c, g)
    BY <1>2, GoodIs
  <1>4. Places(Rest(c.list, g), c.votes, total, near) # {}
    BY <1>3 DEF Moved, Accepts
  <1>5. d = Move(c, g, total, near)
    BY <1>3 DEF Moved
  <1>6. Good(d)
    BY ONLY Good(c), <1>1, <1>4, <1>5, MoveIs
  <1>7. Members(d.list) = Members(c.list) /\ d.ok = c.ok
    BY ONLY Good(c), <1>1, <1>4, <1>5, <1>6, MoveIs
  <1>8. /\ d.reward = c.reward /\ d.votes[g] = total
        /\ \A x \in Groups \ {g} : d.votes[x] = c.votes[x]
    BY ONLY Good(c), <1>1, <1>4, <1>5, <1>6, MoveIs
  <1>9. \E p \in Places(Rest(c.list, g), c.votes, total, near) :
          d.list = PutAt(Rest(c.list, g), g, p)
    BY ONLY Good(c), <1>1, <1>4, <1>5, <1>6, MoveIs
  <1> QED BY <1>3, <1>6, <1>7, <1>8, <1>9

\* Nor does a revert.
LEMMA RevertedKeeps ==
  ASSUME NEW c, Good(c), NEW d, d = [c EXCEPT !.ok = FALSE]
  PROVE  Good(d) /\ d.list = c.list
  <1>0. c = [ok |-> c.ok, list |-> c.list, votes |-> c.votes, reward |-> c.reward]
    BY GoodIs
  <1>1. d = [ok |-> FALSE, list |-> c.list, votes |-> c.votes, reward |-> c.reward]
    BY <1>0
  <1>2. d \in States /\ d.list = c.list /\ d.votes = c.votes
    BY <1>1, GoodIs DEF States
  <1> QED BY <1>2, GoodIs DEF Good

\* Paying one group keeps the order.
LEMMA PayGroupKeeps ==
  ASSUME NEW c, Good(c), NEW g \in Groups, NEW near, NEW d, d = PayGroup(g, near)[c]
  PROVE  Good(d) /\ Members(d.list) = Members(c.list)
  <1>1. \/ Skipped(c, d) \/ Unlisted(c, g, d)
        \/ Moved(c, g, near, d) \/ Reverted(c, g, near, d)
    BY PayGroupIs, GoodIs
  <1>2. CASE Skipped(c, d)
    BY <1>2 DEF Skipped
  <1>3. CASE Unlisted(c, g, d)
    <2>1. Good(d)
      BY <1>3, UnlistedKeeps
    <2>2. d.list = c.list
      BY <1>3, UnlistedKeeps
    <2> QED BY <2>1, <2>2
  <1>4. CASE Moved(c, g, near, d)
    <2>1. Good(d)
      BY <1>4, MovedKeeps
    <2>2. Members(d.list) = Members(c.list)
      BY <1>4, <2>1, MovedKeeps
    <2> QED BY <2>1, <2>2
  <1>5. CASE Reverted(c, g, near, d)
    BY <1>5, RevertedKeeps DEF Reverted
  <1> QED BY <1>1, <1>2, <1>3, <1>4, <1>5

\* So does paying all of them.
LEMMA PayKeeps ==
  ASSUME Good(chain), NEW groups \in Seq(Groups), NEW hints
  PROVE  Good(Pay(groups, hints)) /\ Members(Pay(groups, hints).list) = Members(chain.list)
  <1>1. PICK N \in Nat : N = Len(groups) /\ \A n \in 1 .. N : groups[n] \in Groups
    OBVIOUS
  <1>2. PICK paid : IsPaid(paid, N, groups, hints) /\ Pay(groups, hints) = paid[N]
    BY <1>1, PayIs
  <1> DEFINE Kept(c) == Good(c) /\ Members(c.list) = Members(chain.list)
             Lost == {n \in 0 .. N : ~Kept(paid[n])}
  <1>3. Lost = {}
    <2> SUFFICES ASSUME Lost # {} PROVE FALSE
      OBVIOUS
    <2>1. PICK n \in Lost : \A j \in Lost : n <= j
      <3>1. Lost \in SUBSET Nat
        OBVIOUS
      <3> HIDE DEF Lost
      <3> QED BY <3>1, LeastNatural
    <2>2. n \in 0 .. N /\ ~Kept(paid[n])
      OBVIOUS
    <2>3. paid[n] = IF n = 0 THEN chain ELSE PayGroup(groups[n], hints[n])[paid[n - 1]]
      BY <1>2, <2>2 DEF IsPaid
    <2>4. n # 0
      BY <2>2, <2>3
    <2>5. PICK l \in 0 .. N : l = n - 1 /\ ~(n <= l) /\ n \in 1 .. N
      BY <2>2, <2>4
    <2>6. Kept(paid[l])
      <3>1. l \notin Lost
        <4> HIDE DEF Lost
        <4> QED BY <2>1, <2>5
      <3> QED BY <3>1
    <2>7. paid[n] = PayGroup(groups[n], hints[n])[paid[l]] /\ groups[n] \in Groups
      BY <1>1, <2>3, <2>4, <2>5
    <2> QED BY <2>2, <2>6, <2>7, PayGroupKeeps
  <1>4. Kept(paid[N])
    BY <1>3
  <1> QED BY <1>2, <1>4
-----------------------------------------------------------------------------
(* Neighbours in a list whose order the rewards do not change.             *)

\* A list in order is its own ranking.
LEMMA RankedIs ==
  ASSUME NEW list \in Seq(Groups), NEW votes \in [Groups -> Nat], Sorted(list, votes)
  PROVE  Ranked(votes)[list] = list
  <1> DEFINE rank(i) == Cardinality({j \in DOMAIN list :
                          \/ votes[list[j]] > votes[list[i]]
                          \/ votes[list[j]] = votes[list[i]] /\ j <= i})
  <1>1. PICK m \in Nat : m = Len(list) /\ DOMAIN list = 1 .. m
    OBVIOUS
  <1>2. \A i \in 1 .. m : votes[list[i]] \in Nat
    BY <1>1
  <1>3. ASSUME NEW i \in 1 .. m PROVE rank(i) = i
    <2> DEFINE A == {j \in DOMAIN list : \/ votes[list[j]] > votes[list[i]]
                                         \/ votes[list[j]] = votes[list[i]] /\ j <= i}
    <2>1. ASSUME NEW j \in 1 .. m PROVE j \in A <=> j <= i
      <3>1. j < i => votes[list[j]] >= votes[list[i]]
        BY <1>1 DEF Sorted
      <3>2. i < j => votes[list[i]] >= votes[list[j]]
        BY <1>1 DEF Sorted
      <3>3. votes[list[i]] \in Nat /\ votes[list[j]] \in Nat
        BY <1>2
      <3>4. j \in A <=> \/ votes[list[j]] > votes[list[i]]
                        \/ votes[list[j]] = votes[list[i]] /\ j <= i
        BY <1>1
      <3> HIDE DEF A
      <3> QED BY <3>1, <3>2, <3>3, <3>4
    <2>2. A \subseteq 1 .. m
      BY <1>1
    <2> HIDE DEF A
    <2>3. A = 1 .. i
      <3>1. \A j : j \in 1 .. i <=> j \in 1 .. m /\ j <= i
        OBVIOUS
      <3> QED BY <2>1, <2>2, <3>1
    <2>4. Cardinality(A) = i
      BY <2>3, FS_Interval
    <2> QED BY <2>4 DEF A
  <1>4. Ranked(votes)[list] =
          [n \in DOMAIN list |-> list[CHOOSE i \in DOMAIN list : rank(i) = n]]
    BY DEF Ranked
  <1> HIDE DEF rank
  <1> DEFINE at(n) == CHOOSE i \in DOMAIN list : rank(i) = n
  <1>5. ASSUME NEW n \in 1 .. m PROVE at(n) = n
    <2> DEFINE q == CHOOSE i \in DOMAIN list : rank(i) = n
    <2>1. \E i \in DOMAIN list : rank(i) = n
      BY <1>1, <1>3
    <2>2. q \in DOMAIN list /\ rank(q) = n
      BY <2>1
    <2> HIDE DEF q
    <2>3. q = n
      BY <1>1, <1>3, <2>2
    <2> QED BY <2>3 DEF q
  <1>6. [n \in DOMAIN list |-> list[at(n)]] = list
    <2> HIDE DEF at
    <2>1. list = [n \in DOMAIN list |-> list[n]]
      OBVIOUS
    <2> QED BY <1>1, <1>5, <2>1
  <1> QED BY <1>4, <1>6

\* Eligible groups add no rows.
LEMMA RowsAre ==
  ASSUME NEW list \in Seq(Groups), NEW groups \in Seq(Groups),
         Members(groups) \subseteq Members(list)
  PROVE  Rows(list, groups) = list
  <1> DEFINE P == {i \in DOMAIN groups : groups[i] \notin Members(list)}
             t == Subsequence(groups, P)
  <1>1. P = {}
    BY DEF Members
  <1>2. t \in Seq(Groups) /\ Len(t) = Cardinality({})
    BY <1>1, SubsequenceIs
  <1>3. t = <<>>
    BY <1>2, FS_EmptySet
  <1>4. Rows(list, groups) = list \o t
    BY DEF Rows
  <1> HIDE DEF t
  <1> QED BY <1>3, <1>4

\* What stands next to a group.
Beside(list, g, near) ==
  LET k == PlaceOf(list, g) IN
  /\ near.lesser = IF k = Len(list) THEN Nobody ELSE list[k + 1]
  /\ near.greater = IF k = 1 THEN Nobody ELSE list[k - 1]

\* The neighbours are those in the list.
LEMMA BesideAre ==
  ASSUME NEW list \in Seq(Groups), NEW votes \in [Groups -> Nat], Sorted(list, votes),
         NEW groups \in Seq(Groups), Members(groups) \subseteq Members(list),
         NEW n \in DOMAIN groups
  PROVE  Beside(list, groups[n], LessersAndGreaters(list, votes, groups)[n])
  <1>1. Ranked(votes)[Rows(list, groups)] = list
    BY RankedIs, RowsAre
  <1>2. LessersAndGreaters(list, votes, groups) =
          [l \in DOMAIN groups |->
             [lesser |-> IF PlaceOf(list, groups[l]) = Len(list) THEN Nobody
                         ELSE list[PlaceOf(list, groups[l]) + 1],
              greater |-> IF PlaceOf(list, groups[l]) = 1 THEN Nobody
                          ELSE list[PlaceOf(list, groups[l]) - 1]]]
    BY <1>1 DEF LessersAndGreaters
  <1> QED BY <1>2 DEF Beside

\* Between its neighbours a group whose order does not change stays where it is.
LEMMA StaysPut ==
  ASSUME NEW list \in Seq(Groups), Distinct(list), NEW votes \in [Groups -> Nat],
         NEW g \in Members(list), NEW total \in Nat, NEW near, Beside(list, g, near),
         NEW k, k = PlaceOf(list, g),
         k > 1 => votes[list[k - 1]] >= total,
         k < Len(list) => total >= votes[list[k + 1]]
  PROVE  /\ Accepts(list, votes, g, total, near)
         /\ \A p \in Places(Rest(list, g), votes, total, near) :
              PutAt(Rest(list, g), g, p) = list
  <1>1. PICK rest : rest = Rest(list, g)
    OBVIOUS
  <1>2. /\ k \in 1 .. Len(list) /\ list[k] = g
        /\ rest \in Seq(Groups) /\ Len(rest) = Len(list) - 1 /\ Distinct(rest)
        /\ \A i \in 1 .. Len(rest) : rest[i] = list[IF i < k THEN i ELSE i + 1]
    BY <1>1, RestShifts, PlaceOfMember
  <1>3. PICK m \in Nat : /\ m = Len(rest) /\ m + 1 = Len(list)
                         /\ DOMAIN rest = 1 .. m /\ DOMAIN list = 1 .. m + 1
    BY <1>2
  <1>4. /\ k \in 1 .. m + 1
        /\ \A i \in 1 .. m : i < k => rest[i] = list[i]
        /\ \A i \in 1 .. m : ~(i < k) => rest[i] = list[i + 1]
        /\ \A i \in 1 .. m : rest[i] \in Groups /\ rest[i] # Nobody
        /\ \A i, j \in 1 .. m : rest[i] = rest[j] => i = j
    <2>1. \A i \in 1 .. m : rest[i] \in Groups
      BY <1>2, <1>3
    <2>2. \A i, j \in 1 .. m : rest[i] = rest[j] => i = j
      BY <1>2, <1>3 DEF Distinct
    <2> QED BY <1>2, <1>3, <2>1, <2>2, EpochsAssumption
  <1>5. /\ near.lesser = IF k = m + 1 THEN Nobody ELSE rest[k]
        /\ near.greater = IF k = 1 THEN Nobody ELSE rest[k - 1]
    <2>1. /\ near.lesser = IF k = m + 1 THEN Nobody ELSE list[k + 1]
          /\ near.greater = IF k = 1 THEN Nobody ELSE list[k - 1]
      BY <1>3 DEF Beside
    <2>2. k # m + 1 => rest[k] = list[k + 1]
      <3>1. k # m + 1 => k \in 1 .. m /\ ~(k < k)
        BY <1>3, <1>4
      <3> QED BY <1>4, <3>1
    <2>3. k # 1 => rest[k - 1] = list[k - 1]
      BY <1>3, <1>4
    <2> QED BY <2>1, <2>2, <2>3
  <1> DEFINE At(p) == \/ near.lesser = Nobody /\ p = m
                      \/ near.greater = Nobody /\ p = 0
                      \/ p < m /\ rest[p + 1] = near.lesser
                      \/ p > 0 /\ rest[p] = near.greater
  <1>6. ASSUME NEW p \in 0 .. m, At(p) PROVE p = k - 1
    <2>1. CASE near.lesser = Nobody /\ p = m
      BY <1>3, <1>4, <1>5, <2>1
    <2>2. CASE near.greater = Nobody /\ p = 0
      BY <1>3, <1>4, <1>5, <2>2
    <2>3. CASE p < m /\ rest[p + 1] = near.lesser
      BY <1>3, <1>4, <1>5, <2>3
    <2>4. CASE p > 0 /\ rest[p] = near.greater
      BY <1>3, <1>4, <1>5, <2>4
    <2> QED BY <1>6, <2>1, <2>2, <2>3, <2>4
  <1>7. PICK q \in 0 .. m : q = k - 1 /\ k = q + 1
    BY <1>3, <1>4
  <1>8. At(q)
    BY <1>3, <1>4, <1>5, <1>7
  <1>9. Fits(rest, votes, total, q)
    <2>1. q > 0 => votes[rest[q]] >= total
      <3>1. q > 0 => rest[q] = list[k - 1] /\ k > 1
        BY <1>3, <1>4, <1>7
      <3> QED BY <3>1
    <2>2. q < m => votes[rest[q + 1]] <= total
      <3>1. q < m => rest[q + 1] = list[k + 1] /\ k < Len(list)
        <4>1. q < m => k \in 1 .. m /\ ~(k < k) /\ k < Len(list)
          <5>1. m \in Nat /\ m + 1 = Len(list) /\ q \in 0 .. m /\ k = q + 1
            BY <1>3, <1>7
          <5> QED BY <5>1
        <4> QED BY <1>4, <1>7, <4>1
      <3>2. q < m => votes[rest[q + 1]] \in Nat
        <4>1. q < m => q + 1 \in 1 .. m
          <5>1. m \in Nat /\ q \in 0 .. m
            BY <1>3, <1>7
          <5> QED BY ONLY <5>1
        <4>2. q < m => rest[q + 1] \in Groups
          BY <1>4, <4>1
        <4> QED BY <4>2
      <3> QED BY <3>1, <3>2
    <2> QED BY <1>3, <2>1, <2>2 DEF Fits
  <1> DEFINE P == Places(rest, votes, total, near)
  <1>10. P = {p \in 0 .. m : Fits(rest, votes, total, p) /\ At(p)}
    BY <1>3 DEF Places
  <1> HIDE DEF P, At
  <1>11. q \in P /\ \A p \in P : p = q
    BY <1>6, <1>7, <1>8, <1>9, <1>10
  <1>12. Accepts(list, votes, g, total, near)
    <2>1. near.lesser # Nobody \/ near.greater # Nobody \/ rest = <<>>
      <3>1. m = 0 => rest = <<>>
        BY <1>2, <1>3
      <3> QED BY <1>3, <1>4, <1>5, <3>1
    <2>2. {near.lesser, near.greater} \subseteq Members(rest) \cup {Nobody}
      BY <1>3, <1>4, <1>5 DEF Members
    <2> QED BY <1>1, <1>11, <2>1, <2>2 DEF Accepts, P
  <1>13. PutAt(rest, g, q) = list
    <2> DEFINE at(i) == CASE i <= q    -> rest[i]
                          [] i = q + 1 -> g
                          [] OTHER     -> rest[i - 1]
    <2>1. PutAt(rest, g, q) = [i \in 1 .. m + 1 |-> at(i)]
      BY <1>3 DEF PutAt
    <2>2. ASSUME NEW i \in 1 .. m + 1 PROVE at(i) = list[i]
      <3>1. CASE i <= q
        <4>1. i \in 1 .. m /\ i < k
          BY <1>3, <1>7, <3>1
        <4>2. at(i) = rest[i]
          BY <3>1
        <4> QED BY <1>4, <4>1, <4>2
      <3>2. CASE i = q + 1
        BY <1>2, <1>7, <3>2
      <3>3. CASE i > q + 1
        <4>1. i - 1 \in 1 .. m /\ ~(i - 1 < k) /\ i - 1 + 1 = i
          BY <1>3, <1>4, <1>7, <3>3
        <4>2. at(i) = rest[i - 1]
          BY <1>3, <1>7, <3>3
        <4>3. rest[i - 1] = list[i - 1 + 1]
          BY <1>4, <4>1
        <4> QED BY <4>1, <4>2, <4>3
      <3> QED BY <1>3, <1>7, <3>1, <3>2, <3>3
    <2> HIDE DEF at
    <2>3. list = [i \in 1 .. m + 1 |-> list[i]]
      BY <1>3
    <2> QED BY <2>1, <2>2, <2>3
  <1> QED BY <1>1, <1>11, <1>12, <1>13 DEF P

\* The votes of g when the first n groups are paid.
After(groups, n, g) ==
  IF \E i \in 1 .. n : groups[i] = g THEN chain.votes[g] + chain.reward[g]
  ELSE chain.votes[g]

\* The list as it is, with the votes of then.
Settled(c, groups, n) ==
  /\ Good(c) /\ c.ok /\ c.list = chain.list /\ c.reward = chain.reward
  /\ \A x \in Groups : c.votes[x] = After(groups, n, x)

\* A group whose payment keeps the order is paid.
LEMMA SettledNext ==
  ASSUME NEW groups \in Seq(Groups), Distinct(groups),
         Members(groups) \subseteq Members(chain.list), Good(chain),
         NEW n \in DOMAIN groups, NEW l, l = n - 1,
         \A i \in 1 .. Len(chain.list) - 1 :
           After(groups, n, chain.list[i]) >= After(groups, n, chain.list[i + 1]),
         NEW near, Beside(chain.list, groups[n], near),
         NEW c, Settled(c, groups, l), NEW d, d = PayGroup(groups[n], near)[c]
  PROVE  Settled(d, groups, n)
  <1>1. PICK g : g = groups[n]
    OBVIOUS
  <1>2. /\ n \in Nat \ {0} /\ l \in Nat /\ n = l + 1 /\ g \in Groups
        /\ DOMAIN groups = 1 .. Len(groups) /\ g \in Members(chain.list)
        /\ \A i \in 1 .. l : groups[i] # g
    <2>1. DOMAIN groups = 1 .. Len(groups)
      OBVIOUS
    <2>2. n \in Nat \ {0} /\ l \in Nat /\ n = l + 1 /\ n <= Len(groups)
      BY <2>1
    <2>3. g \in Groups /\ g \in Members(groups)
      BY <1>1 DEF Members
    <2>4. \A i \in 1 .. l : i \in DOMAIN groups /\ i # n
      BY <2>1, <2>2
    <2> QED BY <1>1, <2>1, <2>2, <2>3, <2>4 DEF Distinct
  <1>3. /\ chain.list \in Seq(Groups) /\ chain.votes \in [Groups -> Nat]
        /\ chain.reward \in [Groups -> Nat] /\ Distinct(chain.list)
    BY GoodIs
  <1>4. /\ c \in States /\ c.votes \in [Groups -> Nat] /\ Good(c)
        /\ Rewarded(c, g) \in Nat
    BY <1>2, GoodIs DEF Settled
  <1>5. /\ c.ok /\ c.list = chain.list /\ c.reward = chain.reward
        /\ c.votes[g] = chain.votes[g]
        /\ Rewarded(c, g) = chain.votes[g] + chain.reward[g]
    BY <1>2 DEF Settled, After, Rewarded
  <1>6. After(groups, n, g) = Rewarded(c, g)
    <2>1. n \in 1 .. n
      BY <1>2
    <2> QED BY <1>1, <1>5, <2>1 DEF After
  <1>7. ASSUME NEW x \in Groups \ {g} PROVE After(groups, n, x) = c.votes[x]
    <2>1. (\E i \in 1 .. n : groups[i] = x) <=> (\E i \in 1 .. l : groups[i] = x)
      <3>1. \A i : i \in 1 .. n <=> i \in 1 .. l \/ i = n
        BY <1>2
      <3> QED BY <1>1, <1>7, <3>1
    <2> QED BY <2>1 DEF Settled, After
  <1>8. \/ Skipped(c, d) \/ Unlisted(c, g, d)
        \/ Moved(c, g, near, d) \/ Reverted(c, g, near, d)
    BY <1>1, <1>4, PayGroupIs
  <1>9. Accepts(c.list, c.votes, g, Rewarded(c, g), near)
        /\ \A p \in Places(Rest(c.list, g), c.votes, Rewarded(c, g), near) :
             PutAt(Rest(c.list, g), g, p) = c.list
    <2>0. c.list \in Seq(Groups) /\ Distinct(c.list) /\ g \in Members(c.list)
      BY <1>2, <1>3, <1>5
    <2>1. PICK k : k = PlaceOf(c.list, g)
      OBVIOUS
    <2>2. PICK m \in Nat : m = Len(c.list) /\ DOMAIN c.list = 1 .. m
      BY <2>0
    <2>3. k \in 1 .. m /\ c.list[k] = g
      <3>1. PlaceOf(c.list, g) \in DOMAIN c.list /\ c.list[PlaceOf(c.list, g)] = g
        BY ONLY <2>0, PlaceOfMember
      <3> QED BY <2>1, <2>2, <3>1
    <2>4. ASSUME NEW i \in 1 .. m, i # k PROVE After(groups, n, c.list[i]) = c.votes[c.list[i]]
      <3>1. c.list[i] \in Groups
        BY <2>0, <2>2
      <3>2. c.list[i] = c.list[k] => i = k
        BY <2>0, <2>2, <2>3 DEF Distinct
      <3> QED BY <1>7, <2>3, <2>4, <3>1, <3>2
    <2>5. k > 1 => c.votes[c.list[k - 1]] >= Rewarded(c, g)
      <3>1. ASSUME k > 1
            PROVE  k - 1 \in 1 .. m - 1 /\ k - 1 \in 1 .. m /\ k - 1 # k /\ k - 1 + 1 = k
        BY <2>2, <2>3, <3>1
      <3>2. k > 1 => After(groups, n, c.list[k - 1]) >= After(groups, n, c.list[k])
        BY <1>5, <2>2, <3>1
      <3> QED BY <1>6, <2>3, <2>4, <3>1, <3>2
    <2>6. k < m => Rewarded(c, g) >= c.votes[c.list[k + 1]]
      <3>1. ASSUME k < m
            PROVE  k \in 1 .. m - 1 /\ k + 1 \in 1 .. m /\ k + 1 # k
        BY <2>2, <2>3, <3>1
      <3>2. k < m => After(groups, n, c.list[k]) >= After(groups, n, c.list[k + 1])
        BY <1>5, <2>2, <3>1
      <3> QED BY <1>6, <2>3, <2>4, <3>1, <3>2
    <2>7. Beside(c.list, g, near)
      BY <1>1, <1>5
    <2>8. k < Len(c.list) => Rewarded(c, g) >= c.votes[c.list[k + 1]]
      BY <2>2, <2>6
    <2> QED BY ONLY <1>4, <2>1, <2>5, <2>7, <2>8, <2>0, StaysPut
  <1>10. ASSUME d.votes[g] = Rewarded(c, g), \A x \in Groups \ {g} : d.votes[x] = c.votes[x]
         PROVE  \A x \in Groups : d.votes[x] = After(groups, n, x)
    BY <1>6, <1>7, <1>10
  <1>11. CASE Unlisted(c, g, d)
    <2>1. Good(d) /\ d.list = c.list
      BY <1>2, <1>4, <1>11, UnlistedKeeps
    <2>2. d.ok = c.ok /\ d.reward = c.reward
      BY <1>2, <1>4, <1>11, <2>1, UnlistedKeeps
    <2>3. /\ d.votes[g] = Rewarded(c, g)
          /\ \A x \in Groups \ {g} : d.votes[x] = c.votes[x]
      BY <1>2, <1>4, <1>11, <2>1, UnlistedKeeps
    <2> QED BY <1>5, <1>10, <2>1, <2>2, <2>3 DEF Settled
  <1>12. CASE Moved(c, g, near, d)
    <2>1. Good(d)
      BY <1>4, <1>12, MovedKeeps
    <2>2. /\ d.ok = c.ok /\ d.reward = c.reward
          /\ \E p \in Places(Rest(c.list, g), c.votes, Rewarded(c, g), near) :
               d.list = PutAt(Rest(c.list, g), g, p)
      BY <1>4, <1>12, <2>1, MovedKeeps
    <2>3. /\ d.votes[g] = Rewarded(c, g)
          /\ \A x \in Groups \ {g} : d.votes[x] = c.votes[x]
      BY <1>4, <1>12, <2>1, MovedKeeps
    <2>4. d.list = c.list
      BY <1>9, <2>2
    <2> QED BY <1>5, <1>10, <2>1, <2>2, <2>3, <2>4 DEF Settled
  <1> QED BY <1>5, <1>8, <1>9, <1>11, <1>12 DEF Skipped, Reverted

\* With the neighbours that were just worked out all groups are paid.
LEMMA FreshPaid ==
  ASSUME Good(chain), chain.ok, NEW groups \in Seq(Groups), Distinct(groups),
         Members(groups) \subseteq Members(chain.list),
         \A n \in DOMAIN groups : \A i \in 1 .. Len(chain.list) - 1 :
           After(groups, n, chain.list[i]) >= After(groups, n, chain.list[i + 1])
  PROVE  Pay(groups, LessersAndGreaters(chain.list, chain.votes, groups)).ok
  <1>1. PICK hints : hints = LessersAndGreaters(chain.list, chain.votes, groups)
    OBVIOUS
  <1>2. PICK N \in Nat : N = Len(groups) /\ DOMAIN groups = 1 .. N
    OBVIOUS
  <1>3. PICK paid : IsPaid(paid, N, groups, hints) /\ Pay(groups, hints) = paid[N]
    BY <1>2, PayIs
  <1> DEFINE Unsettled == {n \in 0 .. N : ~Settled(paid[n], groups, n)}
  <1>4. Unsettled = {}
    <2> SUFFICES ASSUME Unsettled # {} PROVE FALSE
      OBVIOUS
    <2>1. PICK n \in Unsettled : \A j \in Unsettled : n <= j
      <3>1. Unsettled \in SUBSET Nat
        OBVIOUS
      <3> HIDE DEF Unsettled
      <3> QED BY <3>1, LeastNatural
    <2>2. n \in 0 .. N /\ ~Settled(paid[n], groups, n)
      OBVIOUS
    <2>3. paid[n] = IF n = 0 THEN chain ELSE PayGroup(groups[n], hints[n])[paid[n - 1]]
      BY <1>3, <2>2 DEF IsPaid
    <2>4. n # 0
      <3>1. Settled(chain, groups, 0)
        <4>1. \A i : i \notin 1 .. 0
          OBVIOUS
        <4> QED BY <4>1 DEF Settled, After
      <3> QED BY <2>2, <2>3, <3>1
    <2>5. PICK l \in 0 .. N : l = n - 1 /\ ~(n <= l) /\ n \in 1 .. N
      BY <2>2, <2>4
    <2>6. Settled(paid[l], groups, l)
      <3>1. l \notin Unsettled
        <4> HIDE DEF Unsettled
        <4> QED BY <2>1, <2>5
      <3> QED BY <3>1
    <2>7. paid[n] = PayGroup(groups[n], hints[n])[paid[l]]
      BY <2>3, <2>4, <2>5
    <2>8. Beside(chain.list, groups[n], hints[n])
      BY <1>1, <1>2, <2>5, BesideAre, GoodIs
    <2>9. n \in DOMAIN groups
      BY <1>2, <2>5
    <2>10. Settled(paid[n], groups, n)
      BY <2>5, <2>6, <2>7, <2>8, <2>9, SettledNext
    <2> QED BY <2>2, <2>10
  <1>5. Settled(paid[N], groups, N)
    BY <1>4
  <1> QED BY <1>1, <1>3, <1>5 DEF Settled

-----------------------------------------------------------------------------
(* The list of the contract.                                               *)

\* The list stays in order, without reverts, and every account that still belongs to
\* its group keeps it eligible; what the commands remember is a sequence of groups.
Listed(c, accounts) ==
  /\ Good(c) /\ c.ok /\ accounts \subseteq DOMAIN Elected
  /\ \A j \in accounts : Elected[j] \in Members(c.list)
Remembers(r) ==
  /\ r = [pc |-> r.pc, since |-> r.since, groups |-> r.groups, hints |-> r.hints]
  /\ r.groups \in Seq(Groups)
Ordered ==
  /\ Listed(chain, affiliated)
  /\ run = [o \in Operators |-> run[o]] /\ \A o \in Operators : Remembers(run[o])

\* It is in order at first.
LEMMA OrderedInit == Init => Ordered
  <1> SUFFICES ASSUME Init PROVE Ordered
    OBVIOUS
  <1>1. /\ Good(chain) /\ chain.ok /\ Members(Elected) \subseteq Members(chain.list)
    BY EpochsAssumption DEF Init, Good, Distinct
  <1>2. affiliated = DOMAIN Elected /\ run = [o \in Operators |-> Idle]
    BY DEF Init
  <1>3. Listed(chain, affiliated)
    BY <1>1, <1>2 DEF Members, Listed
  <1>4. Remembers(Idle)
    BY DEF Idle, Remembers
  <1>5. run = [o \in Operators |-> run[o]] /\ \A o \in Operators : run[o] = Idle
    BY <1>2
  <1> QED BY <1>3, <1>4, <1>5 DEF Ordered

\* A command that goes on, ends or reads remembers a sequence of groups.
LEMMA RunsGoOn ==
  ASSUME Ordered, [Next]_vars
  PROVE  run' = [o \in Operators |-> run'[o]] /\ \A o \in Operators : Remembers(run'[o])
  <1> DEFINE Kept == run' = [o \in Operators |-> run'[o]]
                     /\ \A o \in Operators : Remembers(run'[o])
  <1>1. CASE UNCHANGED run
    BY <1>1 DEF Ordered
  <1>2. ASSUME NEW o \in Operators, NEW pc2, Goto(o, pc2) PROVE Kept
    <2>1. PICK r : r = [run[o] EXCEPT !.pc = pc2]
      OBVIOUS
    <2>2. run' = [run EXCEPT ![o] = r]
      BY <1>2, <2>1 DEF Goto
    <2>3. Remembers(r)
      BY <2>1 DEF Ordered, Remembers
    <2> QED BY <2>2, <2>3 DEF Ordered
  <1>3. ASSUME NEW o \in Operators, End(o) PROVE Kept
    <2>1. Remembers(Idle)
      BY DEF Idle, Remembers
    <2> QED BY <1>3, <2>1 DEF End, Ordered
  <1>4. ASSUME NEW o \in Operators, ReadGroups(o) PROVE Kept
    <2>1. PICK groups : groups = GroupsToProcess(run[o].since)
      OBVIOUS
    <2>2. PICK r : r = [run[o] EXCEPT !.pc = "hints", !.groups = groups]
      OBVIOUS
    <2>3. run' = [run EXCEPT ![o] = r]
      BY <1>4, <2>1, <2>2 DEF ReadGroups
    <2>4. groups \in Seq(Groups)
      BY <2>1, ElectedWithoutIs DEF GroupsToProcess
    <2>5. Remembers(r)
      <3>1. PICK e : e = run[o]
        OBVIOUS
      <3>2. e = [pc |-> e.pc, since |-> e.since, groups |-> e.groups, hints |-> e.hints]
        BY <3>1 DEF Ordered, Remembers
      <3>3. r = [pc |-> "hints", since |-> e.since, groups |-> groups, hints |-> e.hints]
        BY <2>2, <3>1, <3>2
      <3> QED BY <2>4, <3>3 DEF Remembers
    <2> QED BY <2>3, <2>5 DEF Ordered
  <1>9. ASSUME NEW o \in Operators, ReadCurrentEpoch(o) PROVE Kept
    <2>1. PICK r : r = [run[o] EXCEPT !.pc = "events", !.since = epoch]
      OBVIOUS
    <2>2. run' = [run EXCEPT ![o] = r]
      BY <1>9, <2>1 DEF ReadCurrentEpoch
    <2>3. Remembers(r)
      <3>1. PICK e : e = run[o]
        OBVIOUS
      <3>2. /\ e = [pc |-> e.pc, since |-> e.since, groups |-> e.groups, hints |-> e.hints]
            /\ e.groups \in Seq(Groups)
        BY <3>1 DEF Ordered, Remembers
      <3>3. r = [pc |-> "events", since |-> epoch, groups |-> e.groups, hints |-> e.hints]
        BY <2>1, <3>1, <3>2
      <3> QED BY <3>2, <3>3 DEF Remembers
    <2> QED BY <2>2, <2>3 DEF Ordered
  <1>5. ASSUME NEW o \in Operators, ReadNeighbours(o) PROVE Kept
    <2>1. PICK hints : hints = LessersAndGreaters(chain.list, chain.votes, run[o].groups)
      OBVIOUS
    <2>2. PICK r : r = [run[o] EXCEPT !.pc = "send", !.hints = hints]
      OBVIOUS
    <2>3. run' = [run EXCEPT ![o] = r]
      BY <1>5, <2>1, <2>2 DEF ReadNeighbours
    <2>4. Remembers(r)
      <3>1. PICK e : e = run[o]
        OBVIOUS
      <3>2. /\ e = [pc |-> e.pc, since |-> e.since, groups |-> e.groups, hints |-> e.hints]
            /\ e.groups \in Seq(Groups)
        BY <3>1 DEF Ordered, Remembers
      <3>3. r = [pc |-> "send", since |-> e.since, groups |-> e.groups, hints |-> hints]
        BY <2>2, <3>1, <3>2
      <3> QED BY <3>2, <3>3 DEF Remembers
    <2> QED BY <2>3, <2>4 DEF Ordered
  <1>6. ASSUME NEW o \in Operators, Begin(o) \/ Command(o) \/ Cut(o),
               ~ReadCurrentEpoch(o), ~ReadGroups(o), ~ReadNeighbours(o)
        PROVE  End(o) \/ \E pc2 : Goto(o, pc2)
    <2>1. Begin(o) => \E pc2 : Goto(o, pc2)
      BY Zenon DEF Begin
    <2>2. ReadTime(o) \/ ReadStatus(o) \/ CheckElected(o) \/ ReadStatusAgain(o)
          => End(o) \/ \E pc2 : Goto(o, pc2)
      BY DEF ReadTime, ReadStatus, CheckElected, ReadStatusAgain
    <2>3. SendStart(o) \/ ReadProcessing(o) \/ SetToProcessGroups(o)
          => End(o) \/ \E pc2 : Goto(o, pc2)
      BY DEF SendStart, ReadProcessing, SetToProcessGroups
    <2>4. ReadIndividual(o) => \E pc2 : Goto(o, pc2)
      BY Zenon DEF ReadIndividual
    <2>5. SendGroups(o) \/ Cut(o) => End(o)
      BY DEF SendGroups, Cut
    <2> QED BY <1>6, <2>1, <2>2, <2>3, <2>4, <2>5 DEF Command
  <1>7. ASSUME Vote \/ ActivateCommand PROVE UNCHANGED run
    BY <1>7 DEF Vote, ActivateCommand, SendVote, ReadVotes, BeginActivate, ReadEpoch,
      WakeUp, Poll, ReadPending, ReadActivatable, Activate, VoterReads
  <1>8. ASSUME \/ Tick \/ UNCHANGED vars \/ \E i \in DOMAIN Elected : Leave(i)
               \/ \E g \in Groups : OtherProcesses(g) \/ OtherActivates(g)
        PROVE  UNCHANGED run
    BY <1>8 DEF Tick, vars, Leave, OtherProcesses, OtherActivates
  <1> QED BY <1>1, <1>2, <1>3, <1>4, <1>5, <1>6, <1>7, <1>8, <1>9 DEF Next

\* Payments that do not revert leave the same groups, in order.
LEMMA PayLists ==
  ASSUME Listed(chain, affiliated), NEW groups \in Seq(Groups), NEW hints,
         Pay(groups, hints).ok
  PROVE  Listed(Pay(groups, hints), affiliated)
  <1>1. Good(chain)
    BY DEF Listed
  <1>2. Good(Pay(groups, hints)) /\ Members(Pay(groups, hints).list) = Members(chain.list)
    BY <1>1, PayKeeps
  <1> QED BY <1>2 DEF Listed

\* So does a vote.
LEMMA VoteLists ==
  ASSUME Listed(chain, affiliated), SendVote
  PROVE  Listed(chain', affiliated)
  <1>1. CASE UNCHANGED chain
    BY <1>1
  <1>2. CASE chain' # chain
    <2>1. PICK c, d : c = chain /\ d = chain'
      OBVIOUS
    <2>2. PICK g, near : g = ballot.group /\ near = ballot.hint
      OBVIOUS
    <2>3. PICK total : total = c.votes[g] + 1
      OBVIOUS
    <2>4. /\ g \in Members(c.list) /\ Accepts(c.list, c.votes, g, total, near)
          /\ d = Move(c, g, total, near)
      BY <1>2, <2>1, <2>2, <2>3 DEF SendVote
    <2>5. Good(c)
      BY <2>1 DEF Listed
    <2>6. total \in Nat
      <3>1. g \in Groups /\ c.votes \in [Groups -> Nat]
        BY <2>4, <2>5, GoodIs DEF Members
      <3> QED BY <2>3, <3>1
    <2>7. Places(Rest(c.list, g), c.votes, total, near) # {}
      BY <2>4 DEF Accepts
    <2>8. Good(d)
      BY ONLY <2>4, <2>5, <2>6, <2>7, MoveIs
    <2>9. Members(d.list) = Members(c.list) /\ d.ok = c.ok
      BY ONLY <2>4, <2>5, <2>6, <2>7, <2>8, MoveIs
    <2> QED BY <2>1, <2>8, <2>9 DEF Listed
  <1> QED BY <1>1, <1>2

\* A group that loses its last account leaves the others in order.
LEMMA LeaveLists ==
  ASSUME Listed(chain, affiliated), NEW i \in DOMAIN Elected, Leave(i)
  PROVE  Listed(chain', affiliated')
  <1>1. PICK g : g = Elected[i]
    OBVIOUS
  <1>2. affiliated' = affiliated \ {i} /\ i \in affiliated /\ g \in Members(chain.list)
    BY <1>1 DEF Leave, Listed
  <1>3. CASE chain' = chain
    BY <1>2, <1>3 DEF Listed
  <1>4. CASE /\ \A j \in affiliated \ {i} : Elected[j] # g
             /\ chain' = [chain EXCEPT !.list = Rest(@, g)]
    <2>1. PICK rest : rest = Rest(chain.list, g)
      OBVIOUS
    <2>2. PICK c : c = chain
      OBVIOUS
    <2>3. Good(c)
      BY <2>2 DEF Listed
    <2>4. /\ c = [ok |-> c.ok, list |-> c.list, votes |-> c.votes, reward |-> c.reward]
          /\ c.ok \in BOOLEAN /\ c.list \in Seq(Groups) /\ c.votes \in [Groups -> Nat]
          /\ c.reward \in [Groups -> Nat] /\ Distinct(c.list) /\ Sorted(c.list, c.votes)
      BY <2>3, GoodIs
    <2>5. g \in Members(c.list) /\ rest = Rest(c.list, g)
      BY <1>2, <2>1, <2>2
    <2>6. rest \in Seq(Groups) /\ Distinct(rest)
      BY <2>4, <2>5, RestShifts
    <2>7. Sorted(rest, c.votes) /\ Members(rest) = Members(c.list) \ {g}
      BY <2>4, <2>5, RestIs
    <2>8. PICK d : d = chain'
      OBVIOUS
    <2>9. d = [ok |-> c.ok, list |-> rest, votes |-> c.votes, reward |-> c.reward]
      BY <1>4, <2>2, <2>4, <2>5, <2>8
    <2>10. d \in States /\ d.list = rest /\ d.votes = c.votes /\ d.ok = c.ok
      BY <2>4, <2>6, <2>9 DEF States
    <2>11. Good(d)
      BY <2>6, <2>7, <2>10 DEF Good
    <2>12. \A j \in affiliated' : Elected[j] \in Members(d.list)
      BY <1>2, <1>4, <2>2, <2>7, <2>10 DEF Listed
    <2> QED BY <1>2, <2>2, <2>8, <2>10, <2>11, <2>12 DEF Listed
  <1> QED BY <1>1, <1>3, <1>4 DEF Leave

\* No step leaves the list out of order.
LEMMA OrderedNext == Ordered /\ [Next]_vars => Ordered'
  <1> SUFFICES ASSUME Ordered, [Next]_vars PROVE Listed(chain', affiliated')
    BY RunsGoOn DEF Ordered
  <1>1. Listed(chain, affiliated)
    BY DEF Ordered
  <1>2. CASE UNCHANGED <<chain, affiliated>>
    BY <1>1, <1>2
  <1>3. ASSUME NEW o \in Operators, SendGroups(o) PROVE Listed(chain', affiliated')
    <2>1. PICK groups : groups = run[o].groups
      OBVIOUS
    <2>2. PICK hints : hints = run[o].hints
      OBVIOUS
    <2>3. groups \in Seq(Groups)
      BY <2>1 DEF Ordered, Remembers
    <2>4. UNCHANGED affiliated
      BY <1>3 DEF SendGroups
    <2>5. \/ UNCHANGED chain
          \/ chain' = Pay(groups, hints) /\ Pay(groups, hints).ok
      BY <1>3, <2>1, <2>2 DEF SendGroups, ProcessAccepted, FinishAccepted, Process
    <2> QED BY <1>1, <2>3, <2>4, <2>5, PayLists
  <1>4. ASSUME NEW g \in Groups, OtherProcesses(g) PROVE Listed(chain', affiliated')
    <2>1. PICK groups : groups = <<g>>
      OBVIOUS
    <2>2. groups \in Seq(Groups)
      BY <2>1
    <2>3. PICK hints : chain' = Pay(groups, hints) /\ Pay(groups, hints).ok
      BY <1>4, <2>1 DEF OtherProcesses, ProcessAccepted, Process
    <2>4. UNCHANGED affiliated
      BY <1>4 DEF OtherProcesses
    <2> QED BY <1>1, <2>2, <2>3, <2>4, PayLists
  <1>5. CASE SendVote
    <2>1. UNCHANGED affiliated
      BY <1>5 DEF SendVote
    <2> QED BY <1>1, <1>5, <2>1, VoteLists
  <1>6. ASSUME NEW i \in DOMAIN Elected, Leave(i) PROVE Listed(chain', affiliated')
    BY <1>1, <1>6, LeaveLists
  <1>7. ASSUME NEW o \in Operators, Begin(o) \/ Command(o) \/ Cut(o), ~SendGroups(o)
        PROVE  UNCHANGED <<chain, affiliated>>
    BY <1>7 DEF Begin, Command, Cut, Reads, ReadTime, ReadStatus, CheckElected,
      ReadStatusAgain, ReadProcessing, ReadIndividual, ReadCurrentEpoch,
      ReadGroups, ReadNeighbours,
      SendStart, SetToProcessGroups
  <1>8. ASSUME Vote \/ ActivateCommand, ~SendVote PROVE UNCHANGED <<chain, affiliated>>
    BY <1>8 DEF Vote, ActivateCommand, ReadVotes, BeginActivate, ReadEpoch,
      WakeUp, Poll, ReadPending, ReadActivatable, Activate, VoterReads
  <1>9. ASSUME Tick \/ UNCHANGED vars \/ \E g \in Groups : OtherActivates(g)
        PROVE  UNCHANGED <<chain, affiliated>>
    BY <1>9 DEF Tick, vars, OtherActivates
  <1> QED BY <1>2, <1>3, <1>4, <1>5, <1>6, <1>7, <1>8, <1>9 DEF Next

\* If the order of the groups stays the same, the neighbours that the wrapper works out
\* fit for all groups one after the other (EpochManager.ts, getLessersAndGreaters).
THEOREM PaysInOrder == Spec => []PaysWhenOrderKept
  <1>1. ASSUME Ordered, Left, status # "none", OrderKept PROVE FreshGroupsPaid
    <2>1. PICK groups : groups = GroupsToProcess(epoch)
      OBVIOUS
    <2>2. /\ groups \in Seq(Groups) /\ Distinct(groups)
          /\ Members(groups) = toProcess
      BY <1>1, <2>1, ElectedWithoutIs DEF GroupsToProcess, EventsSince, Left
    <2>3. toProcess \subseteq Members(chain.list)
      BY <1>1 DEF OrderKept
    <2>4. \A n \in DOMAIN groups : \A i \in 1 .. Len(chain.list) - 1 :
            After(groups, n, chain.list[i]) >= After(groups, n, chain.list[i + 1])
      BY <1>1, <2>1 DEF OrderKept, After
    <2>5. Good(chain) /\ chain.ok
      BY <1>1 DEF Ordered, Listed
    <2>6. Pay(groups, LessersAndGreaters(chain.list, chain.votes, groups)).ok
      BY <2>2, <2>3, <2>4, <2>5, FreshPaid
    <2> QED BY <2>1, <2>6 DEF FreshGroupsPaid
  <1>2. Ordered /\ Left => PaysWhenOrderKept
    BY <1>1 DEF PaysWhenOrderKept
  <1> QED BY <1>2, LeftInit, LeftNext, OrderedInit, OrderedNext, PTL DEF Spec

-----------------------------------------------------------------------------
(* Types.                                                                  *)

\* Only an epoch whose time is over is ended, and there is always one after it.
Ending ==
  /\ epoch \in 1 .. MaxEpoch /\ due \in BOOLEAN
  /\ status \in {"none", "started", "individual"}
  /\ toProcess \subseteq Members(Elected)
  /\ processed \in [first: SUBSET Groups, later: SUBSET Groups]
  /\ status # "none" => due
  /\ due => epoch < MaxEpoch

\* Nobody else takes part, and votes wait since an epoch that has begun.
Taking ==
  /\ cast \in Casts /\ cut \in BOOLEAN
  /\ pending \in [Groups -> 0 .. epoch] /\ active \subseteq Groups

\* They hold at first.
LEMMA TypedInit == Init => Ending /\ Taking
  <1> SUFFICES ASSUME Init PROVE Ending /\ Taking
    OBVIOUS
  <1>1. /\ epoch = 1 /\ due = FALSE /\ status = "none" /\ toProcess = {}
        /\ processed = [first |-> {}, later |-> {}]
    BY DEF Init
  <1>2. Ending
    <2>1. 1 \in 1 .. MaxEpoch
      <3>1. MaxEpoch \in Nat /\ MaxEpoch # 0
        BY EpochsAssumption
      <3> QED BY <3>1
    <2>2. processed \in [first: SUBSET Groups, later: SUBSET Groups]
      BY <1>1
    <2> QED BY <1>1, <2>1, <2>2 DEF Ending
  <1>3. pending = [g \in Groups |-> 0] /\ active = {} /\ cast \in Casts /\ cut = FALSE
    BY DEF Init
  <1>4. pending \in [Groups -> 0 .. epoch]
    BY <1>1, <1>3
  <1> QED BY <1>2, <1>3, <1>4 DEF Taking

\* Whoever processes groups ends an epoch or leaves fewer of them.
LEMMA EndingByProcess ==
  ASSUME Ending, status # "none", NEW groups \in Seq(Groups), NEW hints,
         Process(groups, hints)
  PROVE  Ending'
  <1>1. Members(groups) \subseteq Groups
    BY DEF Members
  <1>2. PICK later : later = processed.later \cup Members(groups)
    OBVIOUS
  <1>3. later \subseteq Groups
    BY <1>1, <1>2 DEF Ending
  <1>4. MaxEpoch \in Nat
    BY EpochsAssumption
  <1>5. CASE EpochEnds(groups)
    <2>1. /\ epoch' = epoch + 1 /\ due' = FALSE /\ status' = "none" /\ toProcess' = {}
          /\ processed' = [first |-> Members(groups), later |-> {}]
      BY <1>5 DEF EpochEnds
    <2>2. epoch' \in 1 .. MaxEpoch
      BY <1>4, <2>1 DEF Ending
    <2>3. processed' \in [first: SUBSET Groups, later: SUBSET Groups]
      BY <1>1, <2>1
    <2> QED BY <2>1, <2>2, <2>3 DEF Ending
  <1>6. CASE /\ toProcess' = toProcess \ Members(groups)
             /\ processed' = [processed EXCEPT !.later = @ \cup Members(groups)]
             /\ UNCHANGED <<epoch, due, status>>
    <2>1. processed' = [first |-> processed.first, later |-> later]
      BY <1>2, <1>6 DEF Ending
    <2>2. processed' \in [first: SUBSET Groups, later: SUBSET Groups]
      BY <1>3, <2>1 DEF Ending
    <2> QED BY <1>6, <2>2 DEF Ending
  <1> QED BY <1>5, <1>6 DEF Process

\* Every step keeps that.
LEMMA EndingNext == Ordered /\ Ending /\ [Next]_vars => Ending'
  <1> SUFFICES ASSUME Ordered, Ending, [Next]_vars PROVE Ending'
    OBVIOUS
  <1>1. CASE UNCHANGED process
    BY <1>1 DEF process, Ending
  <1>2. ASSUME NEW o \in Operators, SendGroups(o) PROVE Ending'
    <2>1. PICK groups : groups = run[o].groups
      OBVIOUS
    <2>2. PICK hints : hints = run[o].hints
      OBVIOUS
    <2>3. groups \in Seq(Groups)
      BY <2>1 DEF Ordered, Remembers
    <2>4. UNCHANGED process \/ (status # "none" /\ Process(groups, hints))
      BY <1>2, <2>1, <2>2 DEF SendGroups, ProcessAccepted, FinishAccepted
    <2> QED BY <1>1, <2>3, <2>4, EndingByProcess
  <1>3. ASSUME NEW g \in Groups, OtherProcesses(g) PROVE Ending'
    <2>1. PICK groups : groups = <<g>>
      OBVIOUS
    <2>2. groups \in Seq(Groups)
      BY <2>1
    <2>3. PICK hints : Process(groups, hints)
      BY <1>3, <2>1 DEF OtherProcesses
    <2>4. status # "none"
      BY <1>3 DEF OtherProcesses
    <2> QED BY <2>2, <2>3, <2>4, EndingByProcess
  <1>4. ASSUME NEW o \in Operators, SendStart(o) PROVE Ending'
    <2>1. UNCHANGED <<epoch, due, processed>>
      BY <1>4 DEF SendStart
    <2>2. \/ UNCHANGED <<status, toProcess>>
          \/ due /\ status' = "started" /\ toProcess' = Members(Elected)
      BY <1>4 DEF SendStart
    <2> QED BY <2>1, <2>2 DEF Ending
  <1>5. ASSUME NEW o \in Operators, SetToProcessGroups(o) PROVE Ending'
    <2>1. UNCHANGED <<epoch, due, processed, toProcess>>
      BY <1>5 DEF SetToProcessGroups
    <2>2. UNCHANGED status \/ (status = "started" /\ status' = "individual")
      BY <1>5 DEF SetToProcessGroups
    <2> QED BY <2>1, <2>2 DEF Ending
  <1>6. CASE Tick
    BY <1>6 DEF Tick, Ending
  <1>7. ASSUME NEW o \in Operators, Begin(o) \/ Command(o) \/ Cut(o)
        PROVE  SendGroups(o) \/ SendStart(o) \/ SetToProcessGroups(o) \/ UNCHANGED process
    BY <1>7 DEF Begin, Command, Cut, Reads, ReadTime, ReadStatus, CheckElected,
      ReadStatusAgain, ReadProcessing, ReadIndividual, ReadCurrentEpoch,
      ReadGroups, ReadNeighbours
  <1>8. ASSUME Vote \/ ActivateCommand PROVE UNCHANGED process
    BY <1>8 DEF Vote, ActivateCommand, SendVote, ReadVotes, BeginActivate, ReadEpoch,
      WakeUp, Poll, ReadPending, ReadActivatable, Activate, VoterReads
  <1>9. ASSUME NEW i \in DOMAIN Elected, Leave(i) PROVE UNCHANGED process
    BY <1>9 DEF Leave
  <1>10. ASSUME NEW g \in Groups, OtherActivates(g) PROVE UNCHANGED process
    BY <1>10 DEF OtherActivates
  <1>11. CASE UNCHANGED vars
    BY <1>1, <1>11 DEF vars
  <1> QED BY <1>1, <1>2, <1>3, <1>4, <1>5, <1>6, <1>7, <1>8, <1>9, <1>10, <1>11 DEF Next

\* So do the votes.
LEMMA TakingNext == Ending /\ Taking /\ [Next]_vars => Taking'
  <1> SUFFICES ASSUME Ending, Taking, [Next]_vars PROVE Taking'
    OBVIOUS
  <1>1. epoch \in Nat /\ epoch' \in Nat /\ epoch' >= epoch
    BY EpochGrows, EpochsAssumption DEF Ending
  <1>2. UNCHANGED cast
    BY DEF Next, Begin, Command, Cut, Reads, ReadTime, ReadStatus, CheckElected,
      ReadStatusAgain, ReadProcessing, ReadIndividual, ReadCurrentEpoch,
      ReadGroups, ReadNeighbours,
      SendStart, SetToProcessGroups, SendGroups, Vote, ActivateCommand, SendVote, ReadVotes,
      BeginActivate, ReadEpoch, WakeUp, Poll, ReadPending, ReadActivatable, Activate,
      VoterReads, Tick, Leave, OtherProcesses, OtherActivates, vars
  <1>3. UNCHANGED cut \/ cut' = TRUE
    BY DEF Next, Begin, Command, Cut, Reads, ReadTime, ReadStatus, CheckElected,
      ReadStatusAgain, ReadProcessing, ReadIndividual, ReadCurrentEpoch,
      ReadGroups, ReadNeighbours,
      SendStart, SetToProcessGroups, SendGroups, Vote, ActivateCommand, SendVote, ReadVotes,
      BeginActivate, ReadEpoch, WakeUp, Poll, ReadPending, ReadActivatable, Activate,
      VoterReads, Tick, Leave, OtherProcesses, OtherActivates, vars
  <1>4. \/ UNCHANGED <<pending, active>>
        \/ \E g \in Groups : pending' = [pending EXCEPT ![g] = 0] /\ active' = active \cup {g}
        \/ \E g : pending' = [pending EXCEPT ![g] = epoch] /\ UNCHANGED active
    <2>1. ASSUME NEW o \in Operators, Begin(o) \/ Command(o) \/ Cut(o)
          PROVE  UNCHANGED voter
      BY <2>1 DEF Begin, Command, Cut, Reads, ReadTime, ReadStatus, CheckElected,
        ReadStatusAgain, ReadProcessing, ReadIndividual, ReadCurrentEpoch,
      ReadGroups, ReadNeighbours,
        SendStart, SetToProcessGroups, SendGroups
    <2>2. ASSUME NEW g \in Groups, Activate(g) \/ OtherActivates(g)
          PROVE  \/ UNCHANGED <<pending, active>>
                 \/ pending' = [pending EXCEPT ![g] = 0] /\ active' = active \cup {g}
      BY <2>2 DEF Activate, OtherActivates
    <2>3. CASE SendVote
      BY <2>3 DEF SendVote
    <2>4. ASSUME Vote \/ ActivateCommand, ~SendVote, ~\E g \in Groups : Activate(g)
          PROVE  UNCHANGED <<pending, active>>
      BY <2>4 DEF Vote, ActivateCommand, ReadVotes, BeginActivate, ReadEpoch,
        WakeUp, Poll, ReadPending, ReadActivatable, VoterReads
    <2>5. ASSUME \/ Tick \/ UNCHANGED vars \/ \E i \in DOMAIN Elected : Leave(i)
                 \/ \E g \in Groups : OtherProcesses(g)
          PROVE  UNCHANGED voter
      BY <2>5 DEF Tick, vars, Leave, OtherProcesses
    <2> QED BY <2>1, <2>2, <2>3, <2>4, <2>5 DEF Next, Vote, ActivateCommand, voter
  <1>5. pending' \in [Groups -> 0 .. epoch'] /\ active' \subseteq Groups
    <2>1. pending \in [Groups -> 0 .. epoch'] /\ 0 \in 0 .. epoch' /\ epoch \in 0 .. epoch'
      <3>1. \A n \in 0 .. epoch : n \in 0 .. epoch'
        BY <1>1
      <3> QED BY <1>1, <3>1 DEF Taking
    <2> QED BY <1>4, <2>1 DEF Taking
  <1> QED BY <1>2, <1>3, <1>5 DEF Taking

\* Types, and a list that is in order (EpochManager.ts and Election.ts rely on it).
THEOREM EpochsTypes == Spec => []TypeOK
  <1>1. Ordered /\ Ending /\ Taking => TypeOK
    BY GoodIs DEF Ordered, Listed, Ending, Taking, TypeOK, Members
  <1> QED BY <1>1, OrderedInit, OrderedNext, TypedInit, EndingNext, TakingNext, PTL DEF Spec

-----------------------------------------------------------------------------
(* The governance queue: the neighbours of a place.                        *)

\* The two elements next to a place in an order.
LEMMA NextInOrder ==
  ASSUME NEW P, IsFiniteSet(P), NEW R, InOrder(R, P), NEW k \in P
  PROVE  /\ RankIn(R, P, k) = 1 => \A j \in P : <<k, j>> \in R
         /\ RankIn(R, P, k) = Cardinality(P) => \A j \in P : <<j, k>> \in R
         /\ \A l \in P : RankIn(R, P, l) + 1 = RankIn(R, P, k) =>
              /\ l # k /\ <<l, k>> \in R
              /\ \A j \in P : <<k, j>> \in R \/ <<j, l>> \in R
  <1>1. /\ Cardinality(P) \in Nat
        /\ \A i \in P : RankIn(R, P, i) \in 1 .. Cardinality(P)
    BY Ranks
  <1>2. ASSUME NEW i \in P, NEW j \in P, <<j, i>> \notin R
        PROVE  RankIn(R, P, i) < RankIn(R, P, j)
    <2>1. <<i, j>> \in R /\ i # j
      BY <1>2 DEF InOrder
    <2> QED BY <2>1, RankGrows
  <1>3. ASSUME RankIn(R, P, k) = 1, NEW j \in P PROVE <<k, j>> \in R
    <2>1. RankIn(R, P, j) \in 1 .. Cardinality(P)
      BY <1>1
    <2>2. ~(RankIn(R, P, j) < RankIn(R, P, k))
      BY <1>1, <1>3, <2>1
    <2> QED BY <1>2, <2>2
  <1>4. ASSUME RankIn(R, P, k) = Cardinality(P), NEW j \in P PROVE <<j, k>> \in R
    <2>1. RankIn(R, P, j) \in 1 .. Cardinality(P)
      BY <1>1
    <2>2. ~(RankIn(R, P, k) < RankIn(R, P, j))
      BY <1>1, <1>4, <2>1
    <2> QED BY <1>2, <2>2
  <1>5. ASSUME NEW l \in P, RankIn(R, P, l) + 1 = RankIn(R, P, k)
        PROVE  /\ l # k /\ <<l, k>> \in R
               /\ \A j \in P : <<k, j>> \in R \/ <<j, l>> \in R
    <2>1. PICK a \in Nat, b \in Nat : a = RankIn(R, P, l) /\ b = RankIn(R, P, k) /\ a + 1 = b
      BY <1>1, <1>5
    <2>2. ~(RankIn(R, P, k) < RankIn(R, P, l)) /\ l # k
      BY <2>1
    <2>3. <<l, k>> \in R
      BY <1>2, <2>2
    <2>4. ASSUME NEW j \in P, <<k, j>> \notin R, <<j, l>> \notin R PROVE FALSE
      <3>1. PICK c \in Nat : c = RankIn(R, P, j)
        BY <1>1
      <3>2. c < b
        BY <1>2, <2>1, <2>4, <3>1
      <3>3. a < c
        BY <1>2, <2>1, <2>4, <3>1
      <3> QED BY <2>1, <3>2, <3>3
    <2> QED BY <2>2, <2>3, <2>4
  <1> QED BY <1>3, <1>4, <1>5

\* The order in which sortedQueue puts the indexes of a list.
Precedes(list, votes, i, j) ==
  \/ votes[list[i]] < votes[list[j]]
  \/ votes[list[i]] = votes[list[j]] /\ i <= j
Upvoted(list, votes) ==
  {w \in (DOMAIN list) \X (DOMAIN list) : Precedes(list, votes, w[1], w[2])}

LEMMA UpvotedIs ==
  ASSUME NEW list, NEW votes, NEW i \in DOMAIN list, NEW j \in DOMAIN list
  PROVE  <<i, j>> \in Upvoted(list, votes) <=> Precedes(list, votes, i, j)
  <1>1. PICK w : w = <<i, j>>
    OBVIOUS
  <1>2. w \in (DOMAIN list) \X (DOMAIN list) /\ w[1] = i /\ w[2] = j
    BY <1>1
  <1>3. w \in Upvoted(list, votes) <=> Precedes(list, votes, w[1], w[2])
    BY <1>2 DEF Upvoted
  <1> QED BY <1>1, <1>2, <1>3

\* It is an order.
LEMMA UpvotedInOrder ==
  ASSUME NEW S, NEW list \in Seq(S), NEW votes, \A x \in S : votes[x] \in Int
  PROVE  /\ IsFiniteSet(DOMAIN list) /\ Cardinality(DOMAIN list) = Len(list)
         /\ InOrder(Upvoted(list, votes), DOMAIN list)
  <1>1. /\ Len(list) \in Nat /\ DOMAIN list = 1 .. Len(list)
        /\ \A i \in DOMAIN list : i \in Int /\ votes[list[i]] \in Int
    OBVIOUS
  <1>2. IsFiniteSet(DOMAIN list) /\ Cardinality(DOMAIN list) = Len(list)
    <2>1. IsFiniteSet(1 .. Len(list)) /\ Cardinality(1 .. Len(list)) = Len(list)
      BY <1>1, FS_Interval
    <2> QED BY <1>1, <2>1
  <1>3. InOrder(Upvoted(list, votes), DOMAIN list)
    <2> DEFINE D == DOMAIN list
               before(i, j) == Precedes(list, votes, i, j)
    <2>1. \A i, j \in D : <<i, j>> \in Upvoted(list, votes) <=> before(i, j)
      BY UpvotedIs
    <2>2. /\ \A i \in D : before(i, i)
          /\ \A i, j \in D : before(i, j) \/ before(j, i)
          /\ \A i, j \in D : before(i, j) /\ before(j, i) => i = j
          /\ \A i, j, k \in D : before(i, j) /\ before(j, k) => before(i, k)
      BY <1>1 DEF Precedes
    <2> HIDE DEF before
    <2> QED BY <2>1, <2>2 DEF InOrder
  <1> QED BY <1>2, <1>3

\* sortedQueue puts each element at its rank.
LEMMA SortedQueueIs ==
  ASSUME NEW S, NEW list \in Seq(S), Distinct(list), NEW votes, \A x \in S : votes[x] \in Int
  PROVE  LET q == SortedQueue(list, votes)
             R == Upvoted(list, votes)
         IN /\ q \in Seq(S) /\ Len(q) = Len(list) /\ Distinct(q)
            /\ Members(q) = Members(list)
            /\ \A i \in DOMAIN list :
                 RankIn(R, DOMAIN list, i) \in 1 .. Len(list)
                 /\ q[RankIn(R, DOMAIN list, i)] = list[i]
            /\ \A n \in 1 .. Len(list) : \E i \in DOMAIN list : RankIn(R, DOMAIN list, i) = n
  <1> DEFINE q == SortedQueue(list, votes)
             R == Upvoted(list, votes)
             D == DOMAIN list
             rank(i) == RankIn(R, D, i)
             at(n) == CHOOSE i \in D : rank(i) = n
  <1>1. /\ Len(list) \in Nat /\ D = 1 .. Len(list) /\ \A i \in D : list[i] \in S
    OBVIOUS
  <1>2. IsFiniteSet(D) /\ Cardinality(D) = Len(list) /\ InOrder(R, D)
    BY UpvotedInOrder
  <1>3. /\ \A i \in D : rank(i) \in 1 .. Len(list)
        /\ \A i, k \in D : rank(i) = rank(k) => i = k
        /\ \A n \in 1 .. Len(list) : \E i \in D : rank(i) = n
    <2> HIDE DEF R, D
    <2> QED BY <1>2, Ranks
  <1>4. q = [n \in D |-> list[at(n)]]
    <2> DEFINE upTo(i) == {j \in D : Precedes(list, votes, j, i)}
               of(n) == CHOOSE i \in D : Cardinality(upTo(i)) = n
    <2>1. ASSUME NEW i \in D PROVE rank(i) = Cardinality(upTo(i))
      <3>1. \A j \in D : <<j, i>> \in R <=> Precedes(list, votes, j, i)
        BY UpvotedIs
      <3>2. {j \in D : <<j, i>> \in R} = upTo(i)
        BY <3>1
      <3> QED BY <3>2 DEF RankIn
    <2>2. ASSUME NEW n \in D
          PROVE  at(n) = of(n)
      <3> HIDE DEF R, upTo
      <3> QED BY <2>1
    <2>3. q = [n \in D |-> list[of(n)]]
      BY DEF SortedQueue, Precedes
    <2> HIDE DEF R, D, upTo, q, rank, at, of
    <2> QED BY <2>2, <2>3
  <1>5. \A n \in D : at(n) \in D /\ rank(at(n)) = n
    <2> HIDE DEF R
    <2> QED BY <1>1, <1>3
  <1>6. \A i \in D : at(rank(i)) = i
    <2> HIDE DEF R
    <2> QED BY <1>1, <1>3, <1>5
  <1> HIDE DEF q, R, rank, at
  <1>7. q \in Seq(S) /\ Len(q) = Len(list) /\ DOMAIN q = D
    <2>1. q \in [1 .. Len(list) -> S]
      BY <1>1, <1>4, <1>5
    <2> QED BY <1>1, <2>1
  <1>8. \A i \in D : q[rank(i)] = list[i]
    BY <1>1, <1>3, <1>4, <1>6
  <1>9. Distinct(q)
    <2>1. \A i, j \in D : list[i] = list[j] => i = j
      BY DEF Distinct
    <2> QED BY <1>4, <1>5, <1>7, <2>1 DEF Distinct
  <1>10. Members(q) = Members(list)
    <2>1. \A n \in D : q[n] \in Members(list)
      BY <1>4, <1>5 DEF Members
    <2>2. \A i \in D : rank(i) \in DOMAIN q /\ list[i] = q[rank(i)]
      BY <1>1, <1>3, <1>7, <1>8
    <2>3. \A i \in D : list[i] \in Members(q)
      BY <2>2 DEF Members
    <2> QED BY <1>7, <2>1, <2>3 DEF Members
  <1> QED BY <1>3, <1>7, <1>8, <1>9, <1>10 DEF q, R, D, rank

\* What is next to an element after sortedQueue.
LEMMA NeighboursAre ==
  ASSUME NEW S, NEW list \in Seq(S), Distinct(list), NEW p \in Members(list),
         NEW votes, \A x \in S : votes[x] \in Int
  PROVE  LET D == DOMAIN list
             R == Upvoted(list, votes)
             k == PlaceOf(list, p)
             h == LesserAndGreaterOf(SortedQueue(list, votes), p)
         IN /\ \/ h.lesser = Nobody /\ \A j \in D : <<k, j>> \in R
               \/ \E l \in D : /\ h.lesser = list[l] /\ l # k /\ <<l, k>> \in R
                              /\ \A j \in D : <<k, j>> \in R \/ <<j, l>> \in R
            /\ \/ h.greater = Nobody /\ \A j \in D : <<j, k>> \in R
               \/ \E g \in D : /\ h.greater = list[g] /\ g # k /\ <<k, g>> \in R
                              /\ \A j \in D : <<g, j>> \in R \/ <<j, k>> \in R
  <1> DEFINE D == DOMAIN list
             R == Upvoted(list, votes)
             k == PlaceOf(list, p)
             q == SortedQueue(list, votes)
             h == LesserAndGreaterOf(q, p)
             rank(i) == RankIn(R, D, i)
             n == Len(list)
             r == PlaceOf(q, p)
  <1>1. /\ q \in Seq(S) /\ Len(q) = n /\ Distinct(q) /\ Members(q) = Members(list)
        /\ \A i \in D : rank(i) \in 1 .. n /\ q[rank(i)] = list[i]
        /\ \A m \in 1 .. n : \E i \in D : rank(i) = m
    <2> HIDE DEF R, D, q
    <2> QED BY SortedQueueIs DEF R, D, q
  <1>2. IsFiniteSet(D) /\ Cardinality(D) = n /\ InOrder(R, D)
    BY UpvotedInOrder
  <1>3. k \in D /\ list[k] = p
    BY PlaceOfMember
  <1>4. r \in DOMAIN q /\ q[r] = p
    BY <1>1, PlaceOfMember
  <1>5. n \in Nat /\ D = 1 .. n
    OBVIOUS
  <1>6. /\ h.lesser = IF r = 1 THEN Nobody ELSE q[r - 1]
        /\ h.greater = IF r = n THEN Nobody ELSE q[r + 1]
    BY <1>1 DEF LesserAndGreaterOf
  <1> HIDE DEF R, D, q, h, n, r, k, rank
  <1>7. DOMAIN q = 1 .. n
    BY <1>1
  <1>8. r = rank(k)
    BY <1>1, <1>3, <1>4, <1>7 DEF Distinct
  <1>9. /\ rank(k) = 1 => \A j \in D : <<k, j>> \in R
        /\ rank(k) = n => \A j \in D : <<j, k>> \in R
        /\ \A l \in D : rank(l) + 1 = rank(k) =>
             l # k /\ <<l, k>> \in R /\ \A j \in D : <<k, j>> \in R \/ <<j, l>> \in R
    BY <1>2, <1>3, NextInOrder DEF rank
  <1>10. \A g \in D : rank(k) + 1 = rank(g) =>
           g # k /\ <<k, g>> \in R /\ \A j \in D : <<g, j>> \in R \/ <<j, k>> \in R
    BY <1>2, <1>3, NextInOrder DEF rank
  <1>11. r \in 1 .. n
    BY <1>4, <1>7
  <1>12. \/ h.lesser = Nobody /\ \A j \in D : <<k, j>> \in R
         \/ \E l \in D : /\ h.lesser = list[l] /\ l # k /\ <<l, k>> \in R
                        /\ \A j \in D : <<k, j>> \in R \/ <<j, l>> \in R
    <2>1. CASE r = 1
      BY <2>1, <1>6, <1>8, <1>9
    <2>2. CASE r # 1
      <3>1. PICK m \in 1 .. n : m = r - 1 /\ m + 1 = r
        BY <2>2, <1>5, <1>11
      <3>2. PICK l \in D : rank(l) = m
        BY <1>1, <3>1
      <3>3. h.lesser = list[l]
        BY <2>2, <3>1, <3>2, <1>1, <1>6
      <3>4. rank(l) + 1 = rank(k)
        BY <3>1, <3>2, <1>8
      <3> QED BY <3>3, <3>4, <1>9
    <2> QED BY <2>1, <2>2
  <1>13. \/ h.greater = Nobody /\ \A j \in D : <<j, k>> \in R
         \/ \E g \in D : /\ h.greater = list[g] /\ g # k /\ <<k, g>> \in R
                        /\ \A j \in D : <<g, j>> \in R \/ <<j, k>> \in R
    <2>1. CASE r = n
      BY <2>1, <1>6, <1>8, <1>9
    <2>2. CASE r # n
      <3>1. PICK m \in 1 .. n : m = r + 1
        BY <2>2, <1>5, <1>11
      <3>2. PICK g \in D : rank(g) = m
        BY <1>1, <3>1
      <3>3. h.greater = list[g]
        BY <2>2, <3>1, <3>2, <1>1, <1>6
      <3>4. rank(k) + 1 = rank(g)
        BY <3>1, <3>2, <1>8
      <3> QED BY <3>3, <3>4, <1>10
    <2> QED BY <2>1, <2>2
  <1> QED BY <1>12, <1>13 DEF D, R, k, q, h

\* Two of others have as many votes, next below total, and two as many, next above it.
Tied(others, votes, total) ==
  \E a, b, c, d \in others :
    /\ a # b /\ votes[a] = votes[b] /\ votes[b] < total
    /\ c # d /\ votes[c] = votes[d] /\ total < votes[c]
    /\ \A q \in others : votes[q] <= votes[a] \/ votes[c] <= votes[q]

\* Of a sorted list, Low is what comes before total when the list is turned around and
\* ties stay as they are, Up what comes after, and h names the ends of both.
Around(rest, votes, total, h, Low, Up) ==
  /\ Low \cup Up = DOMAIN rest
  /\ \A i \in Low : votes[rest[i]] <= total
  /\ \A i \in Up : votes[rest[i]] >= total
  /\ \/ h.lesser = Nobody /\ Low = {}
     \/ \E l \in Low : h.lesser = rest[l] /\ \A j \in Low : Precedes(rest, votes, j, l)
  /\ \/ h.greater = Nobody /\ Up = {}
     \/ \E g \in Up : h.greater = rest[g] /\ \A j \in Up : Precedes(rest, votes, g, j)

\* Then the contract finds a place with these hints exactly unless total is between ties.
LEMMA FitsUnlessTied ==
  ASSUME NEW S, NEW rest \in Seq(S), Distinct(rest), Nobody \notin S,
         NEW votes, \A x \in S : votes[x] \in Int, Sorted(rest, votes),
         NEW total \in Int, NEW h, NEW Low, NEW Up, Around(rest, votes, total, h, Low, Up)
  PROVE  /\ h.lesser # Nobody \/ h.greater # Nobody \/ rest = <<>>
         /\ {h.lesser, h.greater} \subseteq Members(rest) \cup {Nobody}
         /\ Places(rest, votes, total, h) # {} <=> ~Tied(Members(rest), votes, total)
  <1> DEFINE N == Len(rest)
             u(i) == votes[rest[i]]
             P == Places(rest, votes, total, h)
             T == Tied(Members(rest), votes, total)
  <1>1. /\ N \in Nat /\ DOMAIN rest = 1 .. N
        /\ \A i \in 1 .. N : u(i) \in Int /\ rest[i] # Nobody /\ rest[i] \in Members(rest)
        /\ \A i, j \in 1 .. N : rest[i] = rest[j] => i = j
        /\ \A x \in Members(rest) : \E i \in 1 .. N : x = rest[i]
    BY DEF Members, Distinct
  <1>2. \A i, j \in 1 .. N : i <= j => u(i) >= u(j)
    <2> TAKE i, j \in 1 .. N
    <2>1. i < j => u(i) >= u(j)
      BY <1>1 DEF Sorted
    <2> QED BY <1>1, <2>1
  <1>3. /\ Low \cup Up = 1 .. N
        /\ \A i \in Low : u(i) <= total
        /\ \A i \in Up : u(i) >= total
    BY <1>1 DEF Around
  <1>4. /\ (h.lesser = Nobody /\ Low = {}) \/ (\E l \in Low : h.lesser = rest[l])
        /\ (h.greater = Nobody /\ Up = {}) \/ (\E g \in Up : h.greater = rest[g])
    BY DEF Around
  <1>5. /\ Low # {} => \E l \in Low : h.lesser = rest[l] /\ \A j \in Low : Precedes(rest, votes, j, l)
        /\ Up # {} => \E g \in Up : h.greater = rest[g] /\ \A j \in Up : Precedes(rest, votes, g, j)
    BY DEF Around
  <1>6. P = {p \in 0 .. N : /\ Fits(rest, votes, total, p)
                            /\ \/ h.lesser = Nobody /\ p = N
                               \/ h.greater = Nobody /\ p = 0
                               \/ p < N /\ rest[p + 1] = h.lesser
                               \/ p > 0 /\ rest[p] = h.greater}
    BY DEF Places
  <1>7. T <=> \E a, b, c, d \in Members(rest) :
                /\ a # b /\ votes[a] = votes[b] /\ votes[b] < total
                /\ c # d /\ votes[c] = votes[d] /\ total < votes[c]
                /\ \A q \in Members(rest) : votes[q] <= votes[a] \/ votes[c] <= votes[q]
    BY DEF Tied
  <1> HIDE DEF P, T, N
  <1>8. h.lesser # Nobody \/ h.greater # Nobody \/ rest = <<>>
    <2> SUFFICES ASSUME h.lesser = Nobody, h.greater = Nobody PROVE rest = <<>>
      OBVIOUS
    <2>1. Low = {} /\ Up = {}
      BY <1>1, <1>3, <1>4
    <2>2. N = 0
      BY <1>1, <1>3, <2>1
    <2> QED BY <2>2 DEF N
  <1>9. {h.lesser, h.greater} \subseteq Members(rest) \cup {Nobody}
    BY <1>1, <1>3, <1>4
  <1>10. CASE Low = {}
    <2>1. h.lesser = Nobody
      BY <1>4, <1>10
    <2>2. ~T
      <3> SUFFICES ASSUME T PROVE FALSE
        OBVIOUS
      <3>1. PICK b \in Members(rest) : votes[b] < total
        BY <1>7
      <3>2. PICK i \in 1 .. N : b = rest[i]
        BY <1>1
      <3>3. u(i) >= total /\ u(i) < total /\ u(i) \in Int
        BY <1>1, <1>3, <1>10, <3>1, <3>2
      <3> QED BY <3>3
    <2>3. N > 0 => u(N) >= total
      BY <1>1, <1>3, <1>10
    <2>4. N \in P
      BY <1>1, <1>6, <2>1, <2>3 DEF Fits, N
    <2> QED BY <1>8, <1>9, <2>2, <2>4 DEF P, T
  <1>11. CASE Up = {}
    <2>1. h.greater = Nobody
      BY <1>4, <1>11
    <2>2. ~T
      <3> SUFFICES ASSUME T PROVE FALSE
        OBVIOUS
      <3>1. PICK c \in Members(rest) : total < votes[c]
        BY <1>7
      <3>2. PICK i \in 1 .. N : c = rest[i]
        BY <1>1
      <3>3. u(i) <= total /\ u(i) > total /\ u(i) \in Int
        BY <1>1, <1>3, <1>11, <3>1, <3>2
      <3> QED BY <3>3
    <2>3. 0 < N => u(1) <= total
      BY <1>1, <1>3, <1>11
    <2>4. 0 \in P
      BY <1>1, <1>6, <2>1, <2>3 DEF Fits, N
    <2> QED BY <1>8, <1>9, <2>2, <2>4 DEF P, T
  <1>12. CASE Low # {} /\ Up # {}
    <2>1. PICK l \in Low : h.lesser = rest[l] /\ \A j \in Low : Precedes(rest, votes, j, l)
      BY <1>5, <1>12
    <2>2. PICK g \in Up : h.greater = rest[g] /\ \A j \in Up : Precedes(rest, votes, g, j)
      BY <1>5, <1>12
    <2>3. /\ l \in 1 .. N /\ g \in 1 .. N /\ u(l) <= total /\ u(g) >= total
          /\ h.lesser # Nobody /\ h.greater # Nobody
      BY <1>1, <1>3, <2>1, <2>2
    <2>4. /\ \A j \in Low : u(j) < u(l) \/ (u(j) = u(l) /\ j <= l)
          /\ \A j \in Up : u(g) < u(j) \/ (u(g) = u(j) /\ g <= j)
      BY <2>1, <2>2 DEF Precedes
    <2> DEFINE lowFits == l > 1 => u(l - 1) >= total
               highFits == g < N => u(g + 1) <= total
    <2>5. P # {} <=> lowFits \/ highFits
      <3>1. ASSUME NEW p \in 0 .. N
            PROVE  p \in P <=> (p = l - 1 /\ lowFits) \/ (p = g /\ highFits)
        <4>1. p \in P <=>
                /\ Fits(rest, votes, total, p)
                /\ (p < N /\ rest[p + 1] = rest[l]) \/ (p > 0 /\ rest[p] = rest[g])
          BY <1>6, <2>1, <2>2, <2>3
        <4>2. (p < N /\ rest[p + 1] = rest[l]) <=> p = l - 1
          BY <1>1, <2>3
        <4>3. (p > 0 /\ rest[p] = rest[g]) <=> p = g
          BY <1>1, <2>3
        <4>4. p = l - 1 => (Fits(rest, votes, total, p) <=> lowFits)
          BY <1>1, <2>3 DEF Fits, N
        <4>5. p = g => (Fits(rest, votes, total, p) <=> highFits)
          BY <1>1, <2>3 DEF Fits, N
        <4> HIDE DEF lowFits, highFits
        <4> QED BY <4>1, <4>2, <4>3, <4>4, <4>5
      <3>2. l - 1 \in 0 .. N /\ g \in 0 .. N
        BY <1>1, <2>3
      <3>3. P \subseteq 0 .. N
        BY <1>6
      <3> HIDE DEF lowFits, highFits
      <3> QED BY <3>1, <3>2, <3>3
    <2>6. ASSUME ~lowFits, ~highFits PROVE T
      <3>1. PICK m \in 1 .. N, n \in 1 .. N : m = l - 1 /\ n = g + 1 /\ u(m) < total /\ u(n) > total
        BY <1>1, <2>3, <2>6
      <3>2. m \in Low /\ n \in Up
        BY <1>1, <1>3, <3>1
      <3>3. u(m) = u(l) /\ u(n) = u(g)
        BY <1>1, <1>2, <2>3, <2>4, <3>1, <3>2
      <3>4. rest[m] # rest[l] /\ rest[g] # rest[n]
        BY <1>1, <2>3, <3>1
      <3>5. ASSUME NEW q \in Members(rest)
            PROVE  votes[q] <= votes[rest[m]] \/ votes[rest[g]] <= votes[q]
        <4>1. PICK j \in 1 .. N : q = rest[j]
          BY <1>1
        <4>2. j \in Low \/ j \in Up
          BY <1>3
        <4> QED BY <1>1, <2>3, <2>4, <3>3, <4>1, <4>2
      <3>6. /\ votes[rest[m]] = votes[rest[l]] /\ votes[rest[l]] < total
            /\ votes[rest[g]] = votes[rest[n]] /\ total < votes[rest[g]]
        BY <3>1, <3>3, <1>1
      <3>7. {rest[m], rest[l], rest[g], rest[n]} \subseteq Members(rest)
        BY <1>1, <2>3
      <3> QED BY <1>7, <3>4, <3>5, <3>6, <3>7
    <2>7. ASSUME T PROVE ~lowFits /\ ~highFits
      <3>1. PICK a \in Members(rest), b \in Members(rest), c \in Members(rest), d \in Members(rest) :
                /\ a # b /\ votes[a] = votes[b] /\ votes[b] < total
                /\ c # d /\ votes[c] = votes[d] /\ total < votes[c]
                /\ \A q \in Members(rest) : votes[q] <= votes[a] \/ votes[c] <= votes[q]
        BY <1>7, <2>7
      <3>2. PICK i \in 1 .. N, j \in 1 .. N, m \in 1 .. N, n \in 1 .. N :
              a = rest[i] /\ b = rest[j] /\ c = rest[m] /\ d = rest[n]
        BY <1>1
      <3> HIDE DEF u
      <3>3. /\ i # j /\ u(i) = u(j) /\ u(j) < total
            /\ m # n /\ u(m) = u(n) /\ total < u(m)
            /\ u(l) <= u(i) \/ u(m) <= u(l)
            /\ u(g) <= u(i) \/ u(m) <= u(g)
        BY <1>1, <2>3, <3>1, <3>2 DEF u
      <3>4. /\ u(i) \in Int /\ u(j) \in Int /\ u(m) \in Int /\ u(n) \in Int
            /\ u(l) \in Int /\ u(g) \in Int
        BY ONLY <1>1, <2>3, i \in 1 .. N, j \in 1 .. N, m \in 1 .. N, n \in 1 .. N
      <3>5. /\ ~(u(i) >= total) /\ ~(u(j) >= total)
            /\ ~(u(m) <= total) /\ ~(u(n) <= total)
        BY ONLY <3>3, <3>4, total \in Int
      <3>6. i \in Low /\ j \in Low /\ m \in Up /\ n \in Up
        BY ONLY <1>3, <3>5, i \in 1 .. N, j \in 1 .. N, m \in 1 .. N, n \in 1 .. N
      <3>7. /\ u(i) < u(l) \/ (u(i) = u(l) /\ i <= l)
            /\ u(j) < u(l) \/ (u(j) = u(l) /\ j <= l)
            /\ u(g) < u(m) \/ (u(g) = u(m) /\ g <= m)
            /\ u(g) < u(n) \/ (u(g) = u(n) /\ g <= n)
        BY ONLY <2>4, <3>6
      <3>8. u(l) <= total /\ u(g) >= total
        BY <2>3
      <3>9. i <= l /\ j <= l /\ g <= m /\ g <= n
        BY ONLY <3>3, <3>4, <3>7, <3>8, total \in Int
      <3>10. ~lowFits
        <4>0. i # j /\ N \in Nat /\ l \in 1 .. N
          BY <1>1, <2>3, <3>3
        <4>1. PICK x \in 1 .. N : x = l - 1 /\ (i <= x \/ j <= x)
          BY ONLY <4>0, <3>9, i \in 1 .. N, j \in 1 .. N
        <4>2. u(x) <= u(i) \/ u(x) <= u(j)
          BY ONLY <1>1, <1>2, <3>4, <4>1, i \in 1 .. N, j \in 1 .. N
        <4>3. u(x) \in Int /\ l > 1
          BY ONLY <1>1, <4>1, <2>3
        <4>4. ~(u(x) >= total)
          BY ONLY <3>3, <3>4, <4>2, <4>3, total \in Int
        <4> QED BY ONLY <4>1, <4>3, <4>4
      <3>11. ~highFits
        <4>0. m # n /\ N \in Nat /\ g \in 1 .. N
          BY <1>1, <2>3, <3>3
        <4>1. PICK x \in 1 .. N : x = g + 1 /\ (x <= m \/ x <= n)
          BY ONLY <4>0, <3>9, m \in 1 .. N, n \in 1 .. N
        <4>2. u(m) <= u(x) \/ u(n) <= u(x)
          BY ONLY <1>1, <1>2, <3>4, <4>1, m \in 1 .. N, n \in 1 .. N
        <4>3. u(x) \in Int /\ g < N
          BY ONLY <1>1, <4>1, <2>3
        <4>4. ~(u(x) <= total)
          BY ONLY <3>3, <3>4, <4>2, <4>3, total \in Int
        <4> QED BY ONLY <4>1, <4>3, <4>4
      <3> QED BY <3>10, <3>11
    <2> HIDE DEF lowFits, highFits
    <2> QED BY <1>8, <1>9, <2>5, <2>6, <2>7 DEF P, T
  <1> QED BY <1>10, <1>11, <1>12

\* The neighbours that sortedQueue gives p when it has total upvotes and the others of a
\* sorted queue theirs: the contract finds a place with them unless total is between ties.
LEMMA HintsOfQueue ==
  ASSUME NEW S, NEW list \in Seq(S), Distinct(list), Nobody \notin S,
         NEW votes, \A x \in S : votes[x] \in Int, Sorted(list, votes),
         NEW p \in Members(list), NEW total \in Int,
         NEW then, then[p] = total, \A x \in S \ {p} : then[x] = votes[x]
  PROVE  Accepts(list, votes, p, total, LesserAndGreaterOf(SortedQueue(list, then), p))
           <=> ~Tied(Members(list) \ {p}, votes, total)
  <1> DEFINE k == PlaceOf(list, p)
             n == Len(list)
             rest == Rest(list, p)
             of(i) == IF i < k THEN i ELSE i + 1
             R == Upvoted(list, then)
             h == LesserAndGreaterOf(SortedQueue(list, then), p)
             Low == {i \in 1 .. n - 1 : <<of(i), k>> \in R}
             Up == {i \in 1 .. n - 1 : <<k, of(i)>> \in R}
  <1>1. /\ k \in 1 .. n /\ list[k] = p
        /\ rest \in Seq(S) /\ Len(rest) = n - 1 /\ Distinct(rest)
        /\ \A i \in 1 .. n - 1 : rest[i] = list[of(i)]
        /\ p \notin Members(rest)
    BY RestShifts, PlaceOfMember
  <1>2. n \in Nat /\ DOMAIN list = 1 .. n /\ \A i \in 1 .. n : list[i] \in S
    OBVIOUS
  <1>3. p \in S
    BY <1>1, <1>2
  <1>4. \A x \in S : then[x] \in Int
    BY <1>3
  <1>5. InOrder(R, 1 .. n)
    BY <1>2, <1>4, UpvotedInOrder
  <1>6. \A i, j \in 1 .. n : <<i, j>> \in R <=> Precedes(list, then, i, j)
    BY <1>2, UpvotedIs
  <1>7. /\ \/ h.lesser = Nobody /\ \A j \in 1 .. n : <<k, j>> \in R
           \/ \E l \in 1 .. n : /\ h.lesser = list[l] /\ l # k /\ <<l, k>> \in R
                                /\ \A j \in 1 .. n : <<k, j>> \in R \/ <<j, l>> \in R
        /\ \/ h.greater = Nobody /\ \A j \in 1 .. n : <<j, k>> \in R
           \/ \E g \in 1 .. n : /\ h.greater = list[g] /\ g # k /\ <<k, g>> \in R
                                /\ \A j \in 1 .. n : <<g, j>> \in R \/ <<j, k>> \in R
    <2> HIDE DEF R, k, h, n
    <2> QED BY <1>2, <1>4, NeighboursAre DEF R, k, h
  <1> HIDE DEF R, k, h, n, rest
  <1>8. /\ \A i \in 1 .. n - 1 : of(i) \in (1 .. n) \ {k}
        /\ \A l \in (1 .. n) \ {k} : \E i \in 1 .. n - 1 : l = of(i)
        /\ \A i, j \in 1 .. n - 1 : i <= j <=> of(i) <= of(j)
    <2>1. \A i \in 1 .. n - 1 : of(i) \in (1 .. n) \ {k}
      BY ONLY <1>1, <1>2
    <2>2. ASSUME NEW l \in (1 .. n) \ {k} PROVE \E i \in 1 .. n - 1 : l = of(i)
      <3>1. (IF l < k THEN l ELSE l - 1) \in 1 .. n - 1
        BY ONLY <1>1, <1>2, l \in (1 .. n) \ {k}
      <3>2. l = of(IF l < k THEN l ELSE l - 1)
        BY ONLY <1>1, <1>2, l \in (1 .. n) \ {k}
      <3> QED BY <3>1, <3>2
    <2>3. \A i, j \in 1 .. n - 1 : i <= j <=> of(i) <= of(j)
      BY ONLY <1>1, <1>2
    <2> QED BY <2>1, <2>2, <2>3
  <1> HIDE DEF of
  <1>9. DOMAIN rest = 1 .. n - 1
    BY <1>1
  <1>10. ASSUME NEW i \in 1 .. n - 1
         PROVE  /\ rest[i] \in S \ {p} /\ then[rest[i]] = votes[rest[i]] /\ votes[rest[i]] \in Int
                /\ rest[i] = list[of(i)]
    BY <1>1, <1>2, <1>8, <1>9 DEF Members
  <1>11. ASSUME NEW i \in 1 .. n - 1, NEW j \in 1 .. n - 1
         PROVE  Precedes(rest, votes, i, j) <=> <<of(i), of(j)>> \in R
    <2>1. Precedes(list, then, of(i), of(j)) <=> <<of(i), of(j)>> \in R
      BY <1>6, <1>8
    <2>2. i <= j <=> of(i) <= of(j)
      BY <1>8
    <2> QED BY <1>10, <2>1, <2>2 DEF Precedes
  <1>12. Sorted(rest, votes)
    BY RestIs DEF rest
  <1>13. Members(rest) = Members(list) \ {p}
    BY RestIs DEF rest
  <1>14. Low \cup Up = 1 .. n - 1
    BY <1>1, <1>5, <1>8 DEF InOrder
  <1>15. ASSUME NEW i \in Low PROVE votes[rest[i]] <= total
    <2>1. Precedes(list, then, of(i), k)
      BY <1>1, <1>6, <1>8
    <2>2. i \in 1 .. n - 1
      OBVIOUS
    <2> QED BY <1>1, <1>10, <2>1, <2>2 DEF Precedes
  <1>16. ASSUME NEW i \in Up PROVE votes[rest[i]] >= total
    <2>1. Precedes(list, then, k, of(i))
      BY <1>1, <1>6, <1>8
    <2>2. i \in 1 .. n - 1
      OBVIOUS
    <2> QED BY <1>1, <1>10, <2>1, <2>2 DEF Precedes
  <1>17. \A i \in 1 .. n - 1 : ~(<<of(i), k>> \in R /\ <<k, of(i)>> \in R)
    BY <1>1, <1>5, <1>8 DEF InOrder
  <1>18. \/ h.lesser = Nobody /\ Low = {}
         \/ \E l \in Low : h.lesser = rest[l] /\ \A j \in Low : Precedes(rest, votes, j, l)
    <2>1. CASE h.lesser = Nobody /\ \A j \in 1 .. n : <<k, j>> \in R
      BY <2>1, <1>8, <1>17
    <2>2. ASSUME NEW m \in 1 .. n, h.lesser = list[m], m # k, <<m, k>> \in R,
                 \A j \in 1 .. n : <<k, j>> \in R \/ <<j, m>> \in R
          PROVE  \E l \in Low : h.lesser = rest[l] /\ \A j \in Low : Precedes(rest, votes, j, l)
      <3>1. PICK l \in 1 .. n - 1 : m = of(l)
        BY <1>8, <2>2
      <3>2. l \in Low /\ h.lesser = rest[l]
        BY <2>2, <3>1, <1>10
      <3>3. \A j \in Low : <<of(j), of(l)>> \in R
        BY <2>2, <3>1, <1>8, <1>17
      <3>4. \A j \in Low : Precedes(rest, votes, j, l)
        BY <3>3, <1>11
      <3> QED BY <3>2, <3>4
    <2> QED BY <1>7, <2>1, <2>2
  <1>19. \/ h.greater = Nobody /\ Up = {}
         \/ \E g \in Up : h.greater = rest[g] /\ \A j \in Up : Precedes(rest, votes, g, j)
    <2>1. CASE h.greater = Nobody /\ \A j \in 1 .. n : <<j, k>> \in R
      BY <2>1, <1>8, <1>17
    <2>2. ASSUME NEW m \in 1 .. n, h.greater = list[m], m # k, <<k, m>> \in R,
                 \A j \in 1 .. n : <<m, j>> \in R \/ <<j, k>> \in R
          PROVE  \E g \in Up : h.greater = rest[g] /\ \A j \in Up : Precedes(rest, votes, g, j)
      <3>1. PICK g \in 1 .. n - 1 : m = of(g)
        BY <1>8, <2>2
      <3>2. g \in Up /\ h.greater = rest[g]
        BY <2>2, <3>1, <1>10
      <3>3. \A j \in Up : <<of(g), of(j)>> \in R
        BY <2>2, <3>1, <1>8, <1>17
      <3>4. \A j \in Up : Precedes(rest, votes, g, j)
        BY <3>3, <1>11
      <3> QED BY <3>2, <3>4
    <2> QED BY <1>7, <2>1, <2>2
  <1>20. Around(rest, votes, total, h, Low, Up)
    <2> HIDE DEF Low, Up
    <2> QED BY <1>9, <1>14, <1>15, <1>16, <1>18, <1>19 DEF Around
  <1>21. /\ h.lesser # Nobody \/ h.greater # Nobody \/ rest = <<>>
         /\ {h.lesser, h.greater} \subseteq Members(rest) \cup {Nobody}
         /\ Places(rest, votes, total, h) # {} <=> ~Tied(Members(rest), votes, total)
    <2> HIDE DEF Low, Up
    <2> QED BY <1>1, <1>12, <1>20, FitsUnlessTied
  <1> QED BY <1>21, <1>13 DEF Accepts, h, rest

-----------------------------------------------------------------------------
(* The governance queue: what becomes of it.                               *)

\* A list without some of its elements keeps its order.
LEMMA WithoutIs ==
  ASSUME NEW S, NEW list \in Seq(S), Distinct(list), NEW votes, Sorted(list, votes), NEW X
  PROVE  LET t == Without(list, X) IN
         /\ t \in Seq(S) /\ Distinct(t) /\ Sorted(t, votes)
         /\ Members(t) = Members(list) \ X
         /\ X \cap Members(list) = {} => t = list
  <1> DEFINE P == {i \in DOMAIN list : list[i] \notin X}
             t == Without(list, X)
  <1>1. /\ Len(list) \in Nat /\ DOMAIN list = 1 .. Len(list)
        /\ P \in SUBSET (1 .. Len(list)) /\ t = Subsequence(list, P)
    BY DEF Without
  <1>2. \A i, j \in P : list[i] = list[j] => i = j
    BY DEF Distinct
  <1>3. {list[i] : i \in P} = Members(list) \ X
    BY DEF Members
  <1>4. X \cap Members(list) = {} => P = 1 .. Len(list)
    BY <1>1 DEF Members
  <1>5. \A i, j \in P : i < j => votes[list[i]] >= votes[list[j]]
    BY DEF Sorted
  <1> HIDE DEF P, t
  <1>6. /\ t \in Seq(S) /\ Distinct(t) /\ Members(t) = Members(list) \ X
        /\ \A k, l \in DOMAIN t : k < l => \E i, j \in P : i < j /\ t[k] = list[i] /\ t[l] = list[j]
        /\ P = 1 .. Len(list) => t = list
    <2>1. list \in Seq(S) /\ P \in SUBSET (1 .. Len(list)) /\ t = Subsequence(list, P)
      BY <1>1
    <2>2. LET u == Subsequence(list, P) IN
          /\ u \in Seq(S) /\ IsFiniteSet(P) /\ Len(u) = Cardinality(P)
          /\ Members(u) = {list[i] : i \in P}
          /\ (\A i, j \in P : list[i] = list[j] => i = j) => Distinct(u)
          /\ \A k, l \in DOMAIN u : k < l => \E i, j \in P : i < j /\ u[k] = list[i] /\ u[l] = list[j]
          /\ P = 1 .. Len(list) => u = list
      BY ONLY <2>1, SubsequenceIs, Zenon
    <2> QED BY <1>2, <1>3, <2>1, <2>2
  <1>7. Sorted(t, votes)
    BY <1>5, <1>6 DEF Sorted
  <1> QED BY <1>4, <1>6, <1>7 DEF t

-----------------------------------------------------------------------------
(* The governance queue: the contract.                                     *)

\* The queue is sorted without repetitions, a proposal that was never made has no
\* upvotes, and the account's upvote is still counted.
InQueueOrder == queue \in Seq(Proposals) /\ Distinct(queue) /\ Sorted(queue, upvotes)
Counts == /\ upvotes \in [Proposals -> Nat] /\ weight \in Nat
          /\ \A p \in Proposals : Known(p) \/ upvotes[p] = 0
Leaves == /\ expired \subseteq Proposals /\ Members(queue) \cap dequeued = {}
          /\ ready \in BOOLEAN
RecordCounted ==
  /\ record.weight \in Nat
  /\ \/ record = NoRecord
     \/ record.id \in Proposals /\ record.weight <= upvotes[record.id]
ContractInv == InQueueOrder /\ Counts /\ Leaves /\ RecordCounted

\* The first of a list.
LEMMA FirstOfIs ==
  ASSUME NEW S, NEW list \in Seq(S)
  PROVE  LET f == FirstOf(list) IN
         /\ f \in Seq(S) /\ Len(f) \in Nat /\ Len(f) <= Concurrent
         /\ Members(f) \subseteq Members(list)
  <1> DEFINE m == IF Len(list) < Concurrent THEN Len(list) ELSE Concurrent
             f == FirstOf(list)
  <1>1. Len(list) \in Nat /\ Concurrent \in Nat
    BY GovernanceAssumption
  <1>2. m \in 0 .. Len(list) /\ m <= Concurrent
    BY <1>1
  <1>3. f = SubSeq(list, 1, m)
    BY DEF FirstOf
  <1> HIDE DEF m, f
  <1>4. f \in Seq(S) /\ Len(f) = m /\ \A i \in 1 .. m : f[i] = list[i]
    <2>1. \A i \in 1 .. m : list[i] \in S
      BY <1>1, <1>2
    <2>2. f = [i \in 1 .. m |-> list[i]]
      BY <1>1, <1>2, <1>3
    <2>3. f \in [1 .. m -> S]
      BY <2>1, <2>2
    <2> QED BY <1>2, <2>2, <2>3
  <1>5. Members(f) \subseteq Members(list)
    BY <1>1, <1>2, <1>4 DEF Members
  <1> QED BY <1>2, <1>4, <1>5 DEF f

\* What dequeueProposalsIfReady leaves, and where what it takes goes.
LEMMA UnpoppedIs ==
  ASSUME InQueueOrder
  PROVE  /\ Unpopped \in Seq(Proposals) /\ Distinct(Unpopped) /\ Sorted(Unpopped, upvotes)
         /\ Members(Unpopped) \subseteq Members(queue)
         /\ \A p \in Members(queue) : p \in Members(Unpopped) \cup expired \cup NewlyDequeued
         /\ Members(Unpopped) \cap NewlyDequeued = {}
         /\ NewlyDequeued \subseteq Proposals
         /\ ~ready => Unpopped = queue /\ NewlyDequeued = {}
         /\ Members(Popped) \subseteq Members(FirstOf(queue))
  <1>1. /\ queue \in Seq(Proposals) /\ Distinct(queue) /\ Sorted(queue, upvotes)
    BY DEF InQueueOrder
  <1>2. /\ Members(FirstOf(queue)) \subseteq Members(queue)
        /\ Members(queue) \subseteq Proposals
    <2>1. Members(FirstOf(queue)) \subseteq Members(queue)
      BY <1>1, FirstOfIs
    <2>2. Members(queue) \subseteq Proposals
      BY <1>1 DEF Members
    <2> QED BY <2>1, <2>2
  <1>3. Members(Popped) \subseteq Members(FirstOf(queue)) /\ (~ready => Members(Popped) = {})
    BY DEF Popped, Members
  <1> DEFINE X == Members(Popped)
  <1>4. /\ Unpopped \in Seq(Proposals) /\ Distinct(Unpopped) /\ Sorted(Unpopped, upvotes)
        /\ Members(Unpopped) = Members(queue) \ X
        /\ X \cap Members(queue) = {} => Unpopped = queue
    <2> HIDE DEF X
    <2>1. Unpopped = Without(queue, X)
      BY DEF Unpopped, X
    <2> QED BY <1>1, <2>1, WithoutIs
  <1> QED BY <1>2, <1>3, <1>4 DEF NewlyDequeued

\* And without what has expired of S.
LEMMA RemainingIs ==
  ASSUME InQueueOrder, NEW S
  PROVE  /\ Remaining(S) \in Seq(Proposals) /\ Distinct(Remaining(S))
         /\ Sorted(Remaining(S), upvotes)
         /\ Members(Remaining(S)) = Members(Unpopped) \ (S \cap expired)
         /\ ~ready /\ S \cap Members(queue) = {} => Remaining(S) = queue
  <1> DEFINE X == S \cap expired
  <1>1. Remaining(S) = Without(Unpopped, X)
    BY DEF Remaining
  <1>2. /\ Unpopped \in Seq(Proposals) /\ Distinct(Unpopped) /\ Sorted(Unpopped, upvotes)
        /\ ~ready => Unpopped = queue
    BY UnpoppedIs
  <1> HIDE DEF X
  <1>3. /\ Remaining(S) \in Seq(Proposals) /\ Distinct(Remaining(S))
        /\ Sorted(Remaining(S), upvotes) /\ Members(Remaining(S)) = Members(Unpopped) \ X
        /\ X \cap Members(Unpopped) = {} => Remaining(S) = Unpopped
    BY <1>1, <1>2, WithoutIs
  <1> QED BY <1>2, <1>3 DEF X

\* A proposal that moves with its new total keeps the others in order.
LEMMA UpdateIs ==
  ASSUME NEW list \in Seq(Proposals), Distinct(list), Sorted(list, upvotes),
         upvotes \in [Proposals -> Nat], NEW p \in Members(list), NEW total \in Nat,
         NEW place \in 0 .. Len(Rest(list, p)), Fits(Rest(list, p), upvotes, total, place),
         upvotes' = [upvotes EXCEPT ![p] = total],
         queue' = PutAt(Rest(list, p), p, place)
  PROVE  InQueueOrder' /\ Members(queue)' = Members(list)
  <1> DEFINE rest == Rest(list, p)
  <1>1. /\ rest \in Seq(Proposals) /\ Distinct(rest) /\ p \notin Members(rest)
    BY RestShifts
  <1>2. Sorted(rest, upvotes) /\ Members(rest) = Members(list) \ {p}
    BY RestIs
  <1>3. p \in Proposals
    BY DEF Members
  <1>4. /\ upvotes'[p] = total /\ \A x \in Proposals \ {p} : upvotes'[x] = upvotes[x]
        /\ \A x \in Proposals : upvotes[x] \in Int
        /\ place \in 0 .. Len(rest) /\ Fits(rest, upvotes, total, place)
        /\ queue' = PutAt(rest, p, place)
    BY <1>3
  <1> HIDE DEF rest
  <1>5. queue' \in Seq(Proposals) /\ Distinct(queue')
    BY <1>1, <1>3, <1>4, PutAtKeeps
  <1>6. Sorted(queue', upvotes') /\ Members(queue') = Members(rest) \cup {p}
    <2>1. PICK now : now = upvotes'
      OBVIOUS
    <2>2. now[p] = total /\ \A x \in Proposals \ {p} : now[x] = upvotes[x]
      BY <1>4, <2>1
    <2>3. /\ Sorted(PutAt(rest, p, place), now)
          /\ Members(PutAt(rest, p, place)) = Members(rest) \cup {p}
      <3>1. rest \in Seq(Proposals) /\ p \in Proposals /\ total \in Int
        BY <1>1, <1>3
      <3>2. /\ Sorted(rest, upvotes) /\ \A x \in Proposals : upvotes[x] \in Int
            /\ place \in 0 .. Len(rest) /\ Fits(rest, upvotes, total, place)
        BY <1>2, <1>4
      <3> QED BY ONLY <1>1, <2>2, <3>1, <3>2, PutAtIs
    <2> QED BY <1>4, <2>1, <2>3
  <1> QED BY <1>2, <1>5, <1>6 DEF InQueueOrder

\* Whatever a dequeue removes is still known.
LEMMA StillKnown ==
  ASSUME InQueueOrder, Leaves, Dequeue, expired' = expired,
         Members(queue)' \subseteq Members(Unpopped),
         Members(Unpopped) \ expired \subseteq Members(queue)'
  PROVE  Leaves' /\ \A p \in Proposals : Known(p) => Known(p)'
  <1>1. /\ dequeued' = dequeued \cup NewlyDequeued
        /\ ready' = (ready /\ NewlyDequeued = {})
    BY DEF Dequeue
  <1>2. /\ Members(Unpopped) \subseteq Members(queue)
        /\ \A p \in Members(queue) : p \in Members(Unpopped) \cup expired \cup NewlyDequeued
        /\ Members(Unpopped) \cap NewlyDequeued = {}
    BY UnpoppedIs
  <1>3. Leaves'
    BY <1>1, <1>2 DEF Leaves
  <1>4. ASSUME NEW p \in Proposals, Known(p) PROVE Known(p)'
    BY <1>1, <1>2, <1>4 DEF Known, Queued
  <1> QED BY <1>3, <1>4

\* It holds at first.
LEMMA ContractInit == QueueInit => ContractInv
  <1> SUFFICES ASSUME QueueInit PROVE ContractInv
    OBVIOUS
  <1>1. PICK b \in Beginnings : /\ queue = b.queue /\ upvotes = b.upvotes
                               /\ expired = b.expired /\ dequeued = b.dequeued
    BY DEF QueueInit
  <1>2. /\ queue \in Seq(Proposals) /\ upvotes \in [Proposals -> Nat]
        /\ \A i, j \in DOMAIN queue : queue[i] = queue[j] => i = j
        /\ Sorted(queue, upvotes) /\ expired \subseteq Members(queue)
        /\ dequeued \subseteq Proposals \ Members(queue)
        /\ \A p \in Proposals \ (Members(queue) \cup dequeued) : upvotes[p] = 0
    BY <1>1, GovernanceAssumption
  <1>3. InQueueOrder
    BY <1>2 DEF InQueueOrder, Distinct
  <1>4. Members(queue) \subseteq Proposals
    BY <1>2 DEF Members
  <1>5. Leaves
    BY <1>2, <1>4 DEF Leaves, QueueInit
  <1>6. Counts
    BY <1>2, GovernanceAssumption DEF Counts, Known, Queued, QueueInit
  <1>7. RecordCounted
    <2>1. CASE record = NoRecord
      BY <2>1 DEF RecordCounted, NoRecord
    <2>2. CASE record # NoRecord
      BY <2>2, GovernanceAssumption DEF RecordCounted, QueueInit
    <2> QED BY <2>1, <2>2
  <1> QED BY <1>3, <1>5, <1>6, <1>7 DEF ContractInv

\* The record counts as long as the upvotes of its proposal do not go below it.
LEMMA RecordStays ==
  ASSUME RecordCounted, record' = record,
         record.id \in Proposals => upvotes'[record.id] >= record.weight,
         record.id \in Proposals => upvotes'[record.id] \in Nat
  PROVE  RecordCounted'
BY DEF RecordCounted

\* upvote of the contract.
LEMMA UpvoteKeeps ==
  ASSUME ContractInv, NEW id, ContractUpvote(id), UpvoteExpired(id) \/ MayUpvote(id)
  PROVE  ContractInv'
  <1>1. /\ InQueueOrder /\ Counts /\ Leaves /\ RecordCounted
        /\ Dequeue /\ expired' = expired /\ weight' = weight
    BY DEF ContractInv, ContractUpvote
  <1>2. CASE UpvoteExpired(id)
    <2>1. queue' = Remaining({id}) /\ upvotes' = upvotes /\ record' = record
      BY <1>2 DEF ContractUpvote
    <2>2. /\ InQueueOrder' /\ Members(queue)' = Members(Unpopped) \ ({id} \cap expired)
      BY <1>1, <2>1, RemainingIs DEF InQueueOrder
    <2>3. Leaves' /\ \A p \in Proposals : Known(p) => Known(p)'
      BY <1>1, <2>2, StillKnown
    <2>4. Counts' /\ RecordCounted'
      BY <1>1, <2>1, <2>3 DEF Counts, RecordCounted
    <2> QED BY <2>2, <2>3, <2>4 DEF ContractInv
  <1>3. CASE ~UpvoteExpired(id)
    <2> DEFINE list == Remaining({record.id})
               total == upvotes[id] + weight
    <2>1. /\ id \in Members(list) /\ list \in Seq(Proposals)
          /\ Distinct(list) /\ Sorted(list, upvotes)
          /\ Members(list) = Members(Unpopped) \ ({record.id} \cap expired)
      BY <1>1, <1>3, RemainingIs DEF MayUpvote
    <2>2. /\ upvotes' = [upvotes EXCEPT ![id] = total]
          /\ record' = [id |-> id, weight |-> weight]
          /\ \E place \in Places(Rest(list, id), upvotes, total, hint) :
               queue' = PutAt(Rest(list, id), id, place)
      BY <1>3 DEF ContractUpvote, Update
    <2>3. id \in Proposals /\ upvotes \in [Proposals -> Nat] /\ weight \in Nat /\ total \in Nat
      BY <1>1, <2>1 DEF Members, Counts
    <2> HIDE DEF list, total
    <2>4. PICK place \in 0 .. Len(Rest(list, id)) :
            /\ Fits(Rest(list, id), upvotes, total, place)
            /\ queue' = PutAt(Rest(list, id), id, place)
      BY <2>2 DEF Places
    <2>5. InQueueOrder' /\ Members(queue)' = Members(list)
      BY <2>1, <2>2, <2>3, <2>4, UpdateIs
    <2>6. Leaves' /\ \A p \in Proposals : Known(p) => Known(p)'
      BY <1>1, <2>1, <2>5, StillKnown
    <2>7. Known(id)'
      BY <2>1, <2>5 DEF Known, Queued
    <2>8. Counts'
      <3>1. \A p \in Proposals : Known(p)' \/ upvotes'[p] = 0
        BY <1>1, <2>2, <2>3, <2>6, <2>7 DEF Counts
      <3>2. upvotes' \in [Proposals -> Nat]
        BY <2>2, <2>3
      <3> QED BY <1>1, <2>3, <3>1, <3>2 DEF Counts
    <2>9. RecordCounted'
      <3>1. record'.id = id /\ record'.weight = weight /\ upvotes'[id] = total
        BY <2>2, <2>3
      <3>2. upvotes[id] \in Nat /\ weight <= total
        BY <2>3 DEF total
      <3> QED BY <2>3, <3>1, <3>2 DEF RecordCounted
    <2> QED BY <2>5, <2>6, <2>8, <2>9 DEF ContractInv
  <1> QED BY <1>2, <1>3

\* revokeUpvote of the contract.
LEMMA RevokeKeeps ==
  ASSUME ContractInv, ContractRevoke
  PROVE  ContractInv'
  <1> DEFINE list == Remaining({record.id})
  <1>1. /\ InQueueOrder /\ Counts /\ Leaves /\ RecordCounted
        /\ Dequeue /\ expired' = expired /\ weight' = weight
        /\ record' = NoRecord
    BY DEF ContractInv, ContractRevoke
  <1>2. RecordCounted'
    BY <1>1 DEF RecordCounted, NoRecord
  <1>3. /\ list \in Seq(Proposals) /\ Distinct(list) /\ Sorted(list, upvotes)
        /\ Members(list) = Members(Unpopped) \ ({record.id} \cap expired)
    BY <1>1, RemainingIs
  <1>4. Counted <=> record.id \in Members(list)
    BY DEF Counted
  <1>5. /\ Counted => Update(list, record.id, upvotes[record.id] - record.weight)
        /\ ~Counted => queue' = list /\ upvotes' = upvotes
    BY DEF ContractRevoke
  <1> HIDE DEF list
  <1>6. CASE ~Counted
    <2>1. InQueueOrder' /\ Members(queue)' = Members(list)
      BY <1>3, <1>5, <1>6 DEF InQueueOrder
    <2>2. Leaves' /\ \A p \in Proposals : Known(p) => Known(p)'
      BY <1>1, <1>3, <2>1, StillKnown
    <2>3. Counts'
      BY <1>1, <1>5, <1>6, <2>2 DEF Counts
    <2> QED BY <1>2, <2>1, <2>2, <2>3 DEF ContractInv
  <1>7. CASE Counted
    <2>0. PICK p : p = record.id
      OBVIOUS
    <2> DEFINE total == upvotes[p] - record.weight
    <2>1. p \in Members(list) /\ p \in Proposals
      BY <1>3, <1>4, <1>7, <2>0 DEF Members
    <2>2. record.weight \in Nat /\ record.weight <= upvotes[p]
      BY <1>1, <2>0, <2>1, GovernanceAssumption DEF RecordCounted, NoRecord
    <2>3. upvotes \in [Proposals -> Nat] /\ upvotes[p] \in Nat /\ total \in Nat
      <3>1. upvotes \in [Proposals -> Nat] /\ upvotes[p] \in Nat
        BY <1>1, <2>1 DEF Counts
      <3> QED BY <2>2, <3>1
    <2>4. Update(list, p, total)
      BY <1>5, <1>7, <2>0
    <2> HIDE DEF total
    <2>5. PICK place \in 0 .. Len(Rest(list, p)) :
            /\ upvotes' = [upvotes EXCEPT ![p] = total]
            /\ Fits(Rest(list, p), upvotes, total, place)
            /\ queue' = PutAt(Rest(list, p), p, place)
      BY <2>4 DEF Update, Places
    <2>6. InQueueOrder' /\ Members(queue)' = Members(list)
      BY <1>3, <2>1, <2>3, <2>5, UpdateIs
    <2>7. Leaves' /\ \A q \in Proposals : Known(q) => Known(q)'
      BY <1>1, <1>3, <2>6, StillKnown
    <2>8. Known(p)'
      BY <2>1, <2>6 DEF Known, Queued
    <2>9. Counts'
      <3>1. \A q \in Proposals : Known(q)' \/ upvotes'[q] = 0
        BY <1>1, <2>3, <2>5, <2>7, <2>8 DEF Counts
      <3>2. upvotes' \in [Proposals -> Nat]
        BY <2>1, <2>3, <2>5
      <3> QED BY <1>1, <3>1, <3>2 DEF Counts
    <2> QED BY <1>2, <2>6, <2>7, <2>9 DEF ContractInv
  <1> QED BY <1>6, <1>7

\* dequeueProposalsIfReady by itself.
LEMMA DequeueKeeps ==
  ASSUME ContractInv, ContractDequeue
  PROVE  ContractInv'
  <1>1. /\ InQueueOrder /\ Counts /\ Leaves /\ RecordCounted /\ Dequeue /\ queue' = Unpopped
        /\ UNCHANGED <<upvotes, expired, record, weight>>
    BY DEF ContractInv, ContractDequeue
  <1>2. InQueueOrder'
    BY <1>1, UnpoppedIs DEF InQueueOrder
  <1>3. Leaves' /\ \A p \in Proposals : Known(p) => Known(p)'
    BY <1>1, StillKnown
  <1>4. Counts' /\ RecordCounted'
    BY <1>1, <1>3 DEF Counts, RecordCounted
  <1> QED BY <1>2, <1>3, <1>4 DEF ContractInv

\* propose, at the end of the queue since it has no upvotes.
LEMMA ProposeKeeps ==
  ASSUME ContractInv, NEW p \in Proposals, Propose(p)
  PROVE  ContractInv'
  <1>1. /\ InQueueOrder /\ Counts /\ Leaves /\ RecordCounted
        /\ ~Known(p) /\ queue' = Append(queue, p)
        /\ UNCHANGED <<upvotes, expired, dequeued, ready, record, weight>>
    BY DEF ContractInv, Propose
  <1>2. /\ queue \in Seq(Proposals) /\ Len(queue) \in Nat /\ DOMAIN queue = 1 .. Len(queue)
        /\ \A i, j \in 1 .. Len(queue) : queue[i] = queue[j] => i = j
        /\ \A i, j \in 1 .. Len(queue) : i < j => upvotes[queue[i]] >= upvotes[queue[j]]
        /\ upvotes \in [Proposals -> Nat] /\ upvotes[p] = 0
    BY <1>1 DEF InQueueOrder, Distinct, Sorted, Counts
  <1>3. \A i \in 1 .. Len(queue) : queue[i] # p /\ queue[i] \in Proposals
    BY <1>1, <1>2 DEF Known, Queued, Members
  <1> DEFINE q == Append(queue, p)
             n == Len(queue)
  <1>4. /\ q \in Seq(Proposals) /\ DOMAIN q = 1 .. n + 1 /\ q[n + 1] = p
        /\ \A i \in 1 .. n : q[i] = queue[i]
    BY <1>2
  <1> HIDE DEF q, n
  <1>5. Distinct(q)
    BY <1>2, <1>3, <1>4 DEF Distinct, n
  <1>6. Sorted(q, upvotes)
    <2> SUFFICES ASSUME NEW i \in 1 .. n + 1, NEW j \in 1 .. n + 1, i < j
                 PROVE  upvotes[q[i]] >= upvotes[q[j]]
      BY <1>4 DEF Sorted
    <2>1. i \in 1 .. n /\ (j \in 1 .. n \/ j = n + 1)
      BY <1>2 DEF n
    <2>2. upvotes[q[i]] \in Nat
      BY <1>2, <1>3, <1>4, <2>1 DEF n
    <2> QED BY <1>2, <1>4, <2>1, <2>2 DEF n
  <1>7. Members(q) = Members(queue) \cup {p}
    BY <1>2, <1>4 DEF Members, n
  <1>8. InQueueOrder' /\ Members(queue)' = Members(queue) \cup {p}
    BY <1>1, <1>4, <1>5, <1>6, <1>7 DEF InQueueOrder, q
  <1>9. Leaves' /\ Counts' /\ RecordCounted'
    BY <1>1, <1>8 DEF Leaves, Counts, RecordCounted, Known, Queued
  <1> QED BY <1>8, <1>9 DEF ContractInv

\* Others upvote a queued proposal or revoke that.
LEMMA OthersUpvoteKeeps ==
  ASSUME ContractInv, NEW p \in Proposals, NEW n \in {1, -1}, OthersUpvote(p, n)
  PROVE  ContractInv'
  <1> DEFINE total == upvotes[p] + n
  <1>1. /\ InQueueOrder /\ Counts /\ Leaves /\ RecordCounted /\ Queued(p)
        /\ total \in Nat /\ (record.id = p => total >= record.weight)
        /\ upvotes' = Added(upvotes, p, n)
        /\ UNCHANGED <<expired, dequeued, ready, record, weight>>
    BY GovernanceAssumption DEF ContractInv, OthersUpvote
  <1>2. PICK place \in 0 .. Len(Rest(queue, p)) :
          /\ Fits(Rest(queue, p), upvotes, total, place)
          /\ queue' = PutAt(Rest(queue, p), p, place)
    BY DEF OthersUpvote
  <1>3. /\ upvotes \in [Proposals -> Nat] /\ p \in Members(queue)
        /\ upvotes' = [upvotes EXCEPT ![p] = total]
    BY <1>1 DEF Counts, Queued, Added
  <1> HIDE DEF total
  <1>4. InQueueOrder' /\ Members(queue)' = Members(queue)
    BY <1>1, <1>2, <1>3, UpdateIs DEF InQueueOrder
  <1>5. Leaves' /\ Counts'
    BY <1>1, <1>3, <1>4 DEF Leaves, Counts, Known, Queued
  <1>6. RecordCounted'
    <2>1. record.id \in Proposals => upvotes'[record.id] \in Nat
      BY <1>5 DEF Counts
    <2>2. record.id \in Proposals => upvotes'[record.id] >= record.weight
      <3>1. CASE record.id = p
        BY <1>1, <1>3, <3>1
      <3>2. CASE record.id # p /\ record.id \in Proposals
        <4>1. upvotes'[record.id] = upvotes[record.id]
          BY <1>3, <3>2
        <4>2. record.weight <= upvotes[record.id] /\ record.weight \in Nat
          BY <1>1, <3>2, GovernanceAssumption DEF RecordCounted, NoRecord
        <4>3. upvotes[record.id] \in Nat
          BY <1>3, <3>2
        <4> QED BY <4>1, <4>2, <4>3
      <3> QED BY <3>1, <3>2
    <2> QED BY <1>1, <2>1, <2>2, RecordStays
  <1> QED BY <1>4, <1>5, <1>6 DEF ContractInv

\* Time makes a dequeue due or a proposal expire.
LEMMA TimeKeeps ==
  ASSUME ContractInv, TimePasses
  PROVE  ContractInv'
  <1>1. /\ InQueueOrder /\ Counts /\ Leaves /\ RecordCounted
        /\ UNCHANGED <<queue, upvotes, dequeued, record, weight>>
        /\ expired \subseteq expired' /\ expired' \subseteq expired \cup Members(queue)
        /\ ready' \in BOOLEAN
    BY DEF ContractInv, TimePasses, Leaves
  <1>2. Members(queue) \subseteq Proposals
    BY <1>1 DEF InQueueOrder, Members
  <1>3. InQueueOrder' /\ Leaves' /\ Counts' /\ RecordCounted'
    BY <1>1, <1>2 DEF InQueueOrder, Leaves, Counts, RecordCounted, Known, Queued
  <1> QED BY <1>3 DEF ContractInv

\* So does every step.
LEMMA ContractNext == ContractInv /\ [QueueNext]_queueVars => ContractInv'
  <1> SUFFICES ASSUME ContractInv, [QueueNext]_queueVars PROVE ContractInv'
    OBVIOUS
  <1>1. CASE UNCHANGED contract
    BY <1>1 DEF contract, ContractInv, InQueueOrder, Leaves, Counts, RecordCounted, Known, Queued
  <1>2. CASE Send
    BY <1>1, <1>2, UpvoteKeeps, RevokeKeeps DEF Send, Accepted
  <1>3. CASE Noise
    BY <1>3, ProposeKeeps, OthersUpvoteKeeps, DequeueKeeps, TimeKeeps DEF Noise
  <1>4. CASE SendDequeue
    BY <1>4, DequeueKeeps DEF SendDequeue
  <1>5. ASSUME NEW c \in QueueCommands, Start(c) PROVE UNCHANGED contract
    BY <1>5 DEF Start
  <1>6. ASSUME CheckStage \/ ReadQueue \/ Consider \/ ReadRecord \/ BuildUpvote \/ BuildRevoke
        PROVE  UNCHANGED contract
    BY <1>6 DEF CheckStage, ReadQueue, Consider, ReadRecord, BuildUpvote, BuildRevoke
  <1>7. ASSUME Exit \/ UNCHANGED queueVars PROVE UNCHANGED contract
    BY <1>7 DEF Exit, queueVars
  <1> QED BY <1>1, <1>2, <1>3, <1>4, <1>5, <1>6, <1>7 DEF QueueNext

\* A queue in this order has the hints that HintsOfQueue speaks of.
LEMMA FitsUnlessBetweenTies ==
  ASSUME ContractInv, NEW p \in Members(queue), NEW total \in Int,
         NEW then, then[p] = total, \A x \in Proposals \ {p} : then[x] = upvotes[x]
  PROVE  Accepts(queue, upvotes, p, total, LesserAndGreaterOf(SortedQueue(queue, then), p))
           <=> ~BetweenTies(p, total)
  <1>1. /\ queue \in Seq(Proposals) /\ Distinct(queue) /\ Sorted(queue, upvotes)
        /\ Nobody \notin Proposals /\ \A x \in Proposals : upvotes[x] \in Int
    BY GovernanceAssumption DEF ContractInv, InQueueOrder, Counts
  <1>2. Accepts(queue, upvotes, p, total, LesserAndGreaterOf(SortedQueue(queue, then), p))
          <=> ~Tied(Members(queue) \ {p}, upvotes, total)
    BY <1>1, HintsOfQueue
  <1>3. Tied(Members(queue) \ {p}, upvotes, total) <=> BetweenTies(p, total)
    BY DEF Tied, BetweenTies
  <1> QED BY <1>2, <1>3

\* For an upvote ...
LEMMA UpvoteFits ==
  ASSUME ContractInv, NEW p \in Members(queue)
  PROVE  Accepts(queue, upvotes, p, upvotes[p] + weight, UpvoteHint(p, FALSE))
           <=> ~BetweenTies(p, upvotes[p] + weight)
  <1>1. /\ upvotes \in [Proposals -> Nat] /\ weight \in Nat /\ p \in Proposals
    BY DEF ContractInv, InQueueOrder, Counts, Members
  <1> DEFINE then == Added(upvotes, p, weight)
             total == upvotes[p] + weight
  <1>2. /\ total \in Int /\ then[p] = total
        /\ \A x \in Proposals \ {p} : then[x] = upvotes[x]
    BY <1>1 DEF Added
  <1>3. UpvoteHint(p, FALSE) = LesserAndGreaterOf(SortedQueue(queue, then), p)
    BY DEF UpvoteHint, AfterUpvote
  <1> HIDE DEF then, total
  <1>4. Accepts(queue, upvotes, p, total, LesserAndGreaterOf(SortedQueue(queue, then), p))
          <=> ~BetweenTies(p, total)
    BY <1>2, FitsUnlessBetweenTies
  <1> QED BY <1>3, <1>4 DEF total

\* ... and for a revocation.
LEMMA RevokeFits ==
  ASSUME ContractInv, Queued(record.id)
  PROVE  Accepts(queue, upvotes, record.id, VotesRevoked[record.id], AfterRevoke)
           <=> ~BetweenTies(record.id, VotesRevoked[record.id])
  <1>1. /\ upvotes \in [Proposals -> Nat] /\ record.weight \in Nat
        /\ record.id \in Members(queue) /\ record.id \in Proposals
    BY DEF ContractInv, InQueueOrder, Counts, RecordCounted, Members, Queued
  <1> DEFINE total == VotesRevoked[record.id]
             p == record.id
  <1>2. /\ VotesRevoked = [upvotes EXCEPT ![p] = upvotes[p] + (- record.weight)]
    BY DEF VotesRevoked, Added
  <1>3. /\ total \in Int
        /\ \A x \in Proposals \ {p} : VotesRevoked[x] = upvotes[x]
    BY <1>1, <1>2
  <1>4. AfterRevoke = LesserAndGreaterOf(SortedQueue(queue, VotesRevoked), p)
    BY DEF AfterRevoke
  <1> HIDE DEF p
  <1>5. p \in Members(queue) /\ VotesRevoked[p] = total
    BY <1>1 DEF p
  <1> HIDE DEF total
  <1>6. Accepts(queue, upvotes, p, total, LesserAndGreaterOf(SortedQueue(queue, VotesRevoked), p))
          <=> ~BetweenTies(p, total)
    BY <1>3, <1>5, FitsUnlessBetweenTies
  <1> QED BY <1>4, <1>6 DEF total, p

\* What sortedQueue says of the queue as it is now is a place that the contract accepts
\* exactly when it is not between ties (Governance.ts, lesserAndGreaterAfterUpvote and
\* lesserAndGreaterAfterRevoke).
THEOREM HintsFitUnlessBetweenTies == QueueSpec => []FreshHintsFit
  <1>1. ContractInv => FreshHintsFit
    BY UpvoteFits, RevokeFits DEF FreshHintsFit
  <1> QED BY <1>1, ContractInit, ContractNext, PTL DEF QueueSpec

-----------------------------------------------------------------------------
(* The governance queue: governance:upvote while nobody else acts.         *)

\* Why an upvote may fail.
Refused == \/ weight = 0 \/ Queued(record.id) \/ ready
           \/ BetweenTies(cmd.id, upvotes[cmd.id] + weight)

\* What the command knows of the chain is as it is on the chain.
Knows ==
  /\ pc \in {"reading", "considering", "dequeuing", "hinting", "building", "sending"} =>
       cmd.id \in Members(queue) \ expired
  /\ pc = "considering" => read = queue
  /\ pc = "dequeuing" => considered = Members(FirstOf(queue)) \ expired
  /\ pc \in {"building", "sending"} => revoking = Queued(record.id)
  /\ pc = "sending" => hint = UpvoteHint(cmd.id, revoking)
  /\ pc = "failed" => Refused
Going == /\ noise \in Nat /\ (pc = "revoking" => cmd.op # "upvote")
         /\ Undisturbed /\ cmd.op = "upvote" => Knows

\* What the contract turns back, when nothing is due, is between ties.
LEMMA RefusedIs ==
  ASSUME ContractInv, cmd.id \in Members(queue), revoking = Queued(record.id),
         hint = UpvoteHint(cmd.id, revoking), ~MayUpvote(cmd.id)
  PROVE  Refused
  <1> SUFFICES ASSUME weight # 0, ~Queued(record.id), ~ready
               PROVE  BetweenTies(cmd.id, upvotes[cmd.id] + weight)
    BY DEF Refused
  <1>1. {record.id} \cap Members(queue) = {} /\ revoking = FALSE
    <2>1. record.id \notin Members(queue)
      BY DEF Queued
    <2>2. revoking = (record.id \in Members(queue))
      BY DEF Queued
    <2>3. (record.id \in Members(queue)) = FALSE
      BY <2>1
    <2> QED BY <2>1, <2>2, <2>3
  <1>2. Remaining({record.id}) = queue
    BY <1>1, RemainingIs DEF ContractInv
  <1>3. weight > 0
    BY DEF ContractInv, Counts
  <1>4. ~Accepts(queue, upvotes, cmd.id, upvotes[cmd.id] + weight, hint)
    BY <1>1, <1>2, <1>3 DEF MayUpvote
  <1> QED BY <1>1, <1>4, UpvoteFits

\* A command begins.
LEMMA GoingStarts ==
  ASSUME Going, NEW c \in QueueCommands, Start(c)
  PROVE  Going'
  <1>1. /\ cmd'.op = c.op /\ noise' = noise
        /\ pc' = CASE c.op = "upvote" -> "checking"
                   [] c.op = "revokeupvote" -> "revoking"
                   [] OTHER -> "dequeuing"
    BY DEF Start
  <1>2. c.op = "upvote" => pc' = "checking"
    BY <1>1
  <1>3. c.op # "upvote" => cmd'.op # "upvote"
    BY <1>1
  <1>4. noise' \in Nat /\ (pc' = "revoking" => cmd'.op # "upvote")
    BY <1>1, <1>2, <1>3 DEF Going
  <1>5. cmd'.op = "upvote" => Knows'
    BY <1>1, <1>2 DEF Knows
  <1> QED BY <1>4, <1>5 DEF Going

\* The transaction that dequeues: the proposal to upvote was not among the first.
LEMMA GoingDequeues ==
  ASSUME ContractInv, Going, SendDequeue
  PROVE  Going'
  <1>1. /\ pc = "dequeuing" /\ queue' = Unpopped
        /\ pc' = IF cmd.op = "dequeue" THEN "done"
                 ELSE IF cmd.id \in considered THEN "dequeued" ELSE "hinting"
        /\ UNCHANGED <<noise, cmd, expired>>
    BY DEF SendDequeue, ContractDequeue
  <1>2. noise' \in Nat /\ pc' # "revoking"
    BY <1>1 DEF Going
  <1>3. ASSUME Undisturbed', cmd'.op = "upvote" PROVE Knows'
    <2>1. /\ cmd.id \in Members(queue) \ expired
          /\ considered = Members(FirstOf(queue)) \ expired
      BY <1>1, <1>3 DEF Going, Undisturbed, Knows
    <2>2. pc' = "hinting" => cmd.id \in Members(queue)'
      BY <1>1, <2>1, UnpoppedIs DEF ContractInv, NewlyDequeued
    <2>3. pc' \in {"dequeued", "hinting"}
      BY <1>1, <1>3
    <2> QED BY <1>1, <2>1, <2>2, <2>3 DEF Knows
  <1> QED BY <1>2, <1>3 DEF Going

\* The steps that read and compute.
LEMMA GoingReads ==
  ASSUME Going, CheckStage \/ ReadQueue \/ Consider \/ ReadRecord \/ BuildUpvote \/ BuildRevoke
  PROVE  Going'
  <1>1. UNCHANGED <<contract, noise, cmd>>
    BY DEF CheckStage, ReadQueue, Consider, ReadRecord, BuildUpvote, BuildRevoke
  <1>2. /\ UNCHANGED <<queue, upvotes, expired, ready, record, weight>>
        /\ noise' \in Nat /\ (Undisturbed' <=> Undisturbed)
    BY <1>1 DEF contract, Going, Undisturbed
  <1>3. CASE BuildRevoke
    BY <1>1, <1>2, <1>3 DEF BuildRevoke, Going
  <1>4. CASE CheckStage
    BY <1>1, <1>2, <1>4 DEF CheckStage, Going, Knows
  <1>5. CASE ReadQueue
    BY <1>1, <1>2, <1>5 DEF ReadQueue, Going, Knows
  <1>6. CASE Consider
    BY <1>1, <1>2, <1>6 DEF Consider, Going, Knows, FirstOf
  <1>7. CASE ReadRecord
    BY <1>1, <1>2, <1>7 DEF ReadRecord, Going, Knows, Queued
  <1>8. CASE BuildUpvote
    <2>1. /\ pc = "building" /\ revoking' = revoking
          /\ pc' = IF Queued(cmd.id) /\ (revoking => Queued(record.id)) THEN "sending" ELSE "failed"
          /\ Queued(cmd.id) /\ (revoking => Queued(record.id)) => hint' = UpvoteHint(cmd.id, revoking)
      BY <1>8 DEF BuildUpvote
    <2>2. ASSUME Undisturbed, cmd.op = "upvote" PROVE Knows'
      <3>1. cmd.id \in Members(queue) \ expired /\ revoking = Queued(record.id)
        BY <2>1, <2>2 DEF Going, Knows
      <3>2. pc' = "sending" /\ hint' = UpvoteHint(cmd.id, revoking)
        BY <2>1, <3>1 DEF Queued
      <3>3. UpvoteHint(cmd.id, revoking)' = UpvoteHint(cmd.id, revoking)
        BY <1>1, <1>2, <2>1 DEF UpvoteHint, AfterUpvote, VotesRevoked
      <3> QED BY <1>1, <1>2, <2>1, <3>1, <3>2, <3>3 DEF Knows, Queued
    <2> QED BY <1>1, <1>2, <2>1, <2>2 DEF Going
  <1> QED BY <1>3, <1>4, <1>5, <1>6, <1>7, <1>8

\* The upvote itself.
LEMMA GoingSends ==
  ASSUME ContractInv, Going, Send
  PROVE  Going'
  <1>1. /\ pc = "sending" /\ UNCHANGED <<noise, cmd>> /\ pc' \in {"done", "failed"}
        /\ pc' = "failed" => ~Accepted /\ UNCHANGED contract
    BY DEF Send
  <1>2. ASSUME Undisturbed, cmd.op = "upvote", pc' = "failed" PROVE Refused'
    <2>1. ~MayUpvote(cmd.id) /\ UNCHANGED contract
      BY <1>1, <1>2 DEF Accepted
    <2>2. /\ cmd.id \in Members(queue) /\ revoking = Queued(record.id)
          /\ hint = UpvoteHint(cmd.id, revoking)
      BY <1>1, <1>2 DEF Going, Knows
    <2>3. Refused
      BY <2>1, <2>2, RefusedIs
    <2> QED BY <1>1, <2>1, <2>3 DEF Refused, contract, Queued, BetweenTies
  <1> QED BY <1>1, <1>2 DEF Going, Undisturbed, Knows

\* So it goes.
LEMMA GoingNext == ContractInv /\ Going /\ [QueueNext]_queueVars => Going'
  <1> SUFFICES ASSUME ContractInv, Going, [QueueNext]_queueVars PROVE Going'
    OBVIOUS
  <1>1. CASE Noise
    <2>1. noise' \in Nat /\ noise' # 0 /\ UNCHANGED <<pc, cmd>>
      BY <1>1 DEF Noise, Going
    <2> QED BY <2>1 DEF Going, Undisturbed
  <1>2. CASE Exit \/ UNCHANGED queueVars
    <2>1. UNCHANGED queueVars
      BY <1>2 DEF Exit
    <2>2. UNCHANGED <<queue, upvotes, expired, ready, record, weight, noise, pc, cmd, read,
                      considered, revoking, hint>>
      BY <2>1 DEF queueVars, contract
    <2>3. UpvoteHint(cmd.id, revoking)' = UpvoteHint(cmd.id, revoking)
      BY <2>2 DEF UpvoteHint, AfterUpvote, VotesRevoked
    <2> QED BY <2>2, <2>3 DEF Going, Undisturbed, Knows, Refused, Queued, BetweenTies, FirstOf
  <1> QED BY <1>1, <1>2, GoingStarts, GoingDequeues, GoingReads, GoingSends DEF QueueNext

\* While nobody else acts, governance:upvote fails only for an account without locked
\* gold or with an upvote in the queue, when a dequeue is still due, or between ties
\* (upvote.ts, Governance.ts).
THEOREM UpvotesGoThrough == QueueSpec => []UpvoteGoesThrough
  <1>1. QueueInit => Going
    BY DEF QueueInit, Going, Knows, NoCommand
  <1>2. Going => UpvoteGoesThrough
    BY DEF Going, Knows, Refused, UpvoteGoesThrough
  <1> QED BY <1>1, <1>2, ContractInit, ContractNext, GoingNext, PTL DEF QueueSpec

-----------------------------------------------------------------------------
(* The governance queue: types.                                            *)

\* A list without repetitions has as many members as elements.
LEMMA MembersCount ==
  ASSUME NEW S, NEW list \in Seq(S)
  PROVE  /\ IsFiniteSet(Members(list)) /\ Cardinality(Members(list)) \in Nat
         /\ Cardinality(Members(list)) <= Len(list)
         /\ Distinct(list) => Cardinality(Members(list)) = Len(list)
  <1> DEFINE M == Members(list)
  <1>1. PICK n \in Nat : n = Len(list) /\ DOMAIN list = 1 .. n
    OBVIOUS
  <1>2. list \in Surjection(1 .. n, M)
    BY <1>1 DEF Members, Surjection
  <1>3. IsFiniteSet(1 .. n) /\ Cardinality(1 .. n) = n
    BY FS_Interval
  <1>4. Distinct(list) => list \in Injection(1 .. n, M)
    BY <1>1, <1>2 DEF Distinct, Injection, IsInjective, Surjection
  <1> HIDE DEF M
  <1>5. /\ IsFiniteSet(M) /\ Cardinality(M) <= Cardinality(1 .. n)
        /\ Cardinality(M) = Cardinality(1 .. n) <=> list \in Injection(1 .. n, M)
    BY <1>2, <1>3, FS_Surjection
  <1>6. Cardinality(M) \in Nat
    BY <1>5, FS_CardinalityType
  <1> QED BY <1>1, <1>3, <1>4, <1>5, <1>6 DEF M

\* The neighbours of a member are members or nobody.
LEMMA NeighboursTyped ==
  ASSUME NEW S, NEW list \in Seq(S), NEW p \in Members(list)
  PROVE  LET h == LesserAndGreaterOf(list, p) IN
         {h.lesser, h.greater} \subseteq S \cup {Nobody}
  <1>1. PICK i, n : i = PlaceOf(list, p) /\ n = Len(list)
    OBVIOUS
  <1>2. n \in Nat /\ i \in 1 .. n /\ \A j \in 1 .. n : list[j] \in S
    BY <1>1, PlaceOfMember
  <1>3. /\ i # 1 => list[i - 1] \in S
        /\ i # n => list[i + 1] \in S
    <2>1. i # 1 => i - 1 \in 1 .. n
      BY <1>2
    <2>2. i # n => i + 1 \in 1 .. n
      BY <1>2
    <2> QED BY <1>2, <2>1, <2>2
  <1> QED BY <1>1, <1>3 DEF LesserAndGreaterOf

\* What the command has read, considered and computed.
Reading ==
  /\ read \in Seq(Proposals)
  /\ considered \subseteq Proposals /\ Cardinality(considered) <= Concurrent
  /\ {hint.lesser, hint.greater} \subseteq Proposals \cup {Nobody}

\* The first of what was read are as many as may be dequeued at once.
LEMMA ConsideredFew ==
  ASSUME Reading
  PROVE  /\ Members(FirstOf(read)) \ expired \subseteq Proposals
         /\ Cardinality(Members(FirstOf(read)) \ expired) <= Concurrent
  <1> DEFINE f == FirstOf(read)
             C == Members(f) \ expired
  <1>1. /\ f \in Seq(Proposals) /\ Len(f) \in Nat /\ Len(f) <= Concurrent
    BY FirstOfIs DEF Reading
  <1>2. Members(f) \subseteq Proposals
    BY <1>1 DEF Members
  <1> HIDE DEF f
  <1>3. /\ IsFiniteSet(Members(f)) /\ Cardinality(Members(f)) \in Nat
        /\ Cardinality(Members(f)) <= Len(f)
    BY <1>1, MembersCount
  <1>4. C \in SUBSET Members(f)
    OBVIOUS
  <1> HIDE DEF C
  <1>5. IsFiniteSet(C) /\ Cardinality(C) <= Cardinality(Members(f))
    BY <1>3, <1>4, FS_Subset
  <1>6. Cardinality(C) \in Nat
    BY <1>5, FS_CardinalityType
  <1>7. Concurrent \in Nat
    BY GovernanceAssumption
  <1>8. Cardinality(C) <= Concurrent
    BY ONLY <1>1, <1>3, <1>5, <1>6, <1>7
  <1> QED BY <1>2, <1>4, <1>8 DEF C, f

\* The neighbours that are computed for an upvote ...
LEMMA UpvoteHintTyped ==
  ASSUME ContractInv, NEW id \in Members(queue), NEW revoked, revoked => Queued(record.id)
  PROVE  {UpvoteHint(id, revoked).lesser, UpvoteHint(id, revoked).greater}
           \subseteq Proposals \cup {Nobody}
  <1>1. /\ queue \in Seq(Proposals) /\ Distinct(queue)
        /\ upvotes \in [Proposals -> Nat] /\ weight \in Nat /\ record.weight \in Nat
        /\ id \in Proposals
    BY DEF ContractInv, InQueueOrder, Counts, RecordCounted, Members
  <1>2. ASSUME NEW list \in Seq(Proposals), Distinct(list), id \in Members(list),
               NEW votes \in [Proposals -> Int]
        PROVE  {AfterUpvote(list, votes, id).lesser, AfterUpvote(list, votes, id).greater}
                 \subseteq Proposals \cup {Nobody}
    <2> DEFINE then == Added(votes, id, weight)
    <2>1. \A x \in Proposals : then[x] \in Int
      BY <1>1 DEF Added
    <2>2. AfterUpvote(list, votes, id) = LesserAndGreaterOf(SortedQueue(list, then), id)
      BY DEF AfterUpvote
    <2> HIDE DEF then
    <2>3. /\ SortedQueue(list, then) \in Seq(Proposals)
          /\ Members(SortedQueue(list, then)) = Members(list)
      BY <1>2, <2>1, SortedQueueIs
    <2> QED BY <1>2, <2>2, <2>3, NeighboursTyped
  <1>3. CASE ~revoked
    <2>1. upvotes \in [Proposals -> Int]
      BY <1>1
    <2>2. UpvoteHint(id, revoked) = AfterUpvote(queue, upvotes, id)
      BY <1>3 DEF UpvoteHint
    <2> QED BY <1>1, <1>2, <2>1, <2>2
  <1>4. CASE revoked
    <2>1. record.id \in Proposals
      BY <1>1, <1>4 DEF Queued, Members
    <2>2. VotesRevoked \in [Proposals -> Int]
      BY <1>1, <2>1 DEF VotesRevoked, Added
    <2> DEFINE list == SortedQueue(queue, VotesRevoked)
    <2>3. list \in Seq(Proposals) /\ Distinct(list) /\ Members(list) = Members(queue)
      BY <1>1, <2>2, SortedQueueIs
    <2>4. UpvoteHint(id, revoked) = AfterUpvote(list, VotesRevoked, id)
      BY <1>4 DEF UpvoteHint
    <2> HIDE DEF list
    <2> QED BY <1>2, <2>2, <2>3, <2>4
  <1> QED BY <1>3, <1>4

\* ... and for a revocation.
LEMMA RevokeHintTyped ==
  ASSUME ContractInv, Queued(record.id)
  PROVE  {AfterRevoke.lesser, AfterRevoke.greater} \subseteq Proposals \cup {Nobody}
  <1>1. /\ queue \in Seq(Proposals) /\ Distinct(queue)
        /\ upvotes \in [Proposals -> Nat] /\ record.weight \in Nat
        /\ record.id \in Members(queue) /\ record.id \in Proposals
    BY DEF ContractInv, InQueueOrder, Counts, RecordCounted, Members, Queued
  <1>2. \A x \in Proposals : VotesRevoked[x] \in Int
    BY <1>1 DEF VotesRevoked, Added
  <1>3. /\ SortedQueue(queue, VotesRevoked) \in Seq(Proposals)
        /\ Members(SortedQueue(queue, VotesRevoked)) = Members(queue)
    BY <1>1, <1>2, SortedQueueIs
  <1> QED BY <1>1, <1>3, NeighboursTyped DEF AfterRevoke

\* Every step keeps these types.
LEMMA ReadingNext == ContractInv /\ Reading /\ [QueueNext]_queueVars => Reading'
  <1> SUFFICES ASSUME ContractInv, Reading, [QueueNext]_queueVars PROVE Reading'
    OBVIOUS
  <1>1. CASE UNCHANGED <<read, considered, hint>>
    BY <1>1 DEF Reading
  <1>2. CASE ReadQueue
    BY <1>2 DEF ReadQueue, Reading, ContractInv, InQueueOrder
  <1>3. CASE Consider
    <2>1. considered' = Members(FirstOf(read)) \ expired /\ UNCHANGED <<read, hint>>
      BY <1>3 DEF Consider
    <2> QED BY <2>1, ConsideredFew DEF Reading
  <1>4. {NoHint.lesser, NoHint.greater} \subseteq Proposals \cup {Nobody}
    BY DEF NoHint
  <1>5. CASE BuildUpvote
    <2>1. /\ UNCHANGED <<read, considered>>
          /\ \/ hint' = NoHint
             \/ /\ cmd.id \in Members(queue) /\ (revoking => Queued(record.id))
                /\ hint' = UpvoteHint(cmd.id, revoking)
      BY <1>5 DEF BuildUpvote, Queued
    <2> QED BY <1>4, <2>1, UpvoteHintTyped DEF Reading
  <1>6. CASE BuildRevoke
    <2>1. /\ UNCHANGED <<read, considered>>
          /\ hint' = NoHint \/ (Queued(record.id) /\ hint' = AfterRevoke)
      BY <1>6 DEF BuildRevoke
    <2> QED BY <1>4, <2>1, RevokeHintTyped DEF Reading
  <1>7. ASSUME NEW c \in QueueCommands, Start(c) PROVE UNCHANGED <<read, considered, hint>>
    BY <1>7 DEF Start
  <1>8. ASSUME CheckStage \/ SendDequeue \/ ReadRecord \/ Send \/ Noise \/ Exit \/ UNCHANGED queueVars
        PROVE  UNCHANGED <<read, considered, hint>>
    BY <1>8 DEF CheckStage, SendDequeue, ReadRecord, Send, Noise, Exit, queueVars
  <1> QED BY <1>1, <1>2, <1>3, <1>5, <1>6, <1>7, <1>8 DEF QueueNext

\* The types of the state of governance:upvote, :revokeupvote and :dequeue: among them that
\* the contract's queue stays sorted without repetitions, that nothing in it was dequeued,
\* and that the account's upvote is counted as long as it has one.
THEOREM QueueTypes == QueueSpec => []QueueTypeOK
  <1>1. QueueInit => Reading
    <2> SUFFICES ASSUME QueueInit PROVE Reading
      OBVIOUS
    <2>1. read = <<>> /\ considered = {} /\ hint = NoHint
      BY DEF QueueInit
    <2>2. Cardinality({}) = 0 /\ Concurrent \in Nat
      BY FS_EmptySet, GovernanceAssumption
    <2> QED BY <2>1, <2>2 DEF Reading, NoHint
  <1>2. ContractInv /\ Reading => QueueTypeOK
    <2> SUFFICES ASSUME ContractInv, Reading PROVE QueueTypeOK
      OBVIOUS
    <2>1. Cardinality(Members(queue)) = Len(queue)
      BY MembersCount DEF ContractInv, InQueueOrder
    <2>2. record # NoRecord => upvotes[record.id] >= record.weight
      BY DEF ContractInv, RecordCounted, Counts
    <2> QED BY <2>1, <2>2 DEF ContractInv, InQueueOrder, Counts, Leaves, Reading, QueueTypeOK
  <1> QED BY <1>1, <1>2, ContractInit, ContractNext, ReadingNext, PTL DEF QueueSpec
=============================================================================
