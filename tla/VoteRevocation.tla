--------------------------- MODULE VoteRevocation ---------------------------
(***************************************************************************)
(* Revoking an account's votes for validator groups: Election.revoke of    *)
(* contractkit (election:revoke) and the revoke functions of its           *)
(* ReleaseGold wrapper (releasecelo:revoke-votes, releasecelo:admin-revoke)*)
(* in front of the external Election contract.                             *)
(*                                                                         *)
(* A command reads the account's votes, then builds its transactions, each *)
(* from the state of the chain at that moment (an index into the account's *)
(* list of groups, two neighbours in the sorted list), and only then sends *)
(* them one after the other; the first that reverts ends the command.      *)
(* Other accounts may vote, revoke and activate at any time in between.    *)
(***************************************************************************)
EXTENDS SortedVotes, FiniteSets, Functions
CONSTANTS Groups,     \* validator groups
          Ops,        \* the wrapper functions that are called
          MaxVotes,   \* bound on the votes of an account for a group
          MaxTotal,   \* bound on all votes in the beginning
          MaxNoise,   \* bound on the steps of other accounts
          MaxRuns     \* bound on the commands run in a row

Functions == {"Election.revoke", "ReleaseGold.revoke",
              "ReleaseGold.revokeAllVotesForGroup",
              "ReleaseGold.revokeAllVotesForAllGroups"}

ASSUME RevocationAssumption ==
  /\ Nobody \notin Groups /\ IsFiniteSet(Groups)
  /\ Ops \subseteq Functions
  /\ {MaxVotes, MaxTotal, MaxNoise, MaxRuns} \subseteq Nat

VARIABLES
  pending, active,  \* external: the account's votes for each group
  others,           \* external: the votes of everybody else
  list,             \* external: the eligible groups, most votes first
  votedFor,         \* external: groupsVotedFor of the account
  noise,            \* steps of other accounts so far
  runs,             \* commands so far
  pc,               \* where the command is
  cmd,              \* the function called, its group and its value
  before,           \* the account's votes when the command began
  order,            \* the groups of the command
  unread,           \* the groups whose votes it has not read
  halfRead, seen,   \* those of which it has read the pending votes, and these
  owed,             \* per group, what is read and not built yet
  built             \* per group, the transaction objects not sent yet

chain == <<pending, active, others, list, votedFor>>
reading == <<unread, halfRead, seen>>
client == <<pc, cmd, before, order, reading, owed, built>>
vars == <<chain, noise, runs, client>>

Mine(g) == pending[g] + active[g]
Votes == [g \in Groups |-> Mine(g) + others[g]]
Commands ==
  [op : Ops \cap {"Election.revoke", "ReleaseGold.revoke"},
   group : Groups, value : 1 .. 2 * MaxVotes]
  \cup [op : Ops \cap {"ReleaseGold.revokeAllVotesForGroup"},
        group : Groups, value : {0}]
  \cup [op : Ops \cap {"ReleaseGold.revokeAllVotesForAllGroups"},
        group : {Nobody}, value : {0}]
Nothing == [g \in Groups |-> <<>>]

-----------------------------------------------------------------------------
(* External: the Election contract.                                        *)

\* revokePending and revokeActive check the value, the hints while the group
\* is eligible, and the index when no vote for the group remains.
Valid(t) ==
  LET held == IF t.kind = "pending" THEN pending[t.group] ELSE active[t.group]
  IN /\ t.value \in 1 .. held
     /\ t.group \in Members(list) =>
          Accepts(list, Votes, t.group, Votes[t.group] - t.value, t.hint)
     /\ t.value = Mine(t.group) =>
          t.index + 1 \in DOMAIN votedFor /\ votedFor[t.index + 1] = t.group

\* The last group of the list takes the place of a deleted one.
DeleteElement(s, i) ==
  SubSeq([s EXCEPT ![i] = s[Len(s)]], 1, Len(s) - 1)

Revoke(t) ==
  /\ IF t.kind = "pending"
     THEN pending' = [pending EXCEPT ![t.group] = @ - t.value] /\ UNCHANGED active
     ELSE active' = [active EXCEPT ![t.group] = @ - t.value] /\ UNCHANGED pending
  /\ IF t.group \in Members(list)
     THEN LET rest == Rest(list, t.group) IN
          \E p \in Places(rest, Votes, Votes[t.group] - t.value, t.hint) :
             list' = PutAt(rest, t.group, p)
     ELSE UNCHANGED list
  /\ votedFor' = IF t.value = Mine(t.group)
                 THEN DeleteElement(votedFor, t.index + 1) ELSE votedFor
  /\ UNCHANGED others

\* Somebody else votes for a group or revokes a vote.
OthersVote(g, by) ==
  /\ others[g] + by \in 0 .. MaxVotes
  /\ others' = [others EXCEPT ![g] = @ + by]
  /\ IF g \in Members(list)
     THEN LET rest == Rest(list, g) IN
          \E p \in 0 .. Len(rest) :
             /\ Fits(rest, Votes, Votes[g] + by, p)
             /\ list' = PutAt(rest, g, p)
     ELSE UNCHANGED list
  /\ UNCHANGED <<pending, active, votedFor>>

\* activateForAccount may be called by anybody.
ActivatedByOthers(g) ==
  /\ pending[g] > 0
  /\ pending' = [pending EXCEPT ![g] = 0]
  /\ active' = [active EXCEPT ![g] = @ + pending[g]]
  /\ UNCHANGED <<others, list, votedFor>>

\* A group that lost its members is no longer eligible.
MarkIneligible(g) ==
  /\ g \in Members(list)
  /\ list' = Rest(list, g)
  /\ UNCHANGED <<pending, active, others, votedFor>>

Noise ==
  /\ noise < MaxNoise
  /\ noise' = noise + 1
  /\ \E g \in Groups : \/ OthersVote(g, 1) \/ OthersVote(g, -1)
                       \/ ActivatedByOthers(g)
                       \/ MarkIneligible(g)
  /\ UNCHANGED <<runs, client>>

-----------------------------------------------------------------------------
(* The wrappers.                                                           *)

\* What is to be revoked of a group, pending votes before active ones.  The
\* weight is what findLesserAndGreaterAfterVote is called with.
Parts(fromPending, fromActive, activeWeight) ==
  LET part(kind, value, weight) ==
        IF value = 0 THEN <<>>
        ELSE <<[kind |-> kind, value |-> value, weight |-> weight]>>
  IN part("pending", fromPending, - fromPending)
     \o part("active", fromActive, activeWeight)

\* MUTANT of FromPending: forgets that the value may be less.
AllPending(g, value) == seen[g]

\* BigNumber.minimum(vote.pending, value).
FromPending(g, value) == IF seen[g] < value THEN seen[g] ELSE value

\* MUTANT of PartsOf: Election.revoke leaves the pending votes, which are gone
\* by then, out of the weight of the active ones.
PartsSeparately(g) ==
  LET p == FromPending(g, cmd.value)
  IN IF cmd.op \in {"Election.revoke", "ReleaseGold.revoke"}
     THEN Parts(p, cmd.value - p, p - cmd.value)
     ELSE Parts(seen[g], active[g], - active[g])

\* Election.revoke, ReleaseGold.revoke and revokeAllVotesForGroup.
PartsOf(g) ==
  LET p == FromPending(g, cmd.value)
  IN CASE cmd.op = "Election.revoke"    -> Parts(p, cmd.value - p, - cmd.value)
       [] cmd.op = "ReleaseGold.revoke" -> Parts(p, cmd.value - p, p - cmd.value)
       [] OTHER -> Parts(seen[g], active[g], - active[g])

TooMany(g) == /\ cmd.op \in {"Election.revoke", "ReleaseGold.revoke"}
              /\ cmd.value > seen[g] + active[g]

\* findAddressIndex: counts from 0, -1 when the group is not in the list.
IndexOf(g) == IF g \in Members(votedFor)
              THEN (CHOOSE i \in DOMAIN votedFor : votedFor[i] = g) - 1
              ELSE -1

Start(c) ==
  LET groups == IF c.op = "ReleaseGold.revokeAllVotesForAllGroups"
                THEN votedFor ELSE <<c.group>>
  IN /\ pc # "running" /\ runs < MaxRuns
     /\ runs' = runs + 1
     /\ pc' = "running"
     /\ cmd' = c
     /\ before' = [g \in Groups |-> Mine(g)]
     /\ order' = groups
     /\ unread' = Members(groups)
     /\ halfRead' = {} /\ seen' = [g \in Groups |-> 0]
     /\ owed' = Nothing /\ built' = Nothing
     /\ UNCHANGED <<chain, noise>>

\* getVotesForGroupByAccount reads the pending votes, then the active ones.  All
\* groups of a command are read, and their transactions built, side by side.
ReadPending(g) ==
  /\ pc = "running" /\ g \in unread \ halfRead
  /\ halfRead' = halfRead \cup {g}
  /\ seen' = [seen EXCEPT ![g] = pending[g]]
  /\ UNCHANGED <<chain, noise, runs, pc, cmd, before, order, unread, owed, built>>

\* What is to be revoked is known with the second read.
ReadActive(g) ==
  /\ pc = "running" /\ g \in halfRead
  /\ IF TooMany(g) THEN pc' = "failed" /\ UNCHANGED <<reading, owed>>
     ELSE /\ unread' = unread \ {g} /\ halfRead' = halfRead \ {g}
          /\ seen' = [seen EXCEPT ![g] = 0]
          /\ owed' = [owed EXCEPT ![g] = PartsOf(g)]
          /\ UNCHANGED pc
  /\ UNCHANGED <<chain, noise, runs, cmd, before, order, built>>

\* revokePending or revokeActive of a wrapper.
Build(g) ==
  /\ pc = "running" /\ owed[g] # <<>>
  /\ LET part == Head(owed[g])
         t == [kind |-> part.kind, group |-> g, value |-> part.value,
               index |-> IndexOf(g),
               hint |-> LesserAndGreater(list, Votes, g, part.weight)]
     IN built' = [built EXCEPT ![g] = Append(@, t)]
  /\ owed' = [owed EXCEPT ![g] = Tail(@)]
  /\ UNCHANGED <<chain, noise, runs, pc, cmd, before, order, reading>>

AllBuilt == unread = {} /\ owed = Nothing
Unsent == {i \in DOMAIN order : built[order[i]] # <<>>}

\* displaySendTx, for one transaction after the other: throws if it reverts.
Send ==
  /\ pc = "running" /\ AllBuilt /\ Unsent # {}
  /\ LET g == order[First(Unsent)]
         t == Head(built[g])
     IN /\ built' = [built EXCEPT ![g] = Tail(@)]
        /\ \/ Valid(t) /\ Revoke(t) /\ UNCHANGED pc
           \/ ~Valid(t) /\ pc' = "failed" /\ UNCHANGED chain
  /\ UNCHANGED <<noise, runs, cmd, before, order, reading, owed>>

Finish ==
  /\ pc = "running" /\ AllBuilt /\ Unsent = {}
  /\ pc' = "done"
  /\ UNCHANGED <<chain, noise, runs, cmd, before, order, reading, owed, built>>

\* The command line tool exits.
Exit == pc \in {"done", "failed"} /\ runs = MaxRuns /\ UNCHANGED vars

Orders == {s \in UNION {[1 .. n -> Groups] : n \in 0 .. Cardinality(Groups)} :
             \A i, j \in DOMAIN s : s[i] = s[j] => i = j}

Init ==
  /\ pending \in [Groups -> 0 .. MaxVotes]
  /\ active \in [Groups -> 0 .. MaxVotes]
  /\ others \in [Groups -> 0 .. MaxVotes]
  /\ FoldFunction(LAMBDA n, sum : n + sum, 0, Votes) <= MaxTotal
  /\ list \in Orders /\ Sorted(list, Votes)
  /\ votedFor \in Orders /\ Members(votedFor) = {g \in Groups : Mine(g) > 0}
  /\ noise = 0 /\ runs = 0
  /\ pc = "idle"
  /\ cmd = [op |-> "none", group |-> Nobody, value |-> 0]
  /\ before = [g \in Groups |-> Mine(g)]
  /\ order = <<>> /\ unread = {}
  /\ halfRead = {} /\ seen = [g \in Groups |-> 0]
  /\ owed = Nothing /\ built = Nothing

Next == \/ \E c \in Commands : Start(c)
        \/ \E g \in Groups : ReadPending(g) \/ ReadActive(g) \/ Build(g)
        \/ Send \/ Finish \/ Noise \/ Exit

Spec == Init /\ [][Next]_vars

-----------------------------------------------------------------------------
(* Properties.                                                             *)

Txo == [kind : {"pending", "active"}, group : Groups, value : 1 .. 2 * MaxVotes,
        index : 0 .. Cardinality(Groups) - 1,
        hint : [lesser : Groups \cup {Nobody}, greater : Groups \cup {Nobody}]]

\* The state of the program, and what the contract keeps of the chain: the list
\* is sorted, votedFor holds the groups the account has votes for, each once.
TypeOK ==
  /\ pending \in [Groups -> 0 .. 2 * MaxVotes]
  /\ active \in [Groups -> 0 .. 2 * MaxVotes]
  /\ others \in [Groups -> 0 .. MaxVotes]
  /\ list \in Orders /\ Sorted(list, Votes)
  /\ votedFor \in Orders /\ Members(votedFor) = {g \in Groups : Mine(g) > 0}
  /\ noise \in 0 .. MaxNoise /\ runs \in 0 .. MaxRuns
  /\ pc \in {"idle", "running", "done", "failed"}
  /\ order \in Orders /\ unread \subseteq Members(order) /\ halfRead \subseteq unread
  /\ seen \in [Groups -> 0 .. MaxVotes]
  /\ \A g \in Groups : Len(owed[g]) + Len(built[g]) <= 2
  /\ \A g \in Groups : \A i \in DOMAIN built[g] : built[g][i] \in Txo

Revoked(g) == before[g] - Mine(g)
HasValue == cmd.op \in {"Election.revoke", "ReleaseGold.revoke"}

\* A command with a value revokes no more than that value, of its group only,
\* and exactly that much when it ends well; a command for all votes of a group,
\* or of all groups, leaves none when it ends well, whatever others do meanwhile.
RevokesExactly ==
  pc # "idle" =>
    /\ HasValue => \A g \in Groups :
         /\ Revoked(g) \in 0 .. IF g = cmd.group THEN cmd.value ELSE 0
         /\ pc = "done" /\ g = cmd.group => Revoked(g) = cmd.value
    /\ ~HasValue => \A g \in Groups :
         /\ Revoked(g) > 0 => g \in Members(order)
         /\ pc = "done" /\ g \in Members(order) => Mine(g) = 0

\* Election.revoke, when the account has the votes and nobody else moves: the
\* second transaction was built before the first one was sent, and still fits.
ElectionRevokeSucceeds ==
  cmd.op = "Election.revoke" /\ noise = 0 /\ pc = "failed"
    => cmd.value > before[cmd.group]

\* Hints that findLesserAndGreaterAfterVote computes are good for the contract
\* as long as the list has not changed.
FreshHintsAccepted ==
  \A g \in Members(list) : \A weight \in (- Votes[g]) .. MaxVotes :
    Accepts(list, Votes, g, Votes[g] + weight,
            LesserAndGreater(list, Votes, g, weight))

\* VIOLATED.  revoke-votes.ts:38 "Revoke all votes from all groups": it does not
\* when an emptied group leaves the list that later indexes count in.  Stated
\* for groups of which none is eligible, where no hint can be to blame.
AllGroupsRevoked ==
  ~ /\ cmd.op = "ReleaseGold.revokeAllVotesForAllGroups"
    /\ noise = 0 /\ list = <<>>
    /\ pc = "failed"
=============================================================================
