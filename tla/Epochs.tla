------------------------------- MODULE Epochs -------------------------------
(***************************************************************************)
(* Epochs are ended by whoever runs celocli epochs:start, :finish, :switch *)
(* or :process-groups; EpochManagerWrapper works out which groups are left *)
(* and between which neighbours each belongs.  Meanwhile a voter votes     *)
(* (election:vote) and activates (election:activate, with or without       *)
(* --wait).  EpochManager and Election, the contracts, are external.       *)
(***************************************************************************)
EXTENDS SortedVotes
CONSTANTS
  Operators, Voter,
  CommandOf, \* the command that each operator runs
  Casts,     \* who takes part in a behaviour
  Groups,
  Elected,   \* the groups of the elected accounts, one entry per account
  Chains,    \* the lists, votes and rewards to begin with
  MaxEpoch, MaxVotes, MaxLeaves   \* bounds of the environment

Commands == {"start", "finish", "switch", "process-groups"}
States == [ok: BOOLEAN, list: Seq(Groups), votes: [Groups -> Nat],
           reward: [Groups -> Nat]]

ASSUME EpochsAssumption ==
  /\ CommandOf \in [Operators -> Commands]
  /\ Casts \subseteq SUBSET (Operators \cup {Voter})
  /\ Elected \in Seq(Groups) /\ Nobody \notin Groups
  /\ MaxEpoch \in Nat \ {0} /\ MaxVotes \in Nat /\ MaxLeaves \in Nat
  /\ \A c \in Chains :
       /\ c \in States /\ c.ok /\ Sorted(c.list, c.votes)
       /\ \A i, j \in DOMAIN c.list : c.list[i] = c.list[j] => i = j
       /\ Members(Elected) \subseteq Members(c.list)

VARIABLES
  cast,        \* who takes part
  chain,       \* external: list, votes, reward of each group
  epoch,       \* external: getCurrentEpochNumber
  due,         \* external: isTimeForNextEpoch
  status,      \* external: "none", "started" or "individual"
  toProcess,   \* external: elected groups that got no rewards yet
  processed,   \* external: groups of the GroupProcessed events of this
               \*   epoch, those of its first block and later ones
  affiliated,  \* external: elected accounts that still belong to a group
  run,         \* the command of each operator
  cut,         \* a command was cut off
  pending,     \* external: the epoch of the voter's pending votes, 0 if none
  active,      \* external: groups for which the voter has active votes
  ballot,      \* the voter's election:vote
  activation   \* the voter's election:activate

process == <<epoch, due, status, toProcess, processed>>
voter == <<pending, active, ballot, activation>>
vars == <<cast, chain, process, affiliated, run, cut, voter>>

Idle == [pc |-> "idle", since |-> 0, groups |-> <<>>, hints |-> <<>>]
NoBallot == [pc |-> "idle", group |-> Nobody,
             hint |-> [lesser |-> Nobody, greater |-> Nobody]]
NoActivation == [pc |-> "idle", wait |-> FALSE, since |-> 0, groups |-> {},
                 asked |-> {}]

Init ==
  /\ cast \in Casts /\ chain \in Chains
  /\ epoch = 1 /\ due = FALSE /\ status = "none" /\ toProcess = {}
  /\ processed = [first |-> {}, later |-> {}]
  /\ affiliated = DOMAIN Elected
  /\ run = [o \in Operators |-> Idle] /\ cut = FALSE
  /\ pending = [g \in Groups |-> 0]
  /\ active = {}
  /\ ballot = NoBallot /\ activation = NoActivation

-----------------------------------------------------------------------------
(* EpochManagerWrapper, on what it reads.                                  *)

\* Each elected group once, without those of the given events.
ElectedWithout(events) ==
  Subsequence(Elected,
              {i \in DOMAIN Elected :
                 /\ \A j \in 1 .. i - 1 : Elected[j] # Elected[i]
                 /\ Elected[i] \notin events})

\* The events behind the first block of an epoch.  An epoch ends when the last of
\* its groups is processed: since an earlier one there are events of all of them.
EventsSince(since) == IF since = epoch THEN processed.later ELSE Members(Elected)

\* MUTANT of GroupsToProcess: events from the first block of the epoch on.
GroupsFromFirstBlock(since) == ElectedWithout(processed.first \cup EventsSince(since))

\* getEpochGroupsAndSorting: the groups that are still to be processed, when the
\* number of the current epoch was read as this.
GroupsToProcess(since) == ElectedWithout(EventsSince(since))

\* Array.sort keeps the order of equals.
Ranked(votes) ==
  [rows \in Seq(Groups) |->
     LET rank(i) == Cardinality({j \in DOMAIN rows :
                       \/ votes[rows[j]] > votes[rows[i]]
                       \/ votes[rows[j]] = votes[rows[i]] /\ j <= i})
     IN [n \in DOMAIN rows |-> rows[CHOOSE i \in DOMAIN rows : rank(i) = n]]]

\* The eligible groups, and those of groups that are not eligible behind them.
Rows(list, groups) ==
  list \o Subsequence(groups, {i \in DOMAIN groups :
                                 groups[i] \notin Members(list)})

\* MUTANT of LessersAndGreaters: the neighbours are exchanged.
LessersAndGreatersSwapped(list, votes, groups) ==
  LET rows == Ranked(votes)[Rows(list, groups)]
      at(n) == PlaceOf(rows, groups[n])
  IN [n \in DOMAIN groups |->
        [greater |-> IF at(n) = Len(rows) THEN Nobody ELSE rows[at(n) + 1],
         lesser |-> IF at(n) = 1 THEN Nobody ELSE rows[at(n) - 1]]]

\* getLessersAndGreaters.  The rewards that it reads come to nothing, because
\* the sum that votes.plus returns is dropped.
LessersAndGreaters(list, votes, groups) ==
  LET rows == Ranked(votes)[Rows(list, groups)]
      at(n) == PlaceOf(rows, groups[n])
  IN [n \in DOMAIN groups |->
        [lesser |-> IF at(n) = Len(rows) THEN Nobody ELSE rows[at(n) + 1],
         greater |-> IF at(n) = 1 THEN Nobody ELSE rows[at(n) - 1]]]

-----------------------------------------------------------------------------
(* The contracts.                                                          *)

\* Put a group where its new total belongs; hints that do not fit revert.
Move(c, group, total, hint) ==
  [c EXCEPT
     !.votes[group] = total,
     !.list = PutAt(Rest(c.list, group), group,
                    CHOOSE p \in Places(Rest(c.list, group), c.votes, total, hint)
                      : TRUE)]

\* distributeEpochRewards to a group; without rewards it is not called.
PayGroup(g, hint) ==
  [c \in States |->
     LET total == c.votes[g] + c.reward[g] IN
     CASE ~c.ok -> c
       [] c.ok /\ (c.reward[g] = 0 \/ g \notin Members(c.list)) ->
            [c EXCEPT !.votes[g] = total]
       [] OTHER -> IF Accepts(c.list, c.votes, g, total, hint)
                   THEN Move(c, g, total, hint) ELSE [c EXCEPT !.ok = FALSE]]

\* The groups are paid in their order.
Pay(groups, hints) ==
  LET paid[n \in 0 .. Len(groups)] ==
        IF n = 0 THEN chain ELSE PayGroup(groups[n], hints[n])[paid[n - 1]]
  IN paid[Len(groups)]

\* The last groups to be processed end the epoch, in its first block.
EpochEnds(groups) ==
  /\ epoch' = epoch + 1 /\ due' = FALSE /\ status' = "none" /\ toProcess' = {}
  /\ processed' = [first |-> Members(groups), later |-> {}]

FinishAccepted(groups, hints) ==
  /\ status = "started" /\ Members(groups) = toProcess
  /\ Pay(groups, hints).ok

ProcessAccepted(groups, hints) ==
  /\ status = "individual" /\ Members(groups) \subseteq toProcess
  /\ Pay(groups, hints).ok

\* What an accepted finishNextEpochProcess or processGroups does.
Process(groups, hints) ==
  /\ chain' = Pay(groups, hints)
  /\ IF toProcess = Members(groups) THEN EpochEnds(groups)
     ELSE /\ toProcess' = toProcess \ Members(groups)
          /\ processed' = [processed EXCEPT !.later = @ \cup Members(groups)]
          /\ UNCHANGED <<epoch, due, status>>

-----------------------------------------------------------------------------
(* celocli epochs.                                                         *)

Goto(o, pc) == run' = [run EXCEPT ![o].pc = pc]
End(o) == run' = [run EXCEPT ![o] = Idle]
Reads == UNCHANGED <<cast, chain, process, affiliated, cut, voter>>

Begin(o) ==
  /\ o \in cast /\ run[o].pc = "idle"
  /\ Goto(o, CASE CommandOf[o] \in {"start", "switch"} -> "time"
               [] CommandOf[o] = "finish" -> "status"
               [] OTHER -> "processing")
  /\ Reads

\* isTimeForNextEpoch.
ReadTime(o) ==
  /\ run[o].pc = "time"
  /\ IF due THEN Goto(o, "status") ELSE End(o)
  /\ Reads

\* isOnEpochProcess; it is false while groups are processed individually.
ReadStatus(o) ==
  /\ run[o].pc = "status"
  /\ CASE CommandOf[o] = "start"  -> IF status = "started" THEN End(o)
                                   ELSE Goto(o, "elected")
       [] CommandOf[o] = "finish" -> IF status = "started" THEN Goto(o, "groups")
                                   ELSE End(o)
       [] OTHER                 -> IF status = "started" THEN Goto(o, "groups")
                                   ELSE Goto(o, "elected")
  /\ Reads

\* startNextEpochProcessTx: an elected account without group aborts.
CheckElected(o) ==
  /\ run[o].pc = "elected"
  /\ IF affiliated = DOMAIN Elected THEN Goto(o, "again") ELSE End(o)
  /\ Reads

\* Time has passed since the first look.
ReadStatusAgain(o) ==
  /\ run[o].pc = "again"
  /\ IF status = "started" THEN End(o) ELSE Goto(o, "start")
  /\ Reads

\* epochs:switch goes on to finish, after a delay; a revert ends both.
SendStart(o) ==
  /\ run[o].pc = "start"
  /\ IF status = "none" /\ due
     THEN /\ status' = "started" /\ toProcess' = Members(Elected)
          /\ IF CommandOf[o] = "switch" THEN Goto(o, "groups") ELSE End(o)
     ELSE End(o) /\ UNCHANGED <<status, toProcess>>
  /\ UNCHANGED <<cast, chain, epoch, due, processed, affiliated, cut, voter>>

\* isEpochProcessingStarted.
ReadProcessing(o) ==
  /\ run[o].pc = "processing"
  /\ IF status # "none" THEN Goto(o, "individual") ELSE End(o)
  /\ Reads

\* MUTANT of ReadIndividual: does not look.
AlwaysSetToProcess(o) == run[o].pc = "individual" /\ Goto(o, "set") /\ Reads

\* isIndividualProcessing.
ReadIndividual(o) ==
  /\ run[o].pc = "individual"
  /\ Goto(o, IF status = "individual" THEN "groups" ELSE "set")
  /\ Reads

SetToProcessGroups(o) ==
  /\ run[o].pc = "set"
  /\ IF status = "started" THEN status' = "individual" /\ Goto(o, "groups")
     ELSE End(o) /\ UNCHANGED status
  /\ UNCHANGED <<cast, chain, epoch, due, toProcess, processed, affiliated, cut,
                 voter>>

\* The elected accounts and their memberships in the last epoch, which stay the
\* same here, and the current epoch with its first block.
ReadCurrentEpoch(o) ==
  /\ run[o].pc = "groups"
  /\ run' = [run EXCEPT ![o].pc = "events", ![o].since = epoch]
  /\ Reads

\* The events since then; others may have processed groups in between.
ReadGroups(o) ==
  /\ run[o].pc = "events"
  /\ run' = [run EXCEPT ![o].pc = "hints",
                         ![o].groups = GroupsToProcess(run[o].since)]
  /\ Reads

\* Rewards and votes.
ReadNeighbours(o) ==
  /\ run[o].pc = "hints"
  /\ run' = [run EXCEPT ![o].pc = "send",
               ![o].hints = LessersAndGreaters(chain.list, chain.votes,
                                               run[o].groups)]
  /\ Reads

SendGroups(o) ==
  LET groups == run[o].groups
      hints  == run[o].hints
  IN
  /\ run[o].pc = "send"
  /\ IF IF CommandOf[o] = "process-groups" THEN ProcessAccepted(groups, hints)
                                         ELSE FinishAccepted(groups, hints)
     THEN Process(groups, hints) ELSE UNCHANGED <<chain, process>>
  /\ End(o)
  /\ UNCHANGED <<cast, affiliated, cut, voter>>

\* Ctrl-C or a lost connection ends a command anywhere; once in a behaviour.
Cut(o) ==
  /\ ~cut /\ run[o].pc # "idle"
  /\ cut' = TRUE /\ End(o)
  /\ UNCHANGED <<cast, chain, process, affiliated, voter>>

-----------------------------------------------------------------------------
(* celocli election:vote and election:activate.                            *)

VoterReads == UNCHANGED <<cast, chain, process, affiliated, run, cut, pending,
                          active>>

\* vote of core/staking: the list is read and the hints computed from it.
ReadVotes(g) ==
  /\ Voter \in cast /\ ballot.pc = "idle" /\ g \in Members(chain.list)
  /\ Cardinality({x \in Groups : pending[x] > 0}) < MaxVotes
  /\ ballot' = [pc |-> "send", group |-> g,
                hint |-> LesserAndGreater(chain.list, chain.votes, g, 1)]
  /\ VoterReads /\ UNCHANGED activation

\* Votes are pending from the epoch in which the last of them was cast.
SendVote ==
  LET g == ballot.group
      total == chain.votes[g] + 1
  IN
  /\ ballot.pc = "send"
  /\ ballot' = NoBallot
  /\ IF g \in Members(chain.list)
        /\ Accepts(chain.list, chain.votes, g, total, ballot.hint)
     THEN /\ chain' = Move(chain, g, total, ballot.hint)
          /\ pending' = [pending EXCEPT ![g] = epoch]
     ELSE UNCHANGED <<chain, pending>>
  /\ UNCHANGED <<cast, process, affiliated, run, cut, active, activation>>

\* getGroupsVotedForByAccount.
VotedFor == active \cup {g \in Groups : pending[g] > 0}

\* getGroupsWithPendingVotes: it keeps every group voted for, since no number
\* of pending votes is less than 0.
GroupsWithPendingVotes == VotedFor

Activatable(g) == pending[g] > 0 /\ pending[g] < epoch

BeginActivate(wait) ==
  /\ Voter \in cast /\ activation.pc \in {"idle", "done", "failed"}
  /\ activation' =
       [NoActivation EXCEPT
          !.pc = IF GroupsWithPendingVotes = {} THEN "idle"
                 ELSE IF wait THEN "epoch" ELSE "groups",
          !.wait = wait,
          !.asked = {g \in Groups : pending[g] > 0}]
  /\ VoterReads /\ UNCHANGED ballot

\* getCurrentEpochNumber and the end of that epoch.
ReadEpoch ==
  /\ activation.pc = "epoch"
  /\ activation' = [activation EXCEPT !.pc = "sleep", !.since = epoch]
  /\ VoterReads /\ UNCHANGED ballot

\* The epoch that was read may end.
WakeUp ==
  /\ activation.pc = "sleep"
  /\ due \/ epoch # activation.since
  /\ activation' = [activation EXCEPT !.pc = "poll"]
  /\ VoterReads /\ UNCHANGED ballot

\* MUTANT of Poll: an epoch is taken to have ended when it may end.
PollNot ==
  /\ activation.pc = "poll"
  /\ activation' = [activation EXCEPT !.pc = "groups"]
  /\ VoterReads /\ UNCHANGED ballot

\* It ends when somebody ends it: once a second the number is read.
Poll ==
  /\ activation.pc = "poll" /\ epoch # activation.since
  /\ activation' = [activation EXCEPT !.pc = "groups"]
  /\ VoterReads /\ UNCHANGED ballot

ReadPending ==
  /\ activation.pc = "groups"
  /\ activation' = [activation EXCEPT !.pc = "filter",
                                      !.groups = GroupsWithPendingVotes]
  /\ VoterReads /\ UNCHANGED ballot

ReadActivatable ==
  LET groups == {g \in activation.groups : Activatable(g)} IN
  /\ activation.pc = "filter"
  /\ activation' = [activation EXCEPT
                      !.pc = IF groups = {} THEN "done" ELSE "send",
                      !.groups = groups]
  /\ VoterReads /\ UNCHANGED ballot

\* simulate, then write; a simulation that fails ends the command, and the
\* hashes of what was sent before are not shown.
Activate(g) ==
  /\ activation.pc = "send" /\ g \in activation.groups
  /\ IF Activatable(g)
     THEN /\ activation' = [activation EXCEPT
                              !.pc = IF activation.groups = {g} THEN "done" ELSE @,
                              !.groups = @ \ {g}]
          /\ pending' = [pending EXCEPT ![g] = 0] /\ active' = active \cup {g}
     ELSE /\ activation' = [activation EXCEPT !.pc = "failed"]
          /\ UNCHANGED <<pending, active>>
  /\ UNCHANGED <<cast, chain, process, affiliated, run, cut, ballot>>

-----------------------------------------------------------------------------
(* The environment.                                                        *)

\* The duration of the epoch is over.
Tick ==
  /\ ~due /\ epoch < MaxEpoch
  /\ due' = TRUE
  /\ UNCHANGED <<cast, chain, epoch, status, toProcess, processed, affiliated,
                 run, cut, voter>>

\* An elected account leaves its group; a group without any is not eligible.
Leave(i) ==
  LET g == Elected[i] IN
  /\ i \in affiliated /\ Cardinality(DOMAIN Elected \ affiliated) < MaxLeaves
  /\ affiliated' = affiliated \ {i}
  /\ chain' = IF \A j \in affiliated \ {i} : Elected[j] # g
              THEN [chain EXCEPT !.list = Rest(@, g)] ELSE chain
  /\ UNCHANGED <<cast, process, run, cut, voter>>

\* Somebody else processes one group of those that are left.
OtherProcesses(g) ==
  /\ status = "individual" /\ g \in toProcess
  /\ \E l, h \in Groups \cup {Nobody} :
       LET hints == <<[lesser |-> l, greater |-> h]>> IN
       ProcessAccepted(<<g>>, hints) /\ Process(<<g>>, hints)
  /\ UNCHANGED <<cast, affiliated, run, cut, voter>>

\* Somebody else activates for the voter.
OtherActivates(g) ==
  /\ Voter \in cast /\ Activatable(g)
  /\ pending' = [pending EXCEPT ![g] = 0] /\ active' = active \cup {g}
  /\ UNCHANGED <<cast, chain, process, affiliated, run, cut, ballot, activation>>

Command(o) ==
  \/ ReadTime(o) \/ ReadStatus(o) \/ CheckElected(o) \/ ReadStatusAgain(o)
  \/ SendStart(o) \/ ReadProcessing(o) \/ ReadIndividual(o)
  \/ SetToProcessGroups(o) \/ ReadCurrentEpoch(o) \/ ReadGroups(o)
  \/ ReadNeighbours(o) \/ SendGroups(o)

Vote == SendVote \/ \E g \in Groups : ReadVotes(g)

ActivateCommand ==
  \/ \E wait \in BOOLEAN : BeginActivate(wait)
  \/ ReadEpoch \/ WakeUp \/ Poll \/ ReadPending \/ ReadActivatable
  \/ \E g \in Groups : Activate(g)

Next ==
  \/ \E o \in Operators : Begin(o) \/ Command(o) \/ Cut(o)
  \/ Vote \/ ActivateCommand
  \/ Tick \/ \E i \in DOMAIN Elected : Leave(i)
  \/ \E g \in Groups : OtherProcesses(g) \/ OtherActivates(g)

Spec == Init /\ [][Next]_vars

\* A command that runs goes on, and an operator repeats his command.
FairSpec == Spec /\ \A o \in Operators : WF_vars(Begin(o) \/ Command(o))

-----------------------------------------------------------------------------
(* Properties.                                                             *)

TypeOK ==
  /\ cast \in Casts /\ epoch \in 1 .. MaxEpoch /\ due \in BOOLEAN
  /\ status \in {"none", "started", "individual"}
  /\ toProcess \subseteq Members(Elected)
  /\ processed \in [first: SUBSET Groups, later: SUBSET Groups]
  /\ affiliated \subseteq DOMAIN Elected /\ cut \in BOOLEAN
  /\ pending \in [Groups -> 0 .. epoch] /\ active \subseteq Groups
  /\ Members(chain.list) \subseteq Groups /\ Sorted(chain.list, chain.votes)

(* The groups that the wrapper works out from the elected accounts and the *)
(* events are those that the contract still wants, each once: the groups   *)
(* of the last epoch, whose events are in the first block of this one, and *)
(* those that somebody else has processed are told apart.                  *)
RemainingExact ==
  status # "none" => /\ Members(GroupsToProcess(epoch)) = toProcess
                     /\ Len(GroupsToProcess(epoch)) = Cardinality(toProcess)

\* All groups that are left are eligible, and no reward on the way to the
\* last one makes a group overtake another one.
OrderKept ==
  LET groups == GroupsToProcess(epoch)
      after(n, g) == IF \E i \in 1 .. n : groups[i] = g
                     THEN chain.votes[g] + chain.reward[g] ELSE chain.votes[g]
  IN /\ toProcess \subseteq Members(chain.list)
     /\ \A n \in DOMAIN groups : \A i \in 1 .. Len(chain.list) - 1 :
          after(n, chain.list[i]) >= after(n, chain.list[i + 1])

FreshGroupsPaid ==
  LET groups == GroupsToProcess(epoch)
  IN Pay(groups, LessersAndGreaters(chain.list, chain.votes, groups)).ok

(* If the order of the groups stays the same, the neighbours of all groups *)
(* fit one after the other, each in the list that the rewards before it    *)
(* have left, ties included.                                               *)
PaysWhenOrderKept == status # "none" /\ OrderKept => FreshGroupsPaid

(* VIOLATED: EpochManager.ts:161 adds the rewards before it sorts, and     *)
(* EpochManager.test.ts:107 says that the epoch is finished also when a    *)
(* group is not eligible any more.  The sum is dropped, and a group that   *)
(* is not eligible is offered as a neighbour: even what was just computed  *)
(* is reverted.                                                            *)
FreshFinishAccepted == status # "none" => FreshGroupsPaid

(* A started epoch ends by the commands alone, however they interleave,    *)
(* and although one of them is cut off between its two transactions:       *)
(* switch finishes what was started, process-groups what was set to        *)
(* individual processing, unless the rewards change the order.             *)
StartedEpochEnds == status # "none" ~> status = "none" \/ ~OrderKept

(* When election:activate --wait has ended well, nothing is pending that   *)
(* was pending when it began, unless the voter has voted again in a later  *)
(* epoch: it waits for the end of the epoch, not for the time at which it  *)
(* may end.                                                                *)
ActivatesAfterWait ==
  activation.pc = "done" /\ activation.wait =>
    \A g \in activation.asked : pending[g] = 0 \/ pending[g] > activation.since

(* VIOLATED: activate.ts:27, "Wait until all pending votes can be          *)
(* activated", and activate.ts:100, "No pending votes to activate".  With  *)
(* active votes only it waits for the next epoch.                          *)
WaitsForPending ==
  activation.pc \in {"epoch", "sleep", "poll"} => activation.asked # {}
=============================================================================
