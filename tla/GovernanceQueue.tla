-------------------------- MODULE GovernanceQueue --------------------------
(***************************************************************************)
(* Upvoting queued proposals: governance:upvote, :revokeupvote and         *)
(* :dequeue of the CLI and the functions of contractkit's Governance       *)
(* wrapper that compute where the upvoted proposal goes in the queue, in   *)
(* front of the external Governance contract.                              *)
(*                                                                         *)
(* One account runs commands, a step for each read and each transaction;   *)
(* time passes, and others propose, upvote and dequeue, at any moment.     *)
(***************************************************************************)
EXTENDS SortedVotes
CONSTANTS Proposals,   \* proposals that may be made; Nobody is id 0
          Beginnings,  \* external: queues, upvotes, and what expired or was dequeued
          Ops,         \* the commands that are run
          Concurrent,  \* external: concurrentProposals
          MaxUpvotes,  \* bound on the upvotes of a proposal
          MaxNoise,    \* bound on the steps of others and of time
          MaxRuns      \* bound on the commands run in a row

ASSUME GovernanceAssumption ==
  /\ Nobody \notin Proposals /\ IsFiniteSet(Proposals)
  /\ Ops \subseteq {"upvote", "revokeupvote", "dequeue"}
  /\ Concurrent \in Nat \ {0}
  /\ {MaxUpvotes, MaxNoise, MaxRuns} \subseteq Nat
  /\ \A b \in Beginnings :
       /\ b.queue \in Seq(Proposals) /\ b.upvotes \in [Proposals -> Nat]
       /\ \A i, j \in DOMAIN b.queue : b.queue[i] = b.queue[j] => i = j
       /\ Sorted(b.queue, b.upvotes)
       /\ b.expired \subseteq Members(b.queue)
       /\ b.dequeued \subseteq Proposals \ Members(b.queue)
       /\ \A p \in Proposals \ (Members(b.queue) \cup b.dequeued) : b.upvotes[p] = 0

VARIABLES
  queue,       \* external: the queued proposals, most upvotes first
  upvotes,     \* external: the upvotes of each proposal
  expired,     \* external: the proposals that were queued for too long
  dequeued,    \* external: the proposals in the dequeued list
  ready,       \* external: dequeueFrequency has passed since lastDequeue
  record,      \* external: the account's upvote record
  weight,      \* external: its locked gold
  noise,       \* steps of others and of time so far
  runs,        \* commands so far
  pc,          \* where the command is
  cmd,         \* the command, its proposal, and ready when it began
  read,        \* the queue that dequeueAllPossibleProposals read
  considered,  \* consideredProposals
  revoking,    \* recordQueued
  hint         \* the neighbours of the transaction to send

contract == <<queue, upvotes, expired, dequeued, ready, record, weight>>
queueVars == <<contract, noise, runs, pc, cmd, read, considered, revoking, hint>>

NoRecord == [id |-> Nobody, weight |-> 0]
NoHint == [lesser |-> Nobody, greater |-> Nobody]
Ended == {"idle", "done", "dequeued", "refused", "failed"}
Queued(p) == p \in Members(queue)
Added(votes, p, n) == [votes EXCEPT ![p] = @ + n]
FirstOf(list) == SubSeq(list, 1, IF Len(list) < Concurrent THEN Len(list) ELSE Concurrent)
Without(list, S) == Subsequence(list, {i \in DOMAIN list : list[i] \notin S})

-----------------------------------------------------------------------------
(* External: the Governance contract.                                      *)

Popped == IF ready THEN FirstOf(queue) ELSE <<>>
Unpopped == Without(queue, Members(Popped))
NewlyDequeued == Members(Popped) \ expired

\* dequeueProposalsIfReady, the first thing that upvote and revokeUpvote do:
\* the clock restarts only when a proposal that had not expired is dequeued.
Dequeue ==
  /\ dequeued' = dequeued \cup NewlyDequeued
  /\ ready' = (ready /\ NewlyDequeued = {})

\* The queue that upvote or revokeUpvote of a proposal acts upon.
Remaining(S) == Without(Unpopped, S \cap expired)

\* A proposal moves to the place its hints name once it has total upvotes.
Update(list, p, total) ==
  LET rest == Rest(list, p) IN
  /\ upvotes' = [upvotes EXCEPT ![p] = total]
  /\ \E place \in Places(rest, upvotes, total, hint) : queue' = PutAt(rest, p, place)

\* An expired proposal is removed, and its upvote does nothing.
UpvoteExpired(id) == id \in Members(Unpopped) \cap expired

MayUpvote(id) ==
  LET list == Remaining({record.id}) IN
  /\ id \in Members(list)
  /\ weight > 0 /\ record.id \notin Members(list)
  /\ Accepts(list, upvotes, id, upvotes[id] + weight, hint)

ContractUpvote(id) ==
  /\ \/ /\ UpvoteExpired(id) /\ queue' = Remaining({id})
        /\ UNCHANGED <<upvotes, record>>
     \/ /\ ~UpvoteExpired(id)
        /\ Update(Remaining({record.id}), id, upvotes[id] + weight)
        /\ record' = [id |-> id, weight |-> weight]
  /\ Dequeue /\ UNCHANGED <<expired, weight>>

Counted == record.id \in Members(Remaining({record.id}))

MayRevoke ==
  /\ record.id # Nobody
  /\ Counted => Accepts(Remaining({record.id}), upvotes, record.id,
                        upvotes[record.id] - record.weight, hint)

ContractRevoke ==
  LET list == Remaining({record.id}) IN
  /\ \/ Counted /\ Update(list, record.id, upvotes[record.id] - record.weight)
     \/ ~Counted /\ queue' = list /\ UNCHANGED upvotes
  /\ record' = NoRecord
  /\ Dequeue /\ UNCHANGED <<expired, weight>>

ContractDequeue == /\ queue' = Unpopped /\ Dequeue
                   /\ UNCHANGED <<upvotes, expired, record, weight>>

Known(p) == Queued(p) \/ p \in dequeued \cup expired

Propose(p) == /\ ~Known(p) /\ queue' = Append(queue, p)
              /\ UNCHANGED <<upvotes, expired, dequeued, ready, record, weight>>

OthersUpvote(p, n) ==
  LET rest == Rest(queue, p) IN
  /\ Queued(p) /\ upvotes[p] + n \in 0 .. MaxUpvotes
  /\ record.id = p => upvotes[p] + n >= record.weight
  /\ upvotes' = Added(upvotes, p, n)
  /\ \E place \in 0 .. Len(rest) :
       /\ Fits(rest, upvotes, upvotes[p] + n, place)
       /\ queue' = PutAt(rest, p, place)
  /\ UNCHANGED <<expired, dequeued, ready, record, weight>>

TimePasses ==
  /\ \/ ~ready /\ ready' = TRUE /\ UNCHANGED expired
     \/ /\ \E p \in Members(queue) \ expired : expired' = expired \cup {p}
        /\ UNCHANGED ready
  /\ UNCHANGED <<queue, upvotes, dequeued, record, weight>>

Noise ==
  /\ noise < MaxNoise /\ noise' = noise + 1
  /\ \/ \E p \in Proposals :
          Propose(p) \/ (\E n \in {1, -1} : OthersUpvote(p, n))
     \/ ContractDequeue \/ TimePasses
  /\ UNCHANGED <<runs, pc, cmd, read, considered, revoking, hint>>

-----------------------------------------------------------------------------
(* The hints of the wrapper.                                               *)

\* sortedQueue: the queue from fewest to most upvotes, ties as they were.
SortedQueue(list, votes) ==
  LET rank(i) == Cardinality({j \in DOMAIN list :
                    \/ votes[list[j]] < votes[list[i]]
                    \/ votes[list[j]] = votes[list[i]] /\ j <= i})
  IN [n \in DOMAIN list |-> list[CHOOSE i \in DOMAIN list : rank(i) = n]]

LesserAndGreaterOf(list, p) ==
  LET i == PlaceOf(list, p) IN
  [lesser  |-> IF i = 1 THEN Nobody ELSE list[i - 1],
   greater |-> IF i = Len(list) THEN Nobody ELSE list[i + 1]]

\* withUpvoteRevoked, withUpvoteApplied
VotesRevoked == Added(upvotes, record.id, - record.weight)

\* MUTANT of AfterUpvote: not sorted again.
AfterUpvoteUnsorted(list, votes, id) == LesserAndGreaterOf(list, id)

AfterUpvote(list, votes, id) ==
  LesserAndGreaterOf(SortedQueue(list, Added(votes, id, weight)), id)

\* MUTANT of AfterRevoke: the queue as the contract keeps it, most upvotes first.
AfterRevokeDescending ==
  LET list == SortedQueue(queue, [p \in Proposals |-> - VotesRevoked[p]])
  IN LesserAndGreaterOf(list, record.id)

\* lesserAndGreaterAfterRevoke
AfterRevoke == LesserAndGreaterOf(SortedQueue(queue, VotesRevoked), record.id)

\* lesserAndGreaterAfterUpvote
UpvoteHint(id, revoked) ==
  IF revoked THEN AfterUpvote(SortedQueue(queue, VotesRevoked), VotesRevoked, id)
  ELSE AfterUpvote(queue, upvotes, id)

-----------------------------------------------------------------------------
(* The commands.                                                           *)

QueueCommands == [op : Ops \cap {"upvote"}, id : Proposals]
            \cup [op : Ops \ {"upvote"}, id : {Nobody}]
NoCommand == [op |-> "none", id |-> Nobody, ready |-> FALSE]

Start(c) ==
  /\ pc \in Ended /\ runs < MaxRuns /\ runs' = runs + 1
  /\ cmd' = [op |-> c.op, id |-> c.id, ready |-> ready]
  /\ pc' = CASE c.op = "upvote" -> "checking"
             [] c.op = "revokeupvote" -> "revoking"
             [] OTHER -> "dequeuing"
  /\ UNCHANGED <<contract, noise, read, considered, revoking, hint>>

\* proposalInStage(id, 'Queued')
CheckStage ==
  /\ pc = "checking"
  /\ pc' = IF cmd.id \in Members(queue) \ expired THEN "reading" ELSE "refused"
  /\ UNCHANGED <<contract, noise, runs, cmd, read, considered, revoking, hint>>

ReadQueue ==
  /\ pc = "reading" /\ pc' = "considering" /\ read' = queue
  /\ UNCHANGED <<contract, noise, runs, cmd, considered, revoking, hint>>

Consider ==
  /\ pc = "considering" /\ pc' = "dequeuing"
  /\ considered' = Members(FirstOf(read)) \ expired
  /\ UNCHANGED <<contract, noise, runs, cmd, read, revoking, hint>>

\* The loop ends after one turn: two BigNumber objects are never identical, so
\* originalLastDequeue always differs from what is read here.
SendDequeue ==
  /\ pc = "dequeuing" /\ ContractDequeue
  /\ pc' = IF cmd.op = "dequeue" THEN "done"
           ELSE IF cmd.id \in considered THEN "dequeued" ELSE "hinting"
  /\ UNCHANGED <<noise, runs, cmd, read, considered, revoking, hint>>

ReadRecord ==
  /\ pc = "hinting" /\ pc' = "building" /\ revoking' = Queued(record.id)
  /\ UNCHANGED <<contract, noise, runs, cmd, read, considered, hint>>

\* getIndex throws for a proposal that has left the queue since.
BuildUpvote ==
  /\ pc = "building"
  /\ LET found == Queued(cmd.id) /\ (revoking => Queued(record.id)) IN
     /\ pc' = IF found THEN "sending" ELSE "failed"
     /\ hint' = IF found THEN UpvoteHint(cmd.id, revoking) ELSE NoHint
  /\ UNCHANGED <<contract, noise, runs, cmd, read, considered, revoking>>

BuildRevoke ==
  /\ pc = "revoking"
  /\ pc' = IF Queued(record.id) THEN "sending" ELSE "failed"
  /\ hint' = IF Queued(record.id) THEN AfterRevoke ELSE NoHint
  /\ UNCHANGED <<contract, noise, runs, cmd, read, considered, revoking>>

Accepted == IF cmd.op = "upvote" THEN UpvoteExpired(cmd.id) \/ MayUpvote(cmd.id)
            ELSE MayRevoke

\* displaySendTx throws when the transaction reverts.
Send ==
  /\ pc = "sending"
  /\ \/ /\ Accepted /\ pc' = "done"
        /\ \/ cmd.op = "upvote" /\ ContractUpvote(cmd.id)
           \/ cmd.op = "revokeupvote" /\ ContractRevoke
     \/ ~Accepted /\ pc' = "failed" /\ UNCHANGED contract
  /\ UNCHANGED <<noise, runs, cmd, read, considered, revoking, hint>>

Exit == pc \in Ended /\ runs = MaxRuns /\ UNCHANGED queueVars

QueueInit ==
  /\ \E b \in Beginnings :
       /\ queue = b.queue /\ upvotes = b.upvotes
       /\ expired = b.expired /\ dequeued = b.dequeued
  /\ ready \in BOOLEAN
  /\ weight \in 0 .. MaxUpvotes
  /\ record \in {NoRecord} \cup [id : Proposals, weight : 1 .. MaxUpvotes]
  /\ record # NoRecord => record.weight <= upvotes[record.id]
  /\ noise = 0 /\ runs = 0 /\ pc = "idle" /\ cmd = NoCommand
  /\ read = <<>> /\ considered = {} /\ revoking = FALSE /\ hint = NoHint

QueueNext ==
  \/ \E c \in QueueCommands : Start(c)
  \/ CheckStage \/ ReadQueue \/ Consider \/ SendDequeue
  \/ ReadRecord \/ BuildUpvote \/ BuildRevoke \/ Send
  \/ Noise \/ Exit

QueueSpec == QueueInit /\ [][QueueNext]_queueVars

-----------------------------------------------------------------------------
(* Properties.                                                             *)

Undisturbed == noise = 0

\* Types; the queue is sorted without repetitions, and what the account has
\* upvoted still counts its weight.
QueueTypeOK ==
  /\ queue \in Seq(Proposals) /\ Cardinality(Members(queue)) = Len(queue)
  /\ Sorted(queue, upvotes) /\ Members(queue) \cap dequeued = {}
  /\ upvotes \in [Proposals -> Nat] /\ ready \in BOOLEAN
  /\ expired \subseteq Proposals
  /\ considered \subseteq Proposals
  /\ Cardinality(considered) <= Concurrent
  /\ record # NoRecord => upvotes[record.id] >= record.weight
  /\ {hint.lesser, hint.greater} \subseteq Proposals \cup {Nobody}

\* Of the other proposals two have as many upvotes, next below total, and two as
\* many, next above it.
BetweenTies(p, total) ==
  LET others == Members(queue) \ {p} IN
  \E a, b, c, d \in others :
    /\ a # b /\ upvotes[a] = upvotes[b] /\ upvotes[b] < total
    /\ c # d /\ upvotes[c] = upvotes[d] /\ total < upvotes[c]
    /\ \A q \in others : upvotes[q] <= upvotes[a] \/ upvotes[c] <= upvotes[q]

(* What upvote and revokeUpvote compute from the chain as it is now is a   *)
(* place that the contract accepts, empty queues, ties and both ends of    *)
(* the queue included, unless it is between ties: sortedQueue turns the    *)
(* queue around but leaves ties as they are, and so of those with the      *)
(* nearest upvotes below and above it names the two that are not next to   *)
(* the place.                                                              *)
FreshHintsFit ==
  /\ \A p \in Members(queue) :
       Accepts(queue, upvotes, p, upvotes[p] + weight, UpvoteHint(p, FALSE))
         <=> ~BetweenTies(p, upvotes[p] + weight)
  /\ Queued(record.id) =>
       (Accepts(queue, upvotes, record.id, VotesRevoked[record.id], AfterRevoke)
         <=> ~BetweenTies(record.id, VotesRevoked[record.id]))

\* VIOLATED.  Governance.ts:795 "Applies provided upvoter's upvote to given
\* proposal.": between ties the contract turns back what was just computed.
FreshHintsAccepted ==
  \A p \in Members(queue) :
    Accepts(queue, upvotes, p, upvotes[p] + weight, UpvoteHint(p, FALSE))

(* While nobody else acts, governance:upvote fails only for an account     *)
(* without locked gold or with an upvote in the queue, when a dequeue is   *)
(* still due, or between ties.                                             *)
UpvoteGoesThrough ==
  Undisturbed /\ cmd.op = "upvote" /\ pc = "failed" =>
    \/ weight = 0 \/ Queued(record.id) \/ ready
    \/ BetweenTies(cmd.id, upvotes[cmd.id] + weight)

\* VIOLATED.  upvote.ts:41 "Proposal was dequeued, no need to upvote it.": said
\* of the first of the queue also when no dequeue was due.
NoNeedToUpvote == Undisturbed /\ pc = "dequeued" => ~Queued(cmd.id)
=============================================================================
