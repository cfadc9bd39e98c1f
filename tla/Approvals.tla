----------------------------- MODULE Approvals -----------------------------
(***************************************************************************)
(* Owners of a multisig or of a Safe run a celocli command each from a     *)
(* terminal of their own, to make the multisig or Safe call Governance:    *)
(* governance:approve (a proposal or a hotfix) and governance:withdraw.    *)
(* Nothing but the chain is shared.  The multisig path is                  *)
(* MultiSigWrapper.submitOrConfirmTransaction, the Safe path is            *)
(* performSafeTransaction.  The three contracts are modelled from their    *)
(* use.                                                                    *)
(***************************************************************************)
EXTENDS Naturals, Sequences, FiniteSets
CONSTANTS
  Owners,      \* owners of the multisig or Safe, one terminal each
  Required,    \* confirmations that execute a transaction
  Proposals,   \* governance proposals that may be approved
  Hotfix, Withdraw,
  None,        \* a free entry of the dequeue, or no hash
  Goals,       \* what the owners are out for: assignments of calls to them
  MaxRefunds,  \* bound: deposits that are ever refunded to the proposer
  MaxNonce     \* bound: nonces of the Safe

ASSUME OwnersAssumption == IsFiniteSet(Owners)
ASSUME RequiredAssumption == Required \in 1 .. Cardinality(Owners)
ASSUME CallsAssumption ==
  None \notin Proposals /\ Hotfix \notin Proposals /\ Withdraw \notin Proposals
  /\ Hotfix # Withdraw
ASSUME BoundsAssumption == MaxRefunds \in Nat /\ MaxNonce \in Nat
ASSUME GoalsAssumption ==
  Goals \subseteq [Owners -> Proposals \cup {Hotfix, Withdraw}]

VARIABLES
  via,        \* "multisig" or "safe": where the owners are owners
  goal,       \* what the command of each owner is to bring about
  dequeued,   \* Governance: the dequeued proposals; freed entries are reused
  waiting,    \* Governance: proposals in the queue
  approved,   \* Governance: proposals and hotfix that were approved
  refunds,    \* Governance: refunded deposits that can be withdrawn
  credits,    \* refunds ever granted
  txs,        \* MultiSig: the transactions, oldest first
  nonce,      \* Safe: the nonce of its next transaction
  signed,     \* Safe: pairs <<owner, hash>> approved on chain
  run,        \* the command of each owner
  raced,      \* calls for which two scans overlapped
  cut         \* a command was cut off

governance == <<dequeued, waiting, approved, refunds>>
contracts == <<governance, txs, nonce, signed>>
vars == <<via, goal, contracts, credits, run, raced, cut>>

Calls == Proposals \cup {Hotfix, Withdraw}
Idle == [pc |-> "idle", index |-> 0, at |-> 0, hash |-> None]
IndexOf(p, list) == CHOOSE i \in DOMAIN list : list[i] = p
Wanted == {goal[o] : o \in Owners}
Entries == {dequeued[i] : i \in DOMAIN dequeued} \ {None}

Places == {"idle", "dequeue", "check", "index", "count", "scan", "confirm",
           "submit", "hash", "approve", "rehash", "owners", "execute"}
Transactions == [call: Calls, index: Nat, executed: BOOLEAN, by: SUBSET Owners]
Hashes == [call: Calls, nonce: Nat]

TypeOK ==
  /\ via \in {"multisig", "safe"}
  /\ goal \in Goals
  /\ dequeued \in Seq(Proposals \cup {None})
  /\ waiting \subseteq Proposals
  /\ approved \subseteq Proposals \cup {Hotfix}
  /\ credits \in 0 .. MaxRefunds /\ refunds \in 0 .. credits
  /\ txs \in Seq(Transactions)
  /\ nonce \in Nat
  /\ signed \subseteq Owners \X Hashes
  /\ run \in [Owners -> [pc: Places, index: 0 .. Len(dequeued),
                         at: 0 .. Len(txs), hash: Hashes \cup {None}]]
  /\ raced \subseteq Calls /\ cut \in BOOLEAN

Init ==
  /\ via \in {"multisig", "safe"}
  /\ goal \in Goals
  /\ via = "safe" => \A o \in Owners : goal[o] \notin Proposals
  /\ dequeued = <<>> /\ waiting = Proposals /\ approved = {}
  /\ refunds = 0 /\ credits = 0
  /\ txs = <<>> /\ nonce = 0 /\ signed = {}
  /\ run = [o \in Owners |-> Idle]
  /\ raced = {} /\ cut = FALSE

-----------------------------------------------------------------------------
(* External: Governance.                                                   *)

\* Dequeued proposals take a free entry, or a new one at the end.
Dequeue ==
  \E p \in waiting :
    /\ waiting' = waiting \ {p}
    /\ IF None \in {dequeued[i] : i \in DOMAIN dequeued}
         THEN dequeued' = [dequeued EXCEPT ![IndexOf(None, dequeued)] = p]
         ELSE dequeued' = Append(dequeued, p)

\* An executed or expired proposal leaves its entry free.
Free ==
  /\ \E i \in DOMAIN dequeued :
       dequeued[i] # None /\ dequeued' = [dequeued EXCEPT ![i] = None]
  /\ UNCHANGED <<via, goal, waiting, approved, refunds, credits, txs, nonce,
                 signed, run, raced, cut>>

Refund ==
  /\ credits < MaxRefunds /\ Withdraw \in Wanted
  /\ credits' = credits + 1 /\ refunds' = refunds + 1
  /\ UNCHANGED <<via, goal, dequeued, waiting, approved, txs, nonce, signed,
                 run, raced, cut>>

\* When Governance does not revert the call, and what it then does.
Performable(call, index) ==
  \/ /\ call \in Proposals
     /\ index \in DOMAIN dequeued /\ dequeued[index] = call
     /\ call \notin approved
  \/ call = Hotfix /\ call \notin approved
  \/ call = Withdraw /\ refunds > 0

Perform(call) ==
  /\ approved' = IF call = Withdraw THEN approved ELSE approved \cup {call}
  /\ refunds' = IF call = Withdraw THEN 0 ELSE refunds

-----------------------------------------------------------------------------
(* The command until its transaction is built.                             *)

To(o, pc, index, at, hash) ==
  run' = [run EXCEPT ![o] = [pc |-> pc, index |-> index, at |-> at,
                             hash |-> hash]]
Go(o, pc) == To(o, pc, run[o].index, run[o].at, run[o].hash)
End(o) == run' = [run EXCEPT ![o] = Idle]

\* proposalExists, proposalInStages and the isApproved check; hotfixNotApproved;
\* hasRefundedDeposits.
Worth(call) ==
  \/ call \in Proposals /\ call \in Entries /\ call \notin approved
  \/ call = Hotfix /\ call \notin approved
  \/ call = Withdraw /\ refunds > 0

Start(o) ==
  /\ run[o].pc = "idle"
  /\ Go(o, IF goal[o] \in waiting THEN "dequeue" ELSE "check")
  /\ UNCHANGED <<via, goal, contracts, credits, raced, cut>>

\* dequeueProposalsIfReady is sent; it may be too early to do anything.
SendDequeue(o) ==
  /\ run[o].pc = "dequeue"
  /\ Go(o, "check")
  /\ Dequeue \/ UNCHANGED <<waiting, dequeued>>
  /\ UNCHANGED <<via, goal, approved, refunds, credits, txs, nonce, signed,
                 raced, cut>>

RunChecks(o) ==
  /\ run[o].pc = "check"
  /\ IF ~Worth(goal[o]) THEN End(o)
     ELSE Go(o, IF goal[o] \in Proposals THEN "index"
                ELSE IF via = "safe" THEN "hash" ELSE "count")
  /\ UNCHANGED <<via, goal, contracts, credits, raced, cut>>

\* MUTANT of DequeueIndex: counts without the freed entries.
DequeueIndexWithoutZeroes(p) ==
  Cardinality({i \in 1 .. IndexOf(p, dequeued) : dequeued[i] # None})

\* getIndex over getDequeue(), which keeps the freed entries.
DequeueIndex(p) == IndexOf(p, dequeued)

\* getDequeueIndex throws when the proposal is gone.
GetDequeueIndex(o) ==
  /\ run[o].pc = "index"
  /\ IF goal[o] \in Entries
       THEN To(o, "count", DequeueIndex(goal[o]), run[o].at, run[o].hash)
       ELSE End(o)
  /\ UNCHANGED <<via, goal, contracts, credits, raced, cut>>

-----------------------------------------------------------------------------
(* MultiSig.                                                               *)

\* MUTANT of Matches: does not compare the data.
MatchesAnyData(t, o) == ~t.executed

Matches(t, o) == t.call = goal[o] /\ t.index = run[o].index /\ ~t.executed

\* MUTANT of LatestTransaction: ids are from 0, and are here taken from 1.
LatestButOne == IF txs = <<>> THEN 0 ELSE Len(txs) - 1

LatestTransaction == Len(txs)

\* getTransactionCount.
CountTransactions(o) ==
  /\ run[o].pc = "count"
  /\ To(o, "scan", run[o].index, LatestTransaction, run[o].hash)
  /\ raced' = IF \E p \in Owners \ {o} :
                   goal[p] = goal[o] /\ run[p].pc \in {"scan", "submit"}
                THEN raced \cup {goal[o]} ELSE raced
  /\ UNCHANGED <<via, goal, contracts, credits, cut>>

\* One round of the loop, from the latest transaction to the first.
ScanTransaction(o) ==
  /\ run[o].pc = "scan"
  /\ IF run[o].at = 0 THEN Go(o, "submit")
     ELSE IF Matches(txs[run[o].at], o) THEN Go(o, "confirm")
     ELSE To(o, "scan", run[o].index, run[o].at - 1, run[o].hash)
  /\ UNCHANGED <<via, goal, contracts, credits, raced, cut>>

\* External: the owner confirms once; the confirmation that is the last one
\* required executes the call, and all reverts when that fails.
Confirm(o, list, i) ==
  LET t == list[i]
      by == t.by \cup {o}
      due == Cardinality(by) >= Required
      ok == o \notin t.by /\ (due => ~t.executed /\ Performable(t.call, t.index))
  IN IF ~ok THEN UNCHANGED <<txs, approved, refunds>>
     ELSE /\ txs' = [list EXCEPT ![i] = [call |-> t.call, index |-> t.index,
                                         executed |-> due, by |-> by]]
          /\ IF due THEN Perform(t.call) ELSE UNCHANGED <<approved, refunds>>

ConfirmTransaction(o) ==
  /\ run[o].pc = "confirm"
  /\ Confirm(o, txs, run[o].at)
  /\ End(o)
  /\ UNCHANGED <<via, goal, dequeued, waiting, credits, nonce, signed, raced,
                 cut>>

SubmitTransaction(o) ==
  /\ run[o].pc = "submit"
  /\ LET t == [call |-> goal[o], index |-> run[o].index, executed |-> FALSE,
               by |-> {}]
     IN Confirm(o, Append(txs, t), Len(txs) + 1)
  /\ End(o)
  /\ UNCHANGED <<via, goal, dequeued, waiting, credits, nonce, signed, raced,
                 cut>>

-----------------------------------------------------------------------------
(* Safe.                                                                   *)

OwnersWhoApproved(hash) == {o \in Owners : <<o, hash>> \in signed}

\* createApproveSafeTransactionIfNotApproved; the transaction, and so its
\* hash, is made with the nonce of this moment.
HashForApproval(o) ==
  /\ run[o].pc = "hash"
  /\ LET hash == [call |-> goal[o], nonce |-> nonce] IN
       IF o \in OwnersWhoApproved(hash) THEN Go(o, "rehash")
       ELSE To(o, "approve", run[o].index, run[o].at, hash)
  /\ UNCHANGED <<via, goal, contracts, credits, raced, cut>>

ApproveTransactionHash(o) ==
  /\ run[o].pc = "approve"
  /\ signed' = signed \cup {<<o, run[o].hash>>}
  /\ Go(o, "rehash")
  /\ UNCHANGED <<via, goal, governance, credits, txs, nonce, raced, cut>>

\* createExecuteSafeTransactionIfThresholdMet makes the transaction anew.
HashForExecution(o) ==
  /\ run[o].pc = "rehash"
  /\ To(o, "owners", run[o].index, run[o].at,
        [call |-> goal[o], nonce |-> nonce])
  /\ UNCHANGED <<via, goal, contracts, credits, raced, cut>>

\* MUTANT of ThresholdMet: asks for one approval too many.
ThresholdPassed(hash) == Cardinality(OwnersWhoApproved(hash)) > Required

ThresholdMet(hash) == Cardinality(OwnersWhoApproved(hash)) >= Required

CountApprovals(o) ==
  /\ run[o].pc = "owners"
  /\ IF ThresholdMet(run[o].hash) THEN Go(o, "execute") ELSE End(o)
  /\ UNCHANGED <<via, goal, contracts, credits, raced, cut>>

\* External: the approvals of a hash are those of its nonce; a failing call
\* reverts and leaves the nonce.
ExecuteTransaction(o) ==
  /\ run[o].pc = "execute"
  /\ LET hash == run[o].hash IN
       IF hash.nonce = nonce /\ Performable(hash.call, 0)
         THEN nonce' = nonce + 1 /\ Perform(hash.call)
         ELSE UNCHANGED <<nonce, approved, refunds>>
  /\ End(o)
  /\ UNCHANGED <<via, goal, dequeued, waiting, credits, txs, signed, raced,
                 cut>>

-----------------------------------------------------------------------------
(* Everyone else.                                                          *)

\* Another transaction of the Safe is executed.
OtherSafeTx ==
  /\ via = "safe" /\ nonce < MaxNonce
  /\ nonce' = nonce + 1
  /\ UNCHANGED <<via, goal, governance, credits, txs, signed, run, raced, cut>>

OtherDequeue ==
  /\ Proposals \cap Wanted # {}   \* otherwise it concerns no command
  /\ Dequeue
  /\ UNCHANGED <<via, goal, approved, refunds, credits, txs, nonce, signed,
                 run, raced, cut>>

\* Ctrl-C, or a lost connection, ends a command anywhere; once in a run.
Cut(o) ==
  /\ ~cut /\ run[o].pc # "idle"
  /\ cut' = TRUE /\ End(o)
  /\ UNCHANGED <<via, goal, contracts, credits, raced>>

Command(o) ==
  \/ SendDequeue(o) \/ RunChecks(o) \/ GetDequeueIndex(o)
  \/ CountTransactions(o) \/ ScanTransaction(o)
  \/ ConfirmTransaction(o) \/ SubmitTransaction(o)
  \/ HashForApproval(o) \/ ApproveTransactionHash(o)
  \/ HashForExecution(o) \/ CountApprovals(o) \/ ExecuteTransaction(o)

Next ==
  \/ \E o \in Owners : Start(o) \/ Command(o) \/ Cut(o)
  \/ Free \/ Refund \/ OtherSafeTx \/ OtherDequeue

Spec == Init /\ [][Next]_vars

\* A command that runs goes on, and an owner repeats his command.
FairSpec == Spec /\ \A o \in Owners : WF_vars(Start(o) \/ Command(o))

-----------------------------------------------------------------------------
(* Properties.                                                             *)

Wanting(call) == {o \in Owners : goal[o] = call}

(* Governance has approved only what enough owners asked for: no matching  *)
(* of a transaction to be confirmed lends an owner's confirmation to a     *)
(* call that he did not ask for, whatever else is pending.                 *)
QuorumAsked == \A c \in approved : Cardinality(Wanting(c)) >= Required

(* Unless two owners scanned at once, no call is pending twice on the      *)
(* multisig: confirmations of one call are not split over transactions.    *)
OnePendingPerCall ==
  \A i, j \in DOMAIN txs :
    /\ ~txs[i].executed /\ ~txs[j].executed
    /\ txs[i].call = txs[j].call /\ txs[i].call \notin raced
    => i = j

(* Once every command on a Safe has ended, none of them cut off, no call   *)
(* that is still worth doing is left with all its approvals: whoever       *)
(* approved last has executed it, however the commands interleaved.  A     *)
(* deposit that is refunded after a withdrawal is another matter: commands *)
(* that checked before the withdrawal may have approved and failed by then.*)
SafeSettled ==
  via = "safe" /\ ~cut /\ (\A o \in Owners : run[o].pc = "idle")
  => \A call \in Calls :
       /\ Worth(call)
       /\ call = Withdraw => refunds = credits   \* nothing was withdrawn yet
       => Cardinality(OwnersWhoApproved([call |-> call, nonce |-> nonce]))
            < Required

(* What enough owners ask for comes to pass, by repeating the command: the *)
(* proposal is approved unless it leaves the dequeue first, the hotfix is  *)
(* approved, the refunds are withdrawn.  Neither a race of two submissions *)
(* nor another transaction of the Safe nor a reused entry of the dequeue   *)
(* leaves the owners stuck.                                                *)
Asked(c) == Cardinality(Wanting(c)) >= Required /\ Worth(c)
EventuallyDone == \A c \in Calls : Asked(c) ~> ~Worth(c)
=============================================================================
