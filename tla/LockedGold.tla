----------------------------- MODULE LockedGold -----------------------------
(***************************************************************************)
(* Locking, unlocking and withdrawing CELO: LockedGold.relock and          *)
(* its twin ReleaseGold.relockGold, and the commands lockedcelo:lock,      *)
(* :unlock and :withdraw, in front of the external LockedGold contract.    *)
(* (releasecelo:locked-gold, whose prompt may stop it after it relocked,   *)
(* is not modelled.)                                                       *)
(*                                                                         *)
(* Each client is a terminal in which commands for the same account are    *)
(* run one after the other; every read of the chain and every transaction  *)
(* is a step, so commands of two terminals interleave.  A transaction is   *)
(* paid for from the account's own CELO; one that the contract or the      *)
(* balance does not allow is turned back when its gas is estimated, which  *)
(* costs nothing.  A command may also be cut off after any of its steps.   *)
(***************************************************************************)
EXTENDS Naturals, Sequences, SequencesExt
CONSTANTS Clients,   \* terminals
          Ops,       \* the commands that are run
          Values,    \* the amounts they are run with
          Total,     \* the CELO of the account, wherever it is
          Fees,      \* external: what the gas of a transaction may cost, in CELO;
                     \* nothing when it is paid for in another currency
          Period,    \* external: unlockingPeriod
          MaxTime,   \* bound on the clock
          MaxRuns    \* bound on the commands of a terminal

ASSUME LockedGoldAssumption ==
  /\ Ops \subseteq {"lock", "unlock", "withdraw"}
  /\ Values \subseteq Nat \ {0} /\ Fees \subseteq Nat
  /\ {Total, Period, MaxTime, MaxRuns} \subseteq Nat

VARIABLES
  now,          \* external: block.timestamp
  isAccount,    \* external: the address is registered with Accounts
  celo,         \* external: the balance of the account
  spent,        \* external: what it has paid for gas
  locked,       \* external: its nonvoting locked gold
  pending,      \* external: its pending withdrawals
  runs,         \* the commands each client has begun
  pc,           \* where each client's command is
  cmd,          \* its name and --value
  toRelock,     \* relockValue
  read,         \* the pending withdrawals it read last
  txos,         \* its relock transactions that are built and not sent
  at,           \* withdraw: the index in read it is at
  currentTime,  \* withdraw: the time when the command began
  done,         \* what its transactions have locked or withdrawn so far
  gas           \* what its relock transactions have cost

chain == <<now, isAccount, celo, spent, locked, pending>>
inputs == <<runs, cmd, currentTime>>
vars == <<chain, inputs, pc, toRelock, read, txos, at, done, gas>>

Minimum(a, b) == IF a < b THEN a ELSE b

\* What the first n of a list are worth, for each n, and what all of them are.
Sums(list) ==
  LET sum[n \in 0 .. Len(list)] == IF n = 0 THEN 0 ELSE sum[n - 1] + list[n].value
  IN sum
SumOf(list) == Sums(list)[Len(list)]

SortedByTime(withdrawals) ==
  \A i, j \in DOMAIN withdrawals :
    i < j => withdrawals[i].time <= withdrawals[j].time

Goto(c, label) == pc' = [pc EXCEPT ![c] = label]
Ended == {"idle", "done", "refused", "failed", "interrupted"}
LockValue(c) == cmd[c].value - toRelock[c]

-----------------------------------------------------------------------------
(* External: the LockedGold contract.                                      *)

\* The last pending withdrawal takes the place of a deleted one.
Deleted(i) == SubSeq([pending EXCEPT ![i] = pending[Len(pending)]],
                     1, Len(pending) - 1)

MayRelock(t) == t.index \in DOMAIN pending /\ t.value <= pending[t.index].value

\* The account pays for a transaction, and what the transaction sends and brings.
Charge(fee, sends, brings) ==
  /\ sends + fee <= celo
  /\ celo' = celo - sends - fee + brings /\ spent' = spent + fee

ContractRelock(t, fee) ==
  /\ MayRelock(t) /\ Charge(fee, 0, 0)
  /\ locked' = locked + t.value
  /\ pending' = IF t.value = pending[t.index].value THEN Deleted(t.index)
                ELSE [pending EXCEPT ![t.index].value = @ - t.value]
  /\ UNCHANGED <<now, isAccount>>

ContractLock(value, fee) ==
  /\ Charge(fee, value, 0)
  /\ locked' = locked + value
  /\ UNCHANGED <<now, isAccount, pending>>

\* Its rules for accounts that vote or are validators are not modelled.
ContractUnlock(value, fee) ==
  /\ value <= locked /\ Charge(fee, 0, 0)
  /\ locked' = locked - value
  /\ pending' = Append(pending, [time |-> now + Period, value |-> value])
  /\ UNCHANGED <<now, isAccount>>

MayWithdraw(i) == i \in DOMAIN pending /\ pending[i].time <= now

ContractWithdraw(i, fee) ==
  /\ MayWithdraw(i) /\ Charge(fee, 0, pending[i].value)
  /\ pending' = Deleted(i)
  /\ UNCHANGED <<now, isAccount, locked>>

Tick == /\ now < MaxTime /\ now' = now + 1
        /\ UNCHANGED <<isAccount, celo, spent, locked, pending>>
        /\ UNCHANGED <<inputs, pc, toRelock, read, txos, at, done, gas>>

-----------------------------------------------------------------------------
Commands == [op : Ops \ {"withdraw"}, value : Values]
            \cup [op : Ops \cap {"withdraw"}, value : {0}]

Start(c, command) ==
  /\ pc[c] \in Ended /\ runs[c] < MaxRuns
  /\ runs' = [runs EXCEPT ![c] = @ + 1]
  /\ cmd' = [cmd EXCEPT ![c] = command]
  /\ done' = [done EXCEPT ![c] = 0] /\ gas' = [gas EXCEPT ![c] = 0]
  /\ toRelock' = [toRelock EXCEPT ![c] = 0]
  /\ read' = [read EXCEPT ![c] = <<>>]
  /\ at' = [at EXCEPT ![c] = 1]
  \* Math.round of the time in milliseconds, which only withdraw reads.
  /\ \E t \in IF command.op = "withdraw" THEN {now, now + 1} ELSE {0} :
       currentTime' = [currentTime EXCEPT ![c] = t]
  /\ \/ command.op = "lock" /\ Goto(c, "checking")
     \/ command.op = "unlock" /\ Goto(c, "unlockChecking")
     \* isAccount, isNotSanctioned
     \/ command.op = "withdraw" /\ isAccount /\ Goto(c, "reading")
     \/ command.op = "withdraw" /\ Goto(c, "refused")
  /\ UNCHANGED <<chain, txos>>

(* lockedcelo:lock *)

CheckAccount(c) ==
  /\ pc[c] = "checking"
  /\ Goto(c, IF isAccount THEN "registered" ELSE "registering")
  /\ UNCHANGED <<chain, inputs, toRelock, read, txos, at, done, gas>>

Register(c) ==
  /\ pc[c] = "registering"
  /\ \E fee \in Fees :
     \/ /\ ~isAccount /\ Charge(fee, 0, 0) /\ isAccount' = TRUE
        /\ Goto(c, "registered") /\ UNCHANGED <<now, locked, pending>>
     \/ (isAccount \/ fee > celo) /\ Goto(c, "failed") /\ UNCHANGED chain
  /\ UNCHANGED <<inputs, toRelock, read, txos, at, done, gas>>

\* getPendingWithdrawalsTotalValue, and what of the value it covers.
SplitValue(c) ==
  /\ pc[c] = "registered"
  /\ toRelock' = [toRelock EXCEPT ![c] = Minimum(SumOf(pending), cmd[c].value)]
  /\ Goto(c, "split")
  /\ UNCHANGED <<chain, inputs, read, txos, at, done, gas>>

\* MUTANT of CheckCelo: no check.
NoCheckCelo(c) ==
  /\ pc[c] = "split"
  /\ Goto(c, "affordable")
  /\ UNCHANGED <<chain, inputs, toRelock, read, txos, at, done, gas>>

\* MUTANT of CheckCelo: goes on checking until there is enough.
CheckCeloWaits(c) ==
  /\ pc[c] = "split" /\ celo >= LockValue(c)
  /\ Goto(c, "affordable")
  /\ UNCHANGED <<chain, inputs, toRelock, read, txos, at, done, gas>>

\* hasEnoughCelo, which leaves nothing for gas.
CheckCelo(c) ==
  /\ pc[c] = "split"
  /\ Goto(c, IF celo >= LockValue(c) THEN "affordable" ELSE "refused")
  /\ UNCHANGED <<chain, inputs, toRelock, read, txos, at, done, gas>>

\* The first read of relock.
ReadPending(c) ==
  /\ pc[c] = "affordable"
  /\ read' = [read EXCEPT ![c] = pending]
  /\ Goto(c, "relockRead")
  /\ UNCHANGED <<chain, inputs, toRelock, txos, at, done, gas>>

\* The transactions of relock: reduceRight takes from the withdrawals furthest
\* from being available, at the end of the list, until nothing remains.
Relocked(withdrawals, value) ==
  LET n == Len(withdrawals)
      acc[k \in 0 .. n] ==
        IF k = 0 THEN [remaining |-> value, txos |-> <<>>]
        ELSE LET before == acc[k - 1]
                 part == Minimum(withdrawals[n + 1 - k].value, before.remaining)
             IN IF part = 0 THEN before
                ELSE [remaining |-> before.remaining - part,
                      txos |-> Append(before.txos,
                                      [index |-> n + 1 - k, value |-> part])]
  IN acc
RelockOf(withdrawals, value) == Relocked(withdrawals, value)[Len(withdrawals)].txos

\* The second read of relock, its checks and its transactions.
BuildRelock(c) ==
  /\ pc[c] = "relockRead"
  /\ IF SumOf(pending) < toRelock[c] \/ ~SortedByTime(read[c])
     THEN Goto(c, "failed") /\ UNCHANGED txos
     ELSE /\ txos' = [txos EXCEPT ![c] = RelockOf(read[c], toRelock[c])]
          /\ Goto(c, "relocking")
  /\ UNCHANGED <<chain, inputs, toRelock, read, at, done, gas>>

SendRelock(c) ==
  /\ pc[c] = "relocking" /\ txos[c] # <<>>
  /\ \E fee \in Fees : LET t == Head(txos[c]) IN
     \/ /\ ContractRelock(t, fee)
        /\ done' = [done EXCEPT ![c] = @ + t.value]
        /\ gas' = [gas EXCEPT ![c] = @ + fee]
        /\ txos' = [txos EXCEPT ![c] = Tail(@)]
        /\ UNCHANGED pc
     \/ /\ ~MayRelock(t) \/ fee > celo
        /\ Goto(c, "failed") /\ txos' = [txos EXCEPT ![c] = <<>>]
        /\ UNCHANGED <<chain, done, gas>>
  /\ UNCHANGED <<inputs, toRelock, read, at>>

\* MUTANT of SendLock: locks the whole value.
SendLockWhole(c) ==
  /\ pc[c] = "relocking" /\ txos[c] = <<>>
  /\ \E fee \in Fees : LET value == cmd[c].value IN
     \/ value = 0 /\ Goto(c, "done") /\ UNCHANGED <<chain, done>>
     \/ /\ value > 0 /\ ContractLock(value, fee)
        /\ done' = [done EXCEPT ![c] = @ + value] /\ Goto(c, "done")
     \/ /\ value > 0 /\ value + fee > celo
        /\ Goto(c, "failed") /\ UNCHANGED <<chain, done>>
  /\ UNCHANGED <<inputs, toRelock, read, txos, at, gas>>

\* What pending withdrawals do not cover is locked from the balance.
SendLock(c) ==
  /\ pc[c] = "relocking" /\ txos[c] = <<>>
  /\ \E fee \in Fees : LET value == LockValue(c) IN
     \/ value = 0 /\ Goto(c, "done") /\ UNCHANGED <<chain, done>>
     \/ /\ value > 0 /\ ContractLock(value, fee)
        /\ done' = [done EXCEPT ![c] = @ + value] /\ Goto(c, "done")
     \/ /\ value > 0 /\ value + fee > celo
        /\ Goto(c, "failed") /\ UNCHANGED <<chain, done>>
  /\ UNCHANGED <<inputs, toRelock, read, txos, at, gas>>

(* lockedcelo:unlock *)

\* isAccount, hasEnoughLockedGoldToUnlock; isNotVoting may fail at any time.
CheckUnlock(c) ==
  /\ pc[c] = "unlockChecking"
  /\ \/ isAccount /\ cmd[c].value <= locked /\ Goto(c, "unlocking")
     \/ Goto(c, "refused")
  /\ UNCHANGED <<chain, inputs, toRelock, read, txos, at, done, gas>>

\* The contract may turn it back at any time for a vote or as a validator.
SendUnlock(c) ==
  /\ pc[c] = "unlocking"
  /\ \/ \E fee \in Fees : ContractUnlock(cmd[c].value, fee) /\ Goto(c, "done")
     \/ Goto(c, "failed") /\ UNCHANGED chain
  /\ UNCHANGED <<inputs, toRelock, read, txos, at, done, gas>>

(* lockedcelo:withdraw *)

ReadWithdrawals(c) ==
  /\ pc[c] = "reading"
  /\ read' = [read EXCEPT ![c] = pending]
  /\ at' = [at EXCEPT ![c] = 1]
  /\ Goto(c, "scanning")
  /\ UNCHANGED <<chain, inputs, toRelock, txos, done, gas>>

Available(c) == read[c][at[c]].time < currentTime[c]

\* One turn of the for loop: what was available when the command began is
\* withdrawn by its index in the list that was read.
Scan(c) ==
  /\ pc[c] = "scanning" /\ at[c] <= Len(read[c])
  /\ \/ /\ ~Available(c)
        /\ at' = [at EXCEPT ![c] = @ + 1]
        /\ UNCHANGED <<chain, pc, done>>
     \/ /\ Available(c)
        /\ \E fee \in Fees : ContractWithdraw(at[c], fee)
        /\ done' = [done EXCEPT ![c] = @ + pending[at[c]].value]
        /\ at' = [at EXCEPT ![c] = @ + 1]
        /\ UNCHANGED pc
     \/ /\ Available(c)
        /\ ~MayWithdraw(at[c]) \/ \E fee \in Fees : fee > celo
        /\ Goto(c, "failed")
        /\ UNCHANGED <<chain, at, done>>
  /\ UNCHANGED <<inputs, toRelock, read, txos, gas>>

\* while (!madeWithdrawal)
ScanAgain(c) ==
  /\ pc[c] = "scanning" /\ at[c] > Len(read[c])
  /\ Goto(c, IF done[c] > 0 THEN "done" ELSE "reading")
  /\ read' = [read EXCEPT ![c] = <<>>] /\ at' = [at EXCEPT ![c] = 1]
  /\ UNCHANGED <<chain, inputs, toRelock, txos, done, gas>>

\* A node fails or a user stops the command; an answer that is lost after its
\* transaction was applied is one that ends here.
Break(c) ==
  /\ pc[c] \notin Ended
  /\ Goto(c, "interrupted")
  /\ toRelock' = [toRelock EXCEPT ![c] = 0] /\ read' = [read EXCEPT ![c] = <<>>]
  /\ txos' = [txos EXCEPT ![c] = <<>>] /\ at' = [at EXCEPT ![c] = 1]
  /\ UNCHANGED <<chain, inputs, done, gas>>

-----------------------------------------------------------------------------
Withdrawals == [time : 0 .. MaxTime + Period, value : 1 .. Total]
NoCommand == [op |-> "none", value |-> 0]
Txos == [index : Nat \ {0}, value : Nat \ {0}]

Init ==
  /\ now = 0
  /\ isAccount \in BOOLEAN
  /\ pending \in BoundedSeq([time : 0 .. Period, value : 1 .. Total], 3)
  /\ SortedByTime(pending)
  /\ locked \in 0 .. Total
  /\ ~isAccount => locked = 0 /\ pending = <<>>
  /\ locked + SumOf(pending) <= Total
  /\ celo = Total - locked - SumOf(pending) /\ spent = 0
  /\ runs = [c \in Clients |-> 0]
  /\ pc = [c \in Clients |-> "idle"]
  /\ cmd = [c \in Clients |-> NoCommand]
  /\ toRelock = [c \in Clients |-> 0]
  /\ read = [c \in Clients |-> <<>>]
  /\ txos = [c \in Clients |-> <<>>]
  /\ at = [c \in Clients |-> 1]
  /\ currentTime = [c \in Clients |-> 0]
  /\ done = [c \in Clients |-> 0]
  /\ gas = [c \in Clients |-> 0]

Step(c) ==
  \/ CheckAccount(c) \/ Register(c) \/ SplitValue(c) \/ CheckCelo(c)
  \/ ReadPending(c) \/ BuildRelock(c) \/ SendRelock(c) \/ SendLock(c)
  \/ CheckUnlock(c) \/ SendUnlock(c)
  \/ ReadWithdrawals(c) \/ Scan(c) \/ ScanAgain(c)

Exit == /\ \A c \in Clients : pc[c] \in Ended /\ runs[c] = MaxRuns
        /\ UNCHANGED vars

Next ==
  \/ \E c \in Clients : \E command \in Commands : Start(c, command)
  \/ \E c \in Clients : Step(c) \/ Break(c)
  \/ Tick \/ Exit

Spec == Init /\ [][Next]_vars

\* Nodes answer, and time passes.
FairSpec == Spec /\ \A c \in Clients : WF_vars(Step(c)) /\ WF_vars(Tick)

-----------------------------------------------------------------------------
(* Properties.                                                             *)

Labels == Ended \cup {"checking", "registering", "registered", "split", "affordable",
                     "relockRead", "relocking", "unlockChecking", "unlocking",
                     "reading", "scanning"}

\* Types; and no CELO of the account appears, or disappears but for gas.
TypeOK ==
  /\ now \in 0 .. MaxTime /\ isAccount \in BOOLEAN
  /\ celo \in Nat /\ spent \in Nat /\ locked \in Nat /\ pending \in Seq(Withdrawals)
  /\ celo + spent + locked + SumOf(pending) = Total
  /\ runs \in [Clients -> 0 .. MaxRuns] /\ pc \in [Clients -> Labels]
  /\ cmd \in [Clients -> Commands \cup {NoCommand}]
  /\ toRelock \in [Clients -> Nat] /\ done \in [Clients -> Nat]
  /\ gas \in [Clients -> Nat]
  /\ read \in [Clients -> Seq(Withdrawals)]
  /\ txos \in [Clients -> Seq(Txos)]
  /\ at \in [Clients -> Nat \ {0}] /\ currentTime \in [Clients -> 0 .. MaxTime + 1]
  /\ \A c \in Clients : /\ toRelock[c] <= cmd[c].value
                        /\ pc[c] = "scanning" => at[c] <= Len(read[c]) + 1

\* Commands have been run in one terminal only.
Undisturbed == \A c, d \in Clients : runs[c] > 0 /\ runs[d] > 0 => c = d

\* lockedcelo:lock locks, by relocking and by locking, no more than --value whatever
\* another terminal does meanwhile; when it ends well it has locked exactly that, but
\* for what was missing from the list that relock worked on.
LocksExactly ==
  \A c \in Clients : cmd[c].op = "lock" =>
    /\ done[c] <= cmd[c].value
    /\ pc[c] = "done" =>
         done[c] = LockValue(c) + Minimum(SumOf(read[c]), toRelock[c])

\* While one terminal is used and no node fails, what makes a lock fail after it has
\* locked a part can only be the price of its own transactions: the balance and the gas
\* of its relocks cover what was to be locked, and the next transaction is not paid for.
\* Whatever else its checks and reads find, it finds before it sends anything.
LocksPartlyOnlyForGas ==
  Undisturbed => \A c \in Clients :
    cmd[c].op = "lock" /\ pc[c] \in {"failed", "refused"} /\ done[c] > 0 =>
      /\ celo + gas[c] >= LockValue(c)
      /\ \E fee \in Fees : celo < LockValue(c) + fee

\* lockedcelo:lock and :unlock end, for any interleaving with other terminals.
LockAndUnlockEnd ==
  \A c \in Clients :
    (cmd[c].op \in {"lock", "unlock"}) ~> (pc[c] \in Ended)

\* VIOLATED.  lock.ts:55 checks the balance against what is to be locked and not against
\* the gas of its transactions: relocks go through and the last lock is turned back.
LockAllOrNothing ==
  Undisturbed => \A c \in Clients :
    cmd[c].op = "lock" /\ pc[c] \in {"failed", "refused"} => done[c] = 0

\* VIOLATED.  LockedGold.ts:158 "Ensure there are enough pending withdrawals to
\* relock": what is compared with the value is a second read, and what is relocked
\* comes from the first, so that a lock that ends well may have locked less.
LocksWhole ==
  \A c \in Clients :
    cmd[c].op = "lock" /\ pc[c] = "done" => done[c] = cmd[c].value

\* VIOLATED.  lockedcelo/withdraw.ts:8 "Withdraw any pending withdrawals created
\* via lockedgold:unlock that have become available": with two of them the second
\* is looked for at an index that the first one has shifted.
AllAvailableWithdrawn ==
  Undisturbed => \A c \in Clients :
    cmd[c].op = "withdraw" /\ pc[c] \in {"done", "failed"} =>
      \A i \in DOMAIN pending : pending[i].time >= currentTime[c]

\* VIOLATED.  The same sentence: a command that finds nothing available keeps
\* looking, but with the time at which it began, and so never ends.
WithdrawEnds ==
  \A c \in Clients : (cmd[c].op = "withdraw") ~> (pc[c] \in Ended)
=============================================================================
