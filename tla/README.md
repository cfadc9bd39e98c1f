# Verification of the Celo developer tooling

TLA+ modules, TLC configurations and TLAPS proofs for the monorepo
`developer-tooling`: the JavaScript SDK (`packages/sdk/*`), `celocli`
(`packages/cli`), and the viem based packages (`actions`, `core`,
`viem-account-ledger`).

The program is a client. It keeps little state of its own; what makes it hard is
that almost every operation reads a chain that others change, computes something
from what it read (an index, a pair of neighbours in a sorted list, a nonce, a
split of an amount), and sends one or several transactions that were right when
they were computed. The modules are about that: what is read when, what happens
in between, and what is left when one step of several fails.

Paths below are relative to `src/packages/`.

## 1. Inventory

### Components, their state and their operations

| Component | State it keeps | Operations | Correct when |
|---|---|---|---|
| Lock (`sdk/base/src/lock.ts`) | a flag, the listeners of an `EventEmitter` | `acquire`, `tryAcquire`, `release` | at most one holder, first come first served, no waiter sleeps while the lock is free, no listener is left behind |
| Transaction pipeline (`sdk/connect`: `CeloProvider`, `Connection`, `TxParamsNormalizer`, `HttpRpcCaller`; `wallet-base`, `wallet-local`) | the current provider, a nonce lock per provider, two chain id caches, the wallet's signers | `send` (sign or sign and send), `setProvider`, `stop`, `addAccount`/`removeAccount` | nonces are fresh and consecutive, the lock always comes back, nothing is posted twice, every request settles, the right chain id is signed |
| Vote revocation (`contractkit` `Election`, `ReleaseGold`; `election:revoke`, `releasecelo:revoke-votes`, `:admin-revoke`) | none between runs; a command holds the transactions it built | `revoke`, `revokeAllVotesForGroup`, `revokeAllVotesForAllGroups` | revokes what was asked, pending votes first; hints and indexes are accepted by the contract |
| Locked CELO (`LockedGold`, `ReleaseGold`; `lockedcelo:lock`, `:unlock`, `:withdraw`) | the same | relock and lock, unlock, withdraw | locks exactly the amount, and a part only when gas runs out; withdraws all that is available; ends |
| Governance queue (`Governance`; `governance:upvote`, `:revokeupvote`, `:dequeue`) | the same | upvote, revoke an upvote, dequeue | computed places are accepted, an upvote is sent exactly when it still counts |
| Contract caches (`AddressRegistry`, `Web3ContractCache`, `WrapperCache`, `MiniContractCache`) | three caches | `getContract`, `addressFor`, `invalidateContract` | returns the contract asked for, remembers no failure |
| MultiSig and Safe (`wrappers/MultiSig.ts`, `cli/src/utils/safe.ts`, `governance:approve`, `:withdraw`) | none | submit or confirm; approve and execute | owners who run the same command agree on one transaction; the last approver executes it |
| Referendum (`wrappers/Governance.ts`, `actions/.../governance.ts`, `core/src/governing/vote.ts`) | none | approve, vote, vote partially, execute, hotfixes | the dequeue index belongs to the proposal when it is used; checks and contract agree on the stage |
| Epoch processing (`wrappers/EpochManager.ts`, `cli epochs:*`) | none | start, process groups, finish, switch | the neighbours of every group are right after the groups before it moved |
| Voting and activation (`Election.vote`, `activate`, `core/src/staking/vote.ts`, `election:activate --wait`) | none | vote, activate, wait for the epoch | neighbours accepted; waits until activation is possible |
| Wallets (`wallet-base`, `wallet-remote`, `wallet-hsm*`, `wallet-ledger`, `wallet-local`) | `setupLocked`, `setupFinished`, signers | `init`, choosing the type of a transaction, encoding, signing, recovering | one load, everybody waits for it or learns that it failed; what was signed is what was asked, and by whom it says |
| Retries and futures (`base/src/async.ts`, `future.ts`, `task.ts`, `connect/src/utils/tx-result.ts`) | attempts, timers, promises | retry, timeout, repeat and stop a task, wait for a hash or a receipt | what is stopped stays stopped, no rejection is left without a handler, every promise settles |
| Validators and groups (`wrappers/Validators.ts`, `utils/checks.ts`, `validator:*`, `validatorgroup:*`) | none | register, affiliate, add, remove and reorder members, commission | what passes its checks is accepted; members come to their places; a goal can be reached from everywhere |
| ReleaseGold life cycle (`releasecelo:*`) | none | create the account, authorize, lock, revoke, unlock, withdraw, refund and finalize, change the beneficiary | a sequence that fails can be run again, nothing is lost with the contract, the multisig follows the beneficiary |

The rest (metadata, key files, phone numbers, network utilities, the explorer,
the commands that only read or send one transaction, test tools) has a row each
in `PROJECT.json` with the reason why it is not modelled: pure functions over
bytes, wiring, input and output.

### How they interact

- A CLI command asks the kit for a wrapper (contract caches, `AddressRegistry`),
  calls it to build transaction objects, and sends them one by one with
  `displaySendTx`, which throws at the first that reverts.
- Every transaction of a local account goes through `web3` to
  `CeloProvider.send`, which takes the provider's nonce lock (`Lock`), asks
  `TxParamsNormalizer` to fill in chain id, nonce and fees through `Connection`
  and `HttpRpcCaller`, lets the wallet sign and sends the raw transaction.
- `Connection.setProvider` replaces provider and caller while requests may be in
  flight. Wallets gain and lose accounts at any time.
- Everything else is shared through the chain: other accounts, other terminals
  of the same user, and time.

### Which behaviours are hard

Interleaved promises between two `await`s (pipeline, caches, lock callbacks);
reads of the chain that are stale when the transaction is sent (indexes,
neighbours, nonces); several transactions of which one reverts; answers that
arrive after the provider was changed, or not at all; polling loops; and
boundaries (ties, empty lists, ends of a list, a whole entry against a part of
it). Each one is listed in `PROJECT.json` under `hazards`, at its line, with the
properties that would catch it or the reason why none does yet.

## 2. Modules

| Module | What it is |
|---|---|
| `MutexOps`, `Mutex` | abstract: a first come, first served mutex as values and as a specification |
| `Lock` | `lock.ts`, with the synchronous emission of the `EventEmitter` step by step |
| `BaseProofs` | theorems about `Lock` and `Futures` |
| `SendLedger` | abstract: what `eth_sendTransaction` promises to the callers of one provider |
| `TxPipeline`, `MCTxPipeline` | the transaction pipeline, using `MutexOps` for its locks |
| `SortedVotes` | the neighbours that `findLesserAndGreaterAfterVote` computes, and the external sorted list that judges them |
| `SortedVotesProofs` | lemmas about sorted lists that three other modules of proofs rest on, and the theorem that the computed neighbours fit |
| `VoteRevocation`, `MCVoteRevocation` | vote revocation over `SortedVotes` |
| `LockedGold` | lock, relock, unlock and withdraw |
| `LockedGoldProofs` | theorems about `LockedGold`, and lemmas about its sums |
| `GovernanceQueue`, `MCGovernanceQueue` | upvotes and the dequeue, over `SortedVotes` |
| `ContractCache`, `MCContractCache` | the contract caches |
| `Approvals`, `MCApprovals` | owners of a multisig or a Safe that approve and withdraw |
| `ContractkitProofs` | theorems about `ContractCache` and `Approvals` |
| `TxEncoding` | pure: types, encoding, signing and recovering of transactions |
| `Wallet`, `MCWallet` | wallets that are initialised and sign, over `TxEncoding` |
| `ConnectProofs` | theorems about `TxPipeline`, its refinement of `SendLedger` included, and about `Wallet` and `TxEncoding`: loading, signers and fields |
| `Epochs`, `MCEpochs` | operators that end epochs and a voter who votes and activates, over `SortedVotes` |
| `EpochQueueProofs` | theorems about `Epochs` and `GovernanceQueue` |
| `Validators`, `MCValidators` | validators and groups, over `SortedVotes` |
| `ElectionProofs` | theorems about `VoteRevocation` and `Validators` |
| `ReleaseGold`, `MCReleaseGold` | the life cycle of a ReleaseGold contract |
| `ReleaseGoldProofs` | theorems about `ReleaseGold` |
| `Futures` | retries, timeouts, tasks and transaction results |

Conventions. Every part of an operation up to its next `await`, and every
transaction, is one action; what the code does between two `await`s is never
split, because JavaScript does not interrupt it. Variables marked *external* are
the chain or a node, modelled from how the code uses them. A `MUTANT of X`
before `X` is a plausible wrong version of `X`; the property it is listed with
in `PROJECT.json` must notice it. A property marked `VIOLATED` states what a
comment or a test of the code says, and is false: section 5 says why, and a
counterexample is found when it is added to the configuration of its module.
Two components whose theorems share a module of proofs name their `Init`,
`Next`, `Spec` and variables apart: `FuturesSpec`, `CacheSpec`, `WalletSpec`,
`QueueSpec` and `ValidatorsSpec` beside the `Spec` of the other one.

### Lock

`locked` and `listeners` are the fields of the class. `emitting` is the copy of
the listeners that `EventEmitter.emit` walks through; `release` fills it and
`Callback` runs one entry. The emission is synchronous: while `emitting` is not
empty only callbacks run, and promises are resumed after it. A caller that
acquires the lock it holds is `selfblocked`.

### TxPipeline

`pc` names the `await` at which a request is. `Send` is the synchronous part of
`CeloProvider.send` with its early returns; `EnterLocked` queues at the nonce
lock; `Populate` starts the calls of `TxParamsNormalizer.populate` together,
and `ChainIdAnswer`, `NonceAnswer`, `FeesAnswer` and `CallFails` are their
answers in any order, which go to the caches even if the request has failed in
the meantime. `Sign` reads the *current* rpc caller again, as the code does.
`RawArrives`, `RawLost` and `RawAnswer` separate what the node does from what
the client learns. `Settle` is the `finally` block: it releases the lock of the
provider the request was given to. `SetProvider`, `Stop` and
`AddOrRemoveAccount` may happen between any two steps.

### SortedVotes and VoteRevocation

`LesserAndGreater` is `findLesserAndGreaterAfterVote`: the group before which
and after which the group belongs once its votes have changed. `Accepts` is the
contract's answer. A command reads the account's votes, pending and then active
(`ReadPending`, `ReadActive`), builds its transactions (`Build`, each with index
and hints of that moment) and only then sends them (`Send`). `Noise` is any other
account, an activation of one's own votes from elsewhere included.

### LockedGold

A client is a terminal. `lockedcelo:lock` reads the pending withdrawals three
times (`SplitValue`, `ReadPending`, `BuildRelock`) before `SendRelock` and
`SendLock`. `lockedcelo:withdraw` reads the list and walks over it (`Scan`),
withdrawing by index, and reads it again (`ScanAgain`) until it has withdrawn
something. A terminal that is done may run another command. Every transaction
is paid for from `celo`, the balance that `CheckCelo` looks at (`Charge`), unless
its gas costs nothing in CELO; `spent` and `gas` remember what was paid. A
command may be cut off after any step (`Break`).

### GovernanceQueue

`governance:upvote` checks the stage, reads the queue, decides which proposals
the dequeue concerns (`Consider`), sends the dequeue, computes the neighbours
(`UpvoteHint`) and sends the upvote. The contract dequeues first in every
transaction (`Popped`, `Dequeue`), which is what makes neighbours stale. The
queues to begin with are a constant (`Beginnings`). `BetweenTies` names the only
places that the contract turns back although they were computed a moment ago.

### ContractCache

A wrapper is the address it is for. `GetContract` is each cache's `getContract`
up to its first `await`, `Fetch` the answer of the Registry, `Instantiate` the
continuation of `Web3ContractCache.getContract` or of `setContract`, `Wrap` the
end of `WrapperCache.getContract`, `Reread` that of
`MiniContractCache.getContract`, which returns what the cache holds by then.

### Approvals

`goal` is what each owner's command is to bring about: the approval of a
proposal or of a hotfix, or the withdrawal of a refunded deposit. On the
multisig path a command sends the dequeue (`SendDequeue`), runs its checks
(`RunChecks`), reads the index of the proposal (`DequeueIndex`), reads the number
of transactions and scans them from the latest to the first, one read each
(`submitOrConfirmTransaction`), and then confirms the match or submits a new
transaction. On the Safe path it makes the hash with the nonce of that moment,
approves it, makes it again and asks who approved, and executes. An entry of the
dequeue that has become free is given to another proposal, other owners'
transactions use up nonces, and one command may be cut off.

### TxEncoding and Wallet

A transaction is a record of integers, an RLP list a sequence, and a signature
the pair of who signed what, with the parity bit that gives the signer back.
`TypeOf` and what follows it is `encodeTransaction` and `determineTXType`: which
fields are looked at, in which order, what is encoded where, and what
`recoverTransaction` makes of it. `Wallet` adds the life of the object:
`CallInit`, `LoadKey`/`DeriveAddress`, `LoadDone`, `LoadFails` and `Poll` are
`RemoteWallet.init` with its two flags; `SignTransaction` signs with a local
key, a store that returns either of two signatures, or a ledger with one of two
applications.

### Epochs

A command of `celocli epochs` goes through the reads of its own `run` and of
`EpochManagerWrapper` one by one: the number of the current epoch
(`ReadCurrentEpoch`), the events since then (`ReadGroups`), votes and rewards.
`GroupsToProcess` and `LessersAndGreaters` are what the wrapper computes, and
`Pay` lets the contract apply them group after group. The voter's
`election:vote` and `election:activate` interleave with it: with `--wait` the
latter reads the epoch, sleeps until it may end, and polls until somebody has
ended it.

### Validators

Each command runs its checks one by one (`RunCheck`), each on the chain of that
moment, lets the wrapper look up an index or neighbours (`BuildDeregister`,
`BuildAccept`, `ReadWeight`, `ReadHints`, `BuildReorder`) and sends. `Accepted`
and `Effect` are the contract, and `fresh` is whether nobody else has changed
anything since a command began. A user looks at the chain and runs the command
that comes next on the way to his goal (`Wants`); now and then he runs any other
one (`Stray`). Times are kept as ages up to one more than `Duration`, which is
all that the comparisons see.

### ReleaseGold

`c` is the contract with its account, a record of what the commands read. Each
person has one terminal (`run`), in which a command of one transaction checks
(`Simple`, and `CheckDollars` for the second look of `withdraw`) and sends
(`SendSimple`): the reads before a transaction that asks for all of it again are
one step. `admin-revoke` is `AdminStep`: every question, every amount that is
read and every transaction is a step, and one that reverts ends the command
(`SendNext`). `set-beneficiary` reads the beneficiary, scans the multisig and
submits or confirms, twice (`ReadCurrent`, `Scan`, `ConfirmOrSubmit`). The vote
signer, the queues of the governance, the schedule and whoever sends cUSD are
external, and so is the validator signer: a beneficiary may authorize one (role
validator), who may register the account and take it back (`Standing`), and a
registered one must keep `Requirement` locked (`Spares`). A vote is one CELO for
one group, which a transaction takes back whole; parts of it and neighbours are
in `VoteRevocation`. What happens after the contract is gone is not looked at.

### Futures

One loop or result of a chosen `kind` runs. `Try`, `Execute` and `Wake` are turns
of the event loop; `Value`, `Failure`, `Permanent`, `Nothing`, `Obtain`, `Hold` and
`Succeed` are the answers to what it called, and `Stop` and `Timeout` come from
outside at any moment. `Settle` is `Future.resolve` and `Future.reject`: only the
first counts. `handled` are the promises that somebody waits for. For a
`TransactionResult` web3 emits its events in every order it can (`Emits`), and what
`getHash` and `waitReceipt` do about them in the same turn is `HandlesToo`.

## 3. Runs

| Run | Instance | Shows |
|---|---|---|
| `Lock` | 4 callers, two of which re-enter | exclusion, no lost wakeup, refinement of `Mutex`, no starvation unless a holder blocks itself |
| `TxPipeline` | 3 sends, or 2 requests of both methods, on one provider; 2 requests and 2 providers of two chains, chain id or nonce given or not; every call may fail | refinement of `SendLedger`, which has consecutive nonces; locks come back and nothing is posted twice, also across a change of provider; every request settles |
| `VoteRevocation` | 3 groups, every distribution of up to 4 pending, active and other votes, every order of the lists, 1 step of others | exactness, fresh hints accepted, `Election.revoke` goes through |
| `LockedGold` | 2 terminals with two commands each, every sorted list of up to 3 pending withdrawals, 3 CELO, gas of 0 or 1 a transaction | never more than the amount, and exactly it but for what `relock` did not find in its first reading; while one terminal is used, a part is locked only because gas ran out; lock and unlock end |
| `GovernanceQueue` | every queue of up to 3 proposals with up to 2 upvotes, any of them expired, and queues of 5 in which one gets between two ties; dequeue due or not, 1 step of others or time | upvotes go through, and computed places are accepted, except exactly between ties |
| `ContractCache` | 3 overlapping calls for one contract, 2 addresses, both kits | the full kit returns what was asked; no failure is remembered |
| `Approvals` | 3 owners of whom 2 are enough, two proposals, or a hotfix and a withdrawal, multisig and Safe, one command cut off | only what enough owners asked for is approved; two transactions for one call only after a race of two scans; a Safe's approvals are counted; what enough owners ask for gets done |
| `Wallet` | 2 callers, 2 keys, all three kinds of wallet, 576 transactions on 4 chains, and old types | one load at a time, every `init` settles, signers are recovered and no field is lost, with the exceptions named in the properties |
| `Epochs` | 2 operators with different commands, or one and a voter; 3 groups, 3 accounts, 3 chains of votes and rewards; 2 epochs, one cut, one account that leaves | the groups left are exact, their neighbours fit one after the other, a started epoch ends, waiting for an epoch is enough |
| `Validators` | 6 plans for 2 validators and 2 groups beside 2 others: opening, joining without the gold, leaving, moving, closing, ordering; one mishap in the smaller ones | checks suffice but for a named list of rules, members come to the index asked, goals are reached |
| `ReleaseGold` | 3 scenarios of one contract of 3 CELO, of which a validator must keep 1, 2 groups, 1 cUSD, 2 heirs, 6 transactions of the multisig, one command cut off | no visible cUSD is lost with the contract, `admin-revoke` is turned back in four places only and gets to the end if it is repeated and the account is not a registered validator for good, the multisig follows the beneficiary |
| `Futures` | each retry, each task and a transaction result, up to 3 tries, promises waited for at once or later | stopped tasks stay stopped, no rejection without a handler, everything settles |

Why the bounds are enough. The lock's queue shows order with three waiters and a
holder. In the pipeline a third request sees the lock pass from a failed second
to it, and two requests with two providers show every pair of old and new
(`Plans`: three requests with both methods, or with a change of provider, add
nothing but states); the nonces are bounded by the number of requests. Sorted
lists: a moved element needs a neighbour on both sides and a tie, which three
elements give; that a place between two ties is turned back takes five
proposals; four votes let a value be less than the pending votes, equal to them,
and spread over both kinds. Withdrawals: three entries distinguish first, middle
and last when one takes the place of another; a second command in each terminal
meets what the first one left; with gas of 0 or 1 a balance of up to three is
enough, just enough or short for what is locked and what it costs. One step of others suffices to disturb a command
between any two of its steps; commands that must hold for any disturbance
(`RevokesExactly`, `LocksExactly`) are exercised at each point. `ContractCache`
has one contract because nothing relates two. Two owners who are enough out of
three leave one whose command comes too late. A wallet needs one caller that
loads and one that waits; two rounds of polling stand for ten (the second is one
that finds nothing new), 8 for the 2^31 of a shift and 100 for 2^53 (`SignBit`,
`MaxSafe`): chains and amounts lie on both sides of either. Two operators race
at every read; two epochs show that the first one's events are not taken for the
second's. Validators: of two that deregister one is the last entry, whose index
changes. The bounds `MaxVotes`, `MaxTotal`, `MaxNoise`, `MaxRuns`, `MaxUpvotes`,
`MaxTime`, `Total`, `MaxRefunds`, `MaxNonce`, `MaxEpoch`, `MaxLeaves`,
`MaxDollars`, `MaxTxs` and `mishaps` only limit the environment; in
`ReleaseGold` what no command of a scenario depends on stands still. Three tries
in `Futures` have a first, a middle and a last one; with none at all a retry
rejects without having called. Three CELO leave two to vote with, for two
groups, after the first vote signer has been funded: the second group's index is
then one that moves. In `Epochs` the rewards are the same in every epoch and the
elected accounts stay elected.

`SYMMETRY` is used over groups (`VoteRevocation`) and over callers and passed
addresses (`ContractCache`), in runs without liveness properties; nothing
distinguishes their members.

Deadlock is checked except in `Lock`, where re-entry really blocks, and in
`TxPipeline` and `Futures`, where everything may have settled. `ReleaseGold`
stops when the contract is gone or nobody is left who may do anything. Other
modules end with an explicit step that changes nothing (`Exit`, in `Validators`
`AtRest`) while nobody is in the middle of a command,
or never end.

### Fairness

- `Lock`: weak fairness of `Callback` (the emission is a synchronous loop) and
  of `Release` (the only user, `celo-provider.ts`, releases in `finally`).
  `NoStarvation` exempts the case that a holder blocks itself.
- `TxPipeline`: weak fairness of every step of a request that was made: the
  event loop runs what is ready, and every call is answered or its connection
  breaks. The second is an assumption about the node: the code sets no timeout,
  and a node that kept one connection open for ever would block every later send
  of that provider.
  Nothing is assumed about new requests, `setProvider`, `stop` or accounts.
- `LockedGold`: weak fairness of each terminal's steps (nodes answer) and of the
  clock. Nobody has to start a command.
- `Futures`: weak fairness of each turn of a loop and of the timer of a timeout, and
  of the answers where calls are `reliable`; `Settles` asks for no answer that is
  not reliable, nor for anybody to call `stop()`.
- `Wallet`: weak fairness of the steps of an `init` that was called: a store
  answers or fails, timers go off. Nobody has to call it.
- `Approvals`, `Epochs`, `Validators`: weak fairness of each owner's, operator's
  or user's own steps, *the start of his command included*, and of the clock in
  `Validators`. That somebody repeats his command until its aim is achieved is
  an assumption about people; without it nothing ends, since the code retries
  nothing. What is shown is that repeating is enough: no leftover of an earlier
  attempt, a race or a command that was cut off stands in the way.
- `ReleaseGold`: weak fairness of the owner's steps, *the start of `admin-revoke`
  included*, and of the end of an unlocking period; strong fairness of his
  collecting, since other commands of his may be running when something is due.
  Again an assumption about a person who repeats his command.

## 4. Proofs

`tlapm` checks, for every value of the constants:

| Theorem | Says |
|---|---|
| `BaseProofs!TypeCorrect` | `Spec => []TypeOK` |
| `BaseProofs!LockExcludes` | `Spec => []MutualExclusion` |
| `BaseProofs!LockWakes` | `Spec => []NoLostWakeup` |
| `BaseProofs!LockLeaksNothing` | `Spec => []NoListenerLeak`: the listeners of the emitter are those of the calls that wait |
| `BaseProofs!LockImplementsMutex` | `Spec => ImplementsMutex` |
| `ConnectProofs!TypeCorrect` | `Spec => []TypeOK`: with the types, that what is sent to a node has a chain id and a nonce |
| `ConnectProofs!LocksComeBack` | `Spec => []NoOrphanedLock` |
| `ConnectProofs!TransactionsSentOnce` | `Spec => []SentOnce` |
| `ConnectProofs!PipelineImplementsLedger` | `Spec => ImplementsLedger`: for any number of sends on one provider that leave the nonces to it |
| `SortedVotesProofs!HintsFit` | for every list without repetitions, whatever the votes and the weight, the neighbours computed are accepted by the contract |
| `ElectionProofs!HintsAlwaysFit` | `Spec => []FreshHintsAccepted` |
| `ElectionProofs!CommandsRevokeExactly` | `Spec => []RevokesExactly`: for any lists, votes and interference by others |
| `ElectionProofs!ElectionRevokeGoesThrough` | `Spec => []ElectionRevokeSucceeds` |
| `ConnectProofs!WalletLoadsOnce` | `WalletSpec => []LoadsOnce`: for any number of callers, at most one loads the accounts of a wallet, and nobody does once they are loaded |
| `ConnectProofs!SignersRecovered` | `WalletSpec => []RecoversSigner`: for any transaction, any key and any width of the shift |
| `ConnectProofs!NoFieldLost` | `WalletSpec => []FieldsSurvive`: for any combination of fields and any values |
| `ContractkitProofs!FullKitReturnsAsked` | `CacheSpec => []FullReturnsAsked` |
| `ContractkitProofs!OnlyRegisteredReturned` | `CacheSpec => []ReturnsRegistered` |
| `BaseProofs!RejectionsHandled` | `FuturesSpec => []NoUnhandledRejection` |
| `BaseProofs!TasksStayStopped` | `FuturesSpec => StaysStopped` |
| `ContractkitProofs!TypeCorrect` | `Spec => []TypeOK` |
| `ContractkitProofs!ApprovedWasAsked` | `Spec => []QuorumAsked`: for any owners and any threshold |
| `ContractkitProofs!ScanFindsPending` | `Spec => []OnePendingPerCall` |
| `ContractkitProofs!LastApprovalExecutes` | `Spec => []SafeSettled` |
| `LockedGoldProofs!TypesAndConservation` | `Spec => []TypeOK`: balance, gas paid, locked and pending withdrawals always sum to the same |
| `LockedGoldProofs!LockIsExact` | `Spec => []LocksExactly` |
| `LockedGoldProofs!LockStopsOnlyForGas` | `Spec => []LocksPartlyOnlyForGas` |
| `LockedGoldProofs!LockIsAllOrNothing` | `Fees \subseteq {0}` implies `Spec => []LockAllOrNothing`: gas that is paid for in another currency |
| `EpochQueueProofs!EpochsTypes` | `Spec => []TypeOK`: among the types, that the list of eligible groups stays sorted |
| `EpochQueueProofs!RemainingIsExact` | `Spec => []RemainingExact` |
| `EpochQueueProofs!PaysInOrder` | `Spec => []PaysWhenOrderKept`: for any groups, votes and rewards |
| `EpochQueueProofs!WaitingActivates` | `Spec => []ActivatesAfterWait` |
| `EpochQueueProofs!QueueTypes` | `QueueSpec => []QueueTypeOK`: the queue stays sorted, and the account's upvote is counted |
| `EpochQueueProofs!HintsFitUnlessBetweenTies` | `QueueSpec => []FreshHintsFit`: for any queue and any upvotes |
| `EpochQueueProofs!UpvotesGoThrough` | `QueueSpec => []UpvoteGoesThrough` |
| `ElectionProofs!ValidatorsTypes` | `ValidatorsSpec => []ValidatorsTypeOK` |
| `ElectionProofs!TransactionsGoThrough` | `ValidatorsSpec => ChecksSuffice` |
| `ElectionProofs!MembersComeToPlace` | `ValidatorsSpec => ReordersToPlace` |
| `ReleaseGoldProofs!TypeCorrect` | `Spec => []TypeOK`: no amount becomes negative |
| `ReleaseGoldProofs!NoVisibleDollarsLost` | `Spec => []NoDollarsLost` |
| `ReleaseGoldProofs!AdminRevokeGoesOn` | `Spec => []NeverTurnedBack` |
| `ReleaseGoldProofs!OwnershipFollows` | `Spec => []OwnerFollowsBeneficiary` |

*Lock.* `MutualExclusion` is not inductive: a callback sets the flag of its
caller without looking at who else holds the lock. What makes it safe is that
the flag is true exactly when somebody owns the lock, and that while the lock is
free the rest of the emission is the list of all listeners. `IInv` in `Lock`
says so, together with `TypeOK` and `NoListenerLeak`; every action preserves it,
and the four invariants follow. `NoLostWakeup` is its last conjunct at the end
of an emission. The refinement maps the time between `release` and the first
callback to a lock that the first listener holds already; each action is then a
step of `Mutex` or a stutter.

*Hints.* With the voted group taken out of the list, the lesser neighbour is the
first group that has no more votes than the new total, and everything before it
has more: the place in front of it is a place where the total fits, and the hint
names it. That argument needs neither the order of the list nor a bound, only
that no group is in it twice (removing one occurrence removes the group) and
that votes are numbers; both are `ListInv`, which every action preserves,
moving, removing and inserting included. That a list without a lesser neighbour
has a greater one, unless the group is alone, is the second half of the lemma.

*Revocation.* `RevokesExactly` holds at the end because of what holds on the way
(`OnCourse`): nothing is done for a group before its votes are read, and from
then on what is owed and what is built amount to what is due. Others cannot
disturb that, since all they do to the votes of the account is to move some of
them from pending to active (`AmountsOK` keeps the amounts numbers, `OneGroup`
the list of a command with a value to its group). `ElectionRevokeSucceeds` says
more: no transaction of `Election.revoke` is turned back while nobody else acts.
`Smooth` says why, for each group. The parts are of different kinds and the
account holds that much of each, every weight and every hint counts what is
revoked before it, and every index is the group's, because the account's list
names each group it has votes for once (`VotedInv`). The hint of the second
transaction is computed before the first is sent, which moves the group in the
list and changes its votes. The hint still fits: it is a place in the list
without the group, and neither that list nor the votes of its groups have
changed (`PutBack`, `SameRestAccepts`, `HintsStay`).

*Wallet.* What is needed beside the types is that the flag `setupLocked` is
exactly whether somebody loads, that no two do, and that the setup is finished
only by a load that has ended (`Exclusive`). A caller that starts to load has
seen both flags false, and the test and the assignment have no `await` between
them.

*Transactions.* Nothing that the wallet does later changes a signed transaction, so
what has to be shown is that each one is `WellFormed` when it is made: its items are
the fields of the type in its order, v is the parity or what the chain makes of it,
and the signature is for what `recoverTransaction` will hash. `KeySigns` and
`LedgerSigns` show it for the signers, the search of a key store for the parity
included, and `OldIsWellFormed` for the two older types, whose order only the recover
functions still know. The type is found again (`TypeFound`), each field is read from
where it was written (`FieldsRead`), and one that is given and has no place in the type
that was chosen is one of the two that the property names (`NothingDropped`, type by
type). The chain of a legacy transaction is hashed (`ChainIsHashed`), so its signer is
lost as soon as the shift does not give the chain back (`ShiftedBack`: exactly below
half of 2^31). Chain 0 is given back, but was hashed as 1.

*Caches.* Both properties follow from one invariant: every cache holds only what
the Registry or a caller gave for that contract (`CachesGood`), and a call that is
past the caches carries what it found itself (`CallGood`). The second is why an
overlapping call cannot change the answer of the full kit, which wraps the
instance it was handed; the mini cache reads its cache again, and gets the first
only.

*Futures.* A receipt that fails has a handler because nothing settles the receipt
before the hash (`HashFirst`: web3 tells of a receipt only after the hash, and an
error without a receipt settles both), and because whoever waits for the hash goes
on to the receipt in the turn in which the hash settles (`Awaited`). That a task
stays stopped needs that nothing but a task is stopped and that no step makes one
active again (`Halted`); a call that was under way ends, and is the last.

*Pipeline.* A lock is not orphaned because whoever is in the section holds the lock
of the provider he was given (`SectionHolds`), nobody waits twice, and only sends
get so far; `setProvider` between two steps is harmless to this since a request
keeps its provider. `SentOnce` needs the pools: what a node has taken was sent by
a request that is past the call (`PoolInv`), and a request reaches that call with no
other open (`CallsInv`). With the types goes that a request is signed and sent
only with both chain id and nonce: a field that is missing is being asked for.
That a node can always name a next nonce is a lemma of its own (`UnusedNonce`).
The refinement of `SendLedger` is proved for sends on one provider which leave
the nonce to it (`Alone`); a caller who brings his own nonce, or changes the
provider, may reuse one, and for these the run shows what remains.

*Approvals.* `QuorumAsked` follows from `OwnCalls`: nobody confirms, signs or
submits anything but the call his command is for, and what was executed had
enough of them. `OnePendingPerCall` needs two further facts: whoever has found
the dequeue index of a proposal found the same as everybody before him
(`OneIndexPerCall`, although entries are reused), and what a scan has passed is
not pending for its call unless two scanned at once (`ScanMissesNothing`). For
`SafeSettled`, a call that has its approvals has a command that is going to
execute it (`LastApproverExecutes`). An earlier form of this property was
refuted by its proof: a deposit that is refunded after a withdrawal makes
`Withdraw` worth doing again, and approvals that were given before it may be
enough by then, with all their commands ended. The property excepts that case;
repeating the command executes it, which `EventuallyDone` checks.

*ReleaseGold.* `NoDollarsLost` and `NeverTurnedBack` are about what a command
still knows after it has read it. `DollarsSeen` says that for the balance:
whoever has looked, and was not overtaken by an arrival, knows the cUSD there
is. `Revoking` lists for each step of `admin-revoke` what the earlier ones
achieved and nobody can undo (revoked, an account, signer rotated, no votes,
nothing upvoted), and that what is unlocked is still what was read; what a
registered validator must keep is not among it, which is the fourth place where
it is turned back; `Unvoted` is needed where the signer is still the contract,
and the steps that vote are skipped. `OwnerFollowsBeneficiary` is far from
inductive. As long as nothing was cut off, no two named a beneficiary at once
and one heir was named (`Calm`), at most one owner is in `set-beneficiary`, and
a change is in one of four stages: `NotBegun`, `HalfAsked`, `HalfDone`, `Done`
(`Handed`). Each step keeps the stage or goes on to the next.

*Locked gold.* What a lock does depends on a sum over the pending withdrawals
and on the transactions that `relock` makes of them, both of which are folds.
Induction over a list is replaced by induction over the number of its turns
(`UpTo`, `Iterated`): each sum is the one before and the next value (`SumsAre`),
and after k turns `relock` has taken as many withdrawals, from the end, and all
of each as long as something remains (`Turned`). The invariant `IInv` is five
things together: the types, with the sum of everything constant; what the step
of a command says of its operation (`Operations`); how much of a lock is done
and how much still to come, in each of its stages (`Progress`); that a terminal
that was not used is idle; and, while one terminal is used, that the balance and
the list are still those of its checks, less what it has sent itself and what
that has cost (`Alone`): a lock that stops after its first transaction could
afford what it sends without that gas, and cannot afford the next transaction
with it (`Affordable`, `PaidOut`). The first version of `LocksExactly` said that
a lock that ends well has locked its value. It was not inductive, and a second
command in each terminal showed why: section 5.

*Epochs.* The groups offered are right because the wrapper's difference of elected
accounts and events is exactly what the contract has left (`Left`). A waiting
activation knows that its epoch is over, and each group with votes that were pending
then is still to be activated, was activated or voted for again (`Waited`).
`PaysWhenOrderKept` needs that the list stays in order through everything that is
done to it (`Ordered`: payments with any neighbours, votes and accounts that
leave). If no reward changes the order, the list is its own ranking (`RankedIs`),
so that the wrapper names the two that are next to a group (`BesideAre`). After the
first n groups are paid the list is the one before with new votes for these
(`Settled`), and the next group stays between its neighbours (`StaysPut`,
`SettledNext`). That the epoch being ended is one whose time is over, and that
there is one after it, is what `Ending` adds for the types.

*Governance queue.* The contract keeps its queue sorted, no proposal in it twice and
the account's weight below the upvotes of its proposal (`ContractInv`), whatever is
upvoted, revoked, proposed, dequeued and expires. `sortedQueue` puts each proposal
at its rank (`SortedQueueIs`), so the neighbours are the last of those that come
before a place and the first of those that come after it, with each tie as it was.
`FitsUnlessTied` then says, of any such list, that one of the two names the place
unless both are on the far side of a tie, which is `BetweenTies`; it proves both
directions. This is what was found out of the earlier `FreshHintsAccepted`, of which
three proposals show no counterexample. `UpvoteGoesThrough` adds what the command
knows while nobody else acts (`Knows`).

*Validators.* `ChecksSuffice` says of every command that nothing else than what it
has checked and looked up can turn it back, but for the rules in `Unchecked`. As long
as a command is fresh, every check that passed would pass again and remember the same
(`ChecksHold`), time included: what is long ago stays so, and a queued commission
becomes due. What the wrapper looked up is right (`Prepared`): an index that still
holds the account, a size that still decides between first and other members, hints
that fit a group outside of the list (`HintsOfNewcomer`), and two neighbours between
which there is exactly one place, the index asked for (`NeighboursAre`, from which
`ReordersToPlace` follows as well). What holds of the contract is `RegistryInv`:
nobody is twice in a list of members, and the eligible groups are those that have
members.

The assumptions are those named in the modules (`CallersAssumption`,
`RevocationAssumption`, `PollsAssumption`, `PipelineAssumption`,
`OwnersAssumption`, `RequiredAssumption`, `CallsAssumption`, `BoundsAssumption`,
`GoalsAssumption`, `ReleaseGoldAssumption`, `WidthsAssumption`,
`SignersAssumption`, `TxsAssumption`, `OldTxsAssumption`, `CacheAssumption`,
`FuturesAssumption`, `LockedGoldAssumption`, `GovernanceAssumption`,
`EpochsAssumption`, `ValidatorsAssumption`): distinguished values are not
members of the sets they are distinguished from, plans, goals and scenarios are
of the right type, bounds and amounts are natural numbers, there is a chain to
begin with, transactions are records of integers or missing fields, and those of
older types have all their fields and a chain, the sets of groups and of owners
are finite, and the threshold of the owners is between one and their number, as
the contracts of both wallets demand. Chains, queues and plans to begin with are
such as the contracts keep them: lists are sorted where the contract sorts them
and repeat nobody, the elected accounts belong to eligible groups, and the
eligible groups of `Validators` are those with members.

Only model-checked: all liveness (`NoStarvation`, `EveryRequestAnswered`,
`LockAndUnlockEnd`, `EventuallyDone`, `InitSettles`, `StartedEpochEnds`,
`GoalsReached`, `Refunded`, `Settles`), which is out of the prover's reach.
Every other property of a run is a theorem.

## 5. Where code and comments disagree

Those marked with a name are stated as a
property in their module (`VIOLATED`) and fail there when they are added to its
configuration.

- `SignedForProvider` (`TxPipeline`): `TxParamsNormalizer` caches the chain id
  for ever, so what is sent after `setProvider` is signed for the old chain.
- `AllGroupsRevoked` (`VoteRevocation`): revoking all votes of all groups fails
  when a group that is emptied shifts the indexes of the next.
- `AllAvailableWithdrawn`, `WithdrawEnds` (`LockedGold`): the second of two
  available withdrawals is looked for at a shifted index; a `lockedcelo:withdraw`
  that finds nothing available never ends, because the time it compares with is
  read once.
- `LockAllOrNothing` (`LockedGold`): `hasEnoughCelo` (`lock.ts:55`) compares the
  balance with what is to be locked and keeps nothing for gas. With a balance that is
  just enough the relocks go through and the last lock is turned back.
- `RefundedWhateverItIs` (`ReleaseGold`): "Take all possible steps to revoke given
  contract instance." (`admin-revoke.ts:10`). `unlockAllGold` unlocks everything
  without a look at what a registered validator or group must keep, the contract
  turns it back, and nothing in the command deregisters: every repetition ends there.
- `LocksWhole` (`LockedGold`): "Ensure there are enough pending withdrawals to
  relock" (`LockedGold.ts:158`) compares the value with one reading of the list and
  relocks from another one; a `lockedcelo:lock` that ends well may have locked less
  than `--value` when another terminal unlocks in between.
- `FreshHintsAccepted` (`GovernanceQueue`): `sortedQueue` turns the queue around and
  leaves ties as they are. A proposal that gets between two ties (two with equally
  many upvotes next above it, two next below) is given the wrong one of each as its
  neighbours, and the contract turns the upvote back.
- `NoNeedToUpvote` (`GovernanceQueue`): "Proposal was dequeued, no need to
  upvote it" is said although no dequeue was due.
- `WaitsForPending` (`Epochs`): `getGroupsWithPendingVotes` keeps the groups
  with `pendingVotes >= 0`, which are all that were ever voted for; a voter
  without pending votes waits for the epoch and is not told that there are none.
- `FreshFinishAccepted` (`Epochs`): `getLessersAndGreaters` drops the sum that
  `votes.plus(reward)` returns, and offers groups that are not eligible as
  neighbours; a `finish` with fresh neighbours is reverted when a reward lets one
  group overtake another.

- `TimeoutEndsCalls` (`Futures`): "Terminates any ongoing request when the timeout is
  reached" (`async.ts:100`); the call goes on, and so do the retries.

Others have no property:

- `meetsValidatorBalanceRequirements` and its sister for groups compare the
  locked gold with `requirements[1]`, the duration, instead of the value. The
  check "has enough locked celo for registration" passes for anybody with some
  dust (`Passes`, `Unchecked` in `Validators`).
- `validator:register` sends two transactions and cannot be run again when it
  was cut off between them, since the account is a validator by then: its
  encryption key stays unset.
- `validatorgroup:deregister` does not check that the group is empty, and
  `member --accept` neither that the validator is affiliated nor that the group has
  room (`maxGroupSize`) and the gold for one more; the contract reverts.
  A validator whose group is gone cannot pass the checks of
  `validator:deregister` before it deaffiliates.
- `ReleaseGold.revoke` computes the neighbours for the active part as if the
  pending part were still counted; the second transaction reverts if another
  group lies in between. `Election.revoke` does it right, which
  `ElectionRevokeSucceeds` checks.
- `Connection._chainID` can be overwritten by an answer of the old provider that
  arrives after `setProvider`. After `setProvider`, a send in flight on the old
  provider and one on the new use the same rpc caller under different locks.
- `LockedGold.relock` throws on a list that a withdrawal has left unsorted.
- `upvote.ts:76` compares two `BigNumber` objects with `!==`; the loop ends
  after one turn. `revokeUpvote` fails when a dequeue is due and removes a
  neighbour.
- `MiniContractCache.getContract` with an address may return the wrapper for the
  address of an overlapping call.
- Two owners who run the same multisig command at once both submit, and
  `governance:show` shows the confirmations of one of the two transactions only.
- `getVoteRecord` of a voter takes the dequeue index of a proposal although the
  entry may belong to another one by then.
- While groups are processed individually, `epochs:finish` says that the process
  has not been started, and `epochs:switch` tries to start it and is reverted.
  One elected account without a group makes `epochs:start` abort.
- `election:activate` does not show the hashes of the transactions it has sent
  when a later simulation fails.
- A legacy transaction of chain 0 is signed as one of chain 1 with the `v` of
  chain 0; legacy transactions of chains from 2^30 on are not recovered, because
  the chain is taken out of `v` with `>>`. `maxFeeInFeeCurrency` without fee
  currency, and an access list beside a gas price, are dropped without an error.
  The `tx` that `encodeTransaction` returns for cip66 lacks its fee fields. The
  ledger says that it signs "only eip1559 and cip64", and signs cip66 as well.
- Callers who wait for an `init` that has failed go on polling until their time
  is over.
- `releasecelo:set-beneficiary`: "Once both addresses call this command with the
  same parameters, the tx will execute." Of the two transactions one may not: when
  two run it at once, or one is cut off between its transactions, the beneficiary
  changes and the multisig keeps the old one; running it again asks to replace the
  new beneficiary by himself. `OwnerFollowsBeneficiary` (`ReleaseGold`) excepts
  these cases.
- `releasecelo:refund-and-finalize` does not look whether the contract holds cUSD,
  as `withdraw` and `admin-revoke` do. `withdraw` does not check what has been
  released. `admin-revoke` does not check that the contract is revocable.
- `governance.isVotingReferendum` is true of everybody while the dequeue has an
  entry: `getVoteRecord` returns a record, of no votes, also for a proposal that was
  not voted for. `admin-revoke` then sends a `revokeVotes` that revokes nothing.
- `Governance.getProposalStage` looks a proposal up in the queue by comparing
  `BigNumber` objects with `===`, finds none, and leaves the answer to the contract:
  the branch that asks whether a queued proposal has expired is never taken.

## 6. Not modelled

Inside the modelled components: `concurrentMap`; message and typed data signing and the
formatters of `sdk/connect`; delegation and slashing of locked CELO; displays;
`addressMapping`; slashing, scores and epoch payments of validators;
the commands of ReleaseGold that set a limit or a name, and signers for
attestations; of `releasecelo:locked-gold` the `lock` action after its checks, which
relocks, asks whether to go on and locks (`LockedGold` has the same transactions
without the question);
`governance:propose` through a multisig, which is `Approvals` without checks;
`ElectionWrapper.activate`, which filters and builds the same calls as the viem
version that is modelled.

Components without a module (each has a row with its reason): the referendum
(voting and executing: its index and stage problems are those of `Approvals`,
one transaction without neighbours); the base command; everything that parses,
formats, prints, or forwards one call.

The contracts themselves are external and appear only as far as the client
depends on them; gas, fees and prices are one answer that may fail.

## 7. Plan

1. A module for the referendum on the same external contract as `Approvals`, and
   with it what `Governance.getVoteRecord` tells other commands.
2. `Connection`'s cached chain id together with the hardware wallets that read it.
