----------------------------- MODULE ReleaseGold -----------------------------
(***************************************************************************)
(* The life of a ReleaseGold contract in the hands of those who hold its   *)
(* keys: the release owner, the beneficiary and his heirs each run         *)
(* releasecelo commands in a terminal of their own.  A command reads,      *)
(* checks and sends, and the chain moves in between.  The contract, its    *)
(* account and the multisig that owns it are modelled from their use.      *)
(***************************************************************************)
EXTENDS Naturals, Sequences, SequencesExt, FiniteSets
CONSTANTS
  Owner,       \* releaseOwner
  Holder,      \* the beneficiary to begin with
  Heirs,       \* who may be made beneficiary after him
  Groups,      \* validator groups
  Contract,    \* the contract itself, as its own vote signer
  Scenarios,   \* who runs which commands
  Requirement, \* external: locked gold that a registered validator must keep
  Total,       \* CELO of the contract to begin with
  MaxDollars,  \* bound: cUSD that is ever sent to it
  MaxTxs       \* bound: transactions of the multisig

People == {Owner, Holder} \cup Heirs

ASSUME ReleaseGoldAssumption ==
  /\ Owner # Holder /\ {Owner, Holder} \cap Heirs = {}
  /\ Contract \notin People /\ "voter" \notin People \cup {Contract}
  /\ Scenarios \subseteq [People -> SUBSET STRING]
  /\ {Total, MaxDollars, MaxTxs} \subseteq Nat /\ Requirement \in Nat \ {0}

VARIABLES
  scenario,   \* the commands each person runs
  c,          \* the contract and its account, external
  owners,     \* of the multisig, external; two of them are enough
  txs,        \* its transactions, external
  run,        \* the command in each terminal
  failed,     \* the step at which admin-revoke was last turned back
  cut, raced, named   \* history of set-beneficiary: one was cut off, two ran
                      \* at once, the beneficiaries that were named
multisig == <<owners, txs>>
history == <<cut, raced, named>>
vars == <<scenario, c, multisig, run, failed, history>>

Idle == [op |-> "none", pc |-> "idle", as |-> Contract, heir |-> Contract,
         old |-> Contract, value |-> 0, at |-> 0, txos |-> <<>>, late |-> FALSE]

Go(p, pc) == run' = [run EXCEPT ![p].pc = pc]
End(p) == run' = [run EXCEPT ![p] = Idle]
At(p, pc) == c.alive /\ run[p].pc = pc
Looking == UNCHANGED <<scenario, c, multisig, failed, history>>

\* released is what the schedule lets go, withdrawn totalWithdrawn; CELO is in the
\* contract, locked, being unlocked, or unlocked and not collected; received is the
\* cUSD that ever came.  votes are the groups its account votes for, with one CELO
\* each, in the order of the contract; signer is Contract, Owner, or "voter" for a
\* key that the beneficiary has authorized; standing is "key" when it has a validator
\* signer, which may have "registered" it as a validator or group; ended is the command
\* that destroyed it.
Init ==
  /\ scenario \in Scenarios
  /\ c \in [alive : {TRUE}, ended : {"no"}, beneficiary : {Holder},
            revocable : BOOLEAN, revoked : {FALSE},
            released : {0}, withdrawn : {0},
            celo : {Total}, locked : {0}, pending : {0}, matured : {0},
            dollars : {0}, received : {0},
            isAccount : {FALSE}, signer : {Contract}, standing : {"no"}, votes : {<<>>},
            upvoting : {FALSE}, balloting : {FALSE}]
  /\ owners = {Owner, Holder} /\ txs = <<>>
  /\ run = [p \in People |-> Idle] /\ failed = "none"
  /\ cut = FALSE /\ raced = FALSE /\ named = {}

-----------------------------------------------------------------------------
(* External: the contract.                                                 *)

LockedBalance == c.locked + c.pending + c.matured
IsVoting == c.upvoting \/ c.balloting

\* The releaseOwner when it is revoked, the beneficiary before.
Proper == IF c.revoked THEN Owner ELSE c.beneficiary

\* The first vote signer, and the first validator signer, are funded from the contract.
FirstSigner == c.signer = Contract
FirstValidatorSigner == c.standing = "no"
MayFund == c.celo > 0 /\ c.celo + LockedBalance > 1

\* What getAccountLockedGoldRequirement leaves of it.
Required == IF c.standing = "registered" THEN Requirement ELSE 0
Spares(value) == Required = 0 \/ value + Required <= c.locked

\* What the contract asks of a transaction of p, by command.
Accepts(p, op, value) ==
  CASE op = "create-account" -> ~c.revoked /\ p = c.beneficiary /\ ~c.isAccount
    [] op = "authorize" ->
         p = Proper /\ c.isAccount /\ (FirstSigner => MayFund)
    [] op = "authorize-validator" ->
         p = Proper /\ c.isAccount /\ (FirstValidatorSigner => MayFund)
    [] op = "lock" ->
         ~c.revoked /\ p = c.beneficiary /\ c.isAccount /\ value <= c.celo
    [] op = "unlock" ->
         /\ p = Proper /\ c.isAccount /\ ~IsVoting
         /\ value + Len(c.votes) <= c.locked /\ Spares(value)
    [] op = "collect" -> p = Proper /\ c.matured > 0
    [] op = "transfer-dollars" -> p = Proper /\ value <= c.dollars
    [] op = "withdraw" ->
         p = c.beneficiary /\ value <= c.celo /\ c.withdrawn + value <= c.released
    [] op = "revoke" -> p = Owner /\ c.revocable /\ ~c.revoked
    [] op = "refund-and-finalize" -> p = Owner /\ c.revoked /\ LockedBalance = 0

\* By r, which may not have seen all: cUSD came after its look, or it withdraws
\* what was less than the whole at the time.
Destroyed(r) ==
  LET unseen == r.late \/ (r.op = "withdraw" /\ r.value # r.at)
  IN [c EXCEPT !.alive = FALSE, !.celo = 0,
               !.ended = IF unseen THEN "unseen" ELSE r.op]

\* What an accepted transaction leaves.
Effect(p, op, value) ==
  CASE op = "create-account" -> [c EXCEPT !.isAccount = TRUE]
    [] op = "authorize" ->
         [c EXCEPT !.signer = IF p = Owner THEN Owner ELSE "voter",
                   !.celo = IF FirstSigner THEN @ - 1 ELSE @]
    [] op = "authorize-validator" ->
         [c EXCEPT !.standing = IF FirstValidatorSigner THEN "key" ELSE @,
                   !.celo = IF FirstValidatorSigner THEN @ - 1 ELSE @]
    [] op = "lock" -> [c EXCEPT !.celo = @ - value, !.locked = @ + value]
    [] op = "unlock" -> [c EXCEPT !.locked = @ - value, !.pending = @ + value]
    [] op = "collect" -> [c EXCEPT !.celo = @ + c.matured, !.matured = 0]
    [] op = "transfer-dollars" -> [c EXCEPT !.dollars = @ - value]
    [] op = "withdraw" ->
         IF value = c.celo + LockedBalance THEN Destroyed(run[p])
         ELSE [c EXCEPT !.celo = @ - value, !.withdrawn = @ + value]
    [] op = "revoke" -> [c EXCEPT !.revoked = TRUE]
    [] op = "refund-and-finalize" -> Destroyed(run[p])

-----------------------------------------------------------------------------
(* Commands of one transaction.                                            *)

CreateAccountChecks == ~c.isAccount /\ ~c.revoked
\* For --role validator also isNotValidator, unless --force is given.
AuthorizeChecks == c.isAccount
LockChecks(value) == c.isAccount /\ ~c.revoked /\ value <= c.celo
UnlockChecks(value) ==
  c.isAccount /\ ~IsVoting /\ Spares(value) /\ value + Len(c.votes) <= c.locked
CollectChecks == c.isAccount
DollarsChecks(value) == value <= c.dollars
\* The liquidity provision is met and maxDistribution is the whole.
WithdrawChecks(value) == value <= c.celo
RevokeChecks == ~c.revoked /\ c.revocable
FinalizeChecks == c.revoked /\ LockedBalance = 0

Checks(op, value) ==
  CASE op = "create-account" -> CreateAccountChecks
    [] op \in {"authorize", "authorize-validator"} -> AuthorizeChecks
    [] op = "lock" -> LockChecks(value)
    [] op = "unlock" -> UnlockChecks(value)
    [] op = "collect" -> CollectChecks
    [] op = "transfer-dollars" -> DollarsChecks(value)
    [] op = "withdraw" -> WithdrawChecks(value)
    [] op = "revoke" -> RevokeChecks
    [] op = "refund-and-finalize" -> FinalizeChecks

ByOwner == {"revoke", "refund-and-finalize"}
ByBeneficiary == {"create-account", "lock", "withdraw"}
ByEither == {"authorize", "authorize-validator", "unlock", "collect", "transfer-dollars"}
WithValue == {"lock", "unlock", "transfer-dollars", "withdraw"}

\* kit.defaultAccount.
From(op) == IF op \in ByOwner \/ (op \in ByEither /\ c.revoked) THEN Owner
            ELSE c.beneficiary

\* The checks hold and p has the key that is to sign: a command is read in one step, for
\* its transaction asks for all of it again; only what withdraw finds out about cUSD is
\* asked by nobody else, and is a step of its own.  Relocking is in LockedGold: who locks
\* has nothing pending.  Who collects before anything is due is left out: his command does
\* not end.
Simple(p, op, value) ==
  /\ c.alive /\ run[p].pc = "idle" /\ op \in scenario[p]
  /\ op = "lock" => c.pending + c.matured = 0
  /\ op = "collect" => c.matured > 0
  /\ Checks(op, value) /\ From(op) = p
  /\ run' = [run EXCEPT ![p] =
       [Idle EXCEPT !.op = op, !.value = value, !.at = c.celo,
                    !.pc = IF op = "withdraw" THEN "dollars?" ELSE "send"]]
  /\ Looking

\* MUTANT of LeavesDollars: nobody looks.
LeavesDollarsNever(r) == FALSE

\* "Contract would self-destruct with cUSD left when withdrawing the whole
\* balance".
LeavesDollars(r) == r.value = r.at /\ c.dollars > 0

CheckDollars(p) ==
  /\ At(p, "dollars?") /\ run[p].op = "withdraw"
  /\ IF LeavesDollars(run[p]) THEN End(p) ELSE Go(p, "send")
  /\ Looking

\* displaySendTx: it goes through or throws, and the command ends.
SendSimple(p) ==
  /\ At(p, "send")
  /\ c' = IF Accepts(p, run[p].op, run[p].value)
          THEN Effect(p, run[p].op, run[p].value) ELSE c
  /\ End(p)
  /\ UNCHANGED <<scenario, multisig, failed, history>>

-----------------------------------------------------------------------------
(* releasecelo:admin-revoke, step by step.                                 *)

StartAdminRevoke ==
  /\ c.alive /\ run[Owner].pc = "idle" /\ "admin-revoke" \in scenario[Owner]
  /\ run' = [run EXCEPT ![Owner] = [Idle EXCEPT !.op = "admin-revoke",
                                                !.pc = "revoked?"]]
  /\ Looking

\* A question, and where the command goes on.
Ask(pc, yes, then, else) ==
  At(Owner, pc) /\ Go(Owner, IF yes THEN then ELSE else) /\ Looking

\* What a transaction needs and leaves; displaySendTx throws when it reverts.
SendNext(pc, ok, after, next) ==
  /\ At(Owner, pc)
  /\ IF ok THEN c' = after /\ Go(Owner, next) /\ UNCHANGED failed
     ELSE UNCHANGED c /\ End(Owner) /\ failed' = pc
  /\ UNCHANGED <<scenario, multisig, history>>

SendAs(pc, op, value, next) ==
  SendNext(pc, Accepts(Owner, op, value), Effect(Owner, op, value), next)

\* MUTANT of RotateSigner: the signer stays.
RotateSignerNever ==
  /\ At(Owner, "signer?")
  /\ run' = [run EXCEPT ![Owner].pc = "votes?",
                        ![Owner].as = IF FirstSigner THEN Contract ELSE Owner]
  /\ Looking

\* What the account signs is signed by voteSigner from here on.
RotateSigner ==
  /\ At(Owner, "signer?")
  /\ run' = [run EXCEPT ![Owner].pc = IF FirstSigner THEN "votes?" ELSE "rotate",
                        ![Owner].as = IF FirstSigner THEN Contract ELSE Owner]
  /\ Looking

\* MUTANT of GroupIndex: one too many.
GroupIndexPlusOne(i) == i + 1

GroupIndex(i) == i

\* revokeAllVotesForAllGroups: every transaction is built with the place that its
\* group has now.
BuildElection ==
  /\ At(Owner, "build")
  /\ run' = [run EXCEPT ![Owner].pc = IF c.votes = <<>> THEN "governance?" ELSE "election",
               ![Owner].txos = [i \in DOMAIN c.votes |-> [group |-> c.votes[i],
                                                          index |-> GroupIndex(i)]]]
  /\ Looking

\* External: the last group takes the place of one that is left without votes.
WithoutGroup(i) ==
  SubSeq([c.votes EXCEPT ![i] = Last(c.votes)], 1, Len(c.votes) - 1)

SendElection ==
  /\ At(Owner, "election")
  /\ LET t == Head(run[Owner].txos)
         rest == Tail(run[Owner].txos)
         ok == /\ run[Owner].as = Owner /\ c.revoked
               /\ t.index \in DOMAIN c.votes /\ c.votes[t.index] = t.group
     IN IF ok
        THEN /\ c' = [c EXCEPT !.votes = WithoutGroup(t.index)]
             /\ run' = [run EXCEPT ![Owner].txos = rest,
                          ![Owner].pc = IF rest = <<>> THEN "governance?" ELSE @]
             /\ UNCHANGED failed
        ELSE UNCHANGED c /\ End(Owner) /\ failed' = "election"
  /\ UNCHANGED <<scenario, multisig, history>>

\* governance.revokeUpvote and .revokeVotes.
SendUpvote == SendNext("upvote", run[Owner].as = c.signer /\ c.upvoting,
                       [c EXCEPT !.upvoting = FALSE], "referendum?")
SendBallots == SendNext("ballots", run[Owner].as = c.signer,
                        [c EXCEPT !.balloting = FALSE], "locked?")

\* isVotingReferendum: getVoteRecords has a record for every entry of the dequeue,
\* voted for or not, so that an entry is enough.
AskReferendum ==
  \E entries \in BOOLEAN :
    /\ c.balloting => entries
    /\ Ask("referendum?", entries, "ballots", "locked?")

\* unlockAllGold and rescueCUSD: an amount is read, then sent.
ReadLocked ==
  /\ At(Owner, "locked?")
  /\ run' = [run EXCEPT ![Owner].value = c.locked, ![Owner].pc = "unlock"]
  /\ Looking

ReadDollars ==
  /\ At(Owner, "dollars?") /\ run[Owner].op = "admin-revoke"
  /\ run' = [run EXCEPT ![Owner].value = c.dollars,
                        ![Owner].pc = IF c.dollars > 0 THEN "rescue" ELSE "remaining?"]
  /\ Looking

\* The rest of the money cannot be had yet: its list is printed.
NotYet == At(Owner, "print") /\ End(Owner) /\ Looking

Refund ==
  /\ At(Owner, "refund")
  /\ IF Accepts(Owner, "refund-and-finalize", 0)
     THEN c' = Effect(Owner, "refund-and-finalize", 0) /\ UNCHANGED failed
     ELSE UNCHANGED c /\ failed' = "refund"
  /\ End(Owner) /\ UNCHANGED <<scenario, multisig, history>>

AdminStep ==
  \/ Ask("revoked?", c.revoked, "account?", "revoke")
  \/ SendAs("revoke", "revoke", 0, "account?")
  \/ Ask("account?", c.isAccount, "signer?", "dollars?")
  \/ RotateSigner
  \/ SendAs("rotate", "authorize", 0, "votes?")
  \/ Ask("votes?", c.votes # <<>>, "build", "governance?")
  \/ BuildElection
  \/ SendElection
  \/ Ask("governance?", IsVoting, "upvoting?", "locked?")
  \/ Ask("upvoting?", c.upvoting, "upvote", "referendum?")
  \/ SendUpvote
  \/ AskReferendum
  \/ SendBallots
  \/ ReadLocked
  \/ SendAs("unlock", "unlock", run[Owner].value, "dollars?")
  \/ ReadDollars
  \/ SendAs("rescue", "transfer-dollars", run[Owner].value, "remaining?")
  \/ Ask("remaining?", LockedBalance = 0, "refund", "print")
  \/ Refund
  \/ NotYet

-----------------------------------------------------------------------------
(* releasecelo:set-beneficiary.                                            *)

Naming == {p \in People : run[p].op = "set-beneficiary"}

StartNaming(p, heir) ==
  /\ c.alive /\ run[p].pc = "idle" /\ "set-beneficiary" \in scenario[p]
  /\ p \in owners
  /\ Len(txs) + 2 * Cardinality(Naming) + 2 <= MaxTxs
  /\ run' = [run EXCEPT ![p] = [Idle EXCEPT !.op = "set-beneficiary",
                                            !.pc = "current?", !.heir = heir]]
  /\ raced' = (raced \/ Naming # {}) /\ named' = named \cup {heir}
  /\ UNCHANGED <<scenario, c, multisig, failed, cut>>

ReadCurrent(p) ==
  /\ At(p, "current?")
  /\ run' = [run EXCEPT ![p].old = c.beneficiary, ![p].pc = "scan-set"]
  /\ Looking

SetCall(r) == [do |-> "set", old |-> Contract, new |-> r.heir]

\* MUTANT of ReplaceCall: the beneficiary is read after he has changed.
ReplaceCallLate(r) == [do |-> "replace", old |-> c.beneficiary, new |-> r.heir]

ReplaceCall(r) == [do |-> "replace", old |-> r.old, new |-> r.heir]

Call(r) == IF r.pc \in {"scan-set", "send-set"} THEN SetCall(r) ELSE ReplaceCall(r)

\* submitOrConfirmTransaction: the latest that matches and is not executed; 0 is
\* for submitTransaction.
Matching(call) ==
  LET found == {i \in DOMAIN txs : txs[i].call = call /\ ~txs[i].executed}
  IN IF found = {} THEN 0 ELSE CHOOSE i \in found : \A j \in found : j <= i

Scan(p) ==
  /\ c.alive /\ run[p].pc \in {"scan-set", "scan-replace"}
  /\ run' = [run EXCEPT ![p].at = Matching(Call(run[p])),
       ![p].pc = IF @ = "scan-set" THEN "send-set" ELSE "send-replace"]
  /\ Looking

\* External: the transaction with p's confirmation; executed with two of them.
Confirmed(p, i, call) ==
  LET by == {p} \cup (IF i \in DOMAIN txs THEN txs[i].by ELSE {})
      tx == [call |-> call, by |-> by, executed |-> Cardinality(by \cap owners) >= 2]
  IN IF i \in DOMAIN txs THEN [txs EXCEPT ![i] = tx] ELSE Append(txs, tx)

\* The multisig takes the confirmation, and what it executes does not revert.
MayConfirm(p, i, call, next) ==
  /\ p \in owners
  /\ i \in DOMAIN txs => ~txs[i].executed /\ p \notin txs[i].by
  /\ (next[i].executed /\ call.do = "replace") =>
       call.old \in owners /\ call.new \notin owners

ConfirmOrSubmit(p) ==
  /\ c.alive /\ run[p].pc \in {"send-set", "send-replace"}
  /\ LET r == run[p]
         call == Call(r)
         i == IF r.at = 0 THEN Len(txs) + 1 ELSE r.at
         next == Confirmed(p, i, call)
     IN IF MayConfirm(p, i, call, next)
        THEN /\ txs' = next
             /\ c' = IF next[i].executed /\ call.do = "set"
                     THEN [c EXCEPT !.beneficiary = call.new] ELSE c
             /\ owners' = IF next[i].executed /\ call.do = "replace"
                          THEN (owners \ {call.old}) \cup {call.new} ELSE owners
             /\ IF r.pc = "send-set" THEN Go(p, "scan-replace") ELSE End(p)
        ELSE End(p) /\ UNCHANGED <<c, multisig>>
  /\ UNCHANGED <<scenario, failed, history>>

-----------------------------------------------------------------------------
(* Everything else.                                                        *)

\* Bound: what no command of the scenario depends on stands still.
Used(ops) == \E p \in People : scenario[p] \cap ops # {}

\* External: the schedule, the end of an unlocking period, cUSD from whoever sends it.
Release ==
  /\ c.alive /\ ~c.revoked /\ Used({"withdraw"}) /\ c.released < Total
  /\ c' = [c EXCEPT !.released = @ + 1]
  /\ UNCHANGED <<scenario, multisig, run, failed, history>>

Mature ==
  /\ c.alive /\ c.pending > 0
  /\ c' = [c EXCEPT !.matured = @ + c.pending, !.pending = 0]
  /\ UNCHANGED <<scenario, multisig, run, failed, history>>

HasLooked(r) == \/ r.op = "withdraw" /\ r.pc = "send"
                \/ r.op = "admin-revoke"
                     /\ r.pc \in {"rescue", "remaining?", "refund"}

Arrive ==
  /\ c.alive /\ c.received < MaxDollars /\ Used({"withdraw", "admin-revoke"})
  /\ c' = [c EXCEPT !.dollars = @ + 1, !.received = @ + 1]
  /\ run' = [p \in People |-> [run[p] EXCEPT !.late = @ \/ HasLooked(run[p])]]
  /\ UNCHANGED <<scenario, multisig, failed, history>>

\* External: the validator signer registers the account, and takes it back.
Standing ==
  /\ c.alive
  /\ \/ /\ c.standing = "key" /\ Requirement <= c.locked
        /\ c' = [c EXCEPT !.standing = "registered"]
     \/ c.standing = "registered" /\ c' = [c EXCEPT !.standing = "key"]
  /\ UNCHANGED <<scenario, multisig, run, failed, history>>

\* External: the vote signer votes, queues move and referendums end.
Voter ==
  /\ c.alive /\ c.signer = "voter" /\ c.locked > 0
  /\ \/ \E g \in Groups : /\ Len(c.votes) < c.locked /\ ~Contains(c.votes, g)
                          /\ c' = [c EXCEPT !.votes = Append(@, g)]
     \/ ~c.upvoting /\ c' = [c EXCEPT !.upvoting = TRUE]
     \/ ~c.balloting /\ c' = [c EXCEPT !.balloting = TRUE]
  /\ UNCHANGED <<scenario, multisig, run, failed, history>>

Proposals ==
  /\ c.alive
  /\ \/ c.upvoting /\ c' = [c EXCEPT !.upvoting = FALSE]
     \/ c.balloting /\ c' = [c EXCEPT !.balloting = FALSE]
  /\ UNCHANGED <<scenario, multisig, run, failed, history>>

\* A terminal is closed; once.
Cut(p) ==
  /\ c.alive /\ ~cut /\ run[p].pc # "idle"
  /\ End(p) /\ cut' = TRUE
  /\ UNCHANGED <<scenario, c, multisig, failed, raced, named>>

Values(op) == IF op \in WithValue THEN 1..(Total + MaxDollars) ELSE {0}

StartSimple(p) == \E op \in ByOwner \cup ByBeneficiary \cup ByEither :
                    \E value \in Values(op) : Simple(p, op, value)

Next ==
  \/ StartAdminRevoke \/ AdminStep
  \/ \E p \in People :
       \/ StartSimple(p) \/ CheckDollars(p) \/ SendSimple(p)
       \/ \E heir \in Heirs : StartNaming(p, heir)
       \/ ReadCurrent(p) \/ Scan(p) \/ ConfirmOrSubmit(p) \/ Cut(p)
  \/ Release \/ Mature \/ Arrive \/ Standing \/ Voter \/ Proposals

Spec == Init /\ [][Next]_vars

\* The owner goes on with what he has begun, starts again, and collects what is
\* due; time passes.
FairSpec ==
  /\ Spec
  /\ WF_vars(StartAdminRevoke) /\ WF_vars(AdminStep) /\ WF_vars(SendSimple(Owner))
  /\ SF_vars(Simple(Owner, "collect", 0)) /\ WF_vars(Mature)

-----------------------------------------------------------------------------

\* releasecelo:withdraw and :admin-revoke destroy no contract that holds cUSD,
\* except for what they could not see any more: cUSD that arrived after they
\* looked, or CELO that left after they did.  refund-and-finalize does not look.
NoDollarsLost ==
  (~c.alive /\ c.dollars > 0) => c.ended \in {"unseen", "refund-and-finalize"}

\* Whatever the beneficiary, the signers and the queues do in between,
\* releasecelo:admin-revoke is turned back in four places only: at the
\* revocation, at an index that its own transactions have moved, at an upvote
\* that a dequeue has ended, and when it unlocks what a registered validator
\* must keep: of any other account the contract unlocks what was read.
NeverTurnedBack ==
  /\ failed \in {"none", "revoke", "election", "upvote", "unlock"}
  /\ At(Owner, "unlock") /\ c.standing # "registered" =>
       Accepts(Owner, "unlock", run[Owner].value)

\* set-beneficiary changes the beneficiary and the owner of the multisig in two
\* transactions.  When nobody is in the middle of it they agree, unless a command
\* was cut off, two ran at once or different heirs were named.
OwnerFollowsBeneficiary ==
  (Naming = {} /\ ~cut /\ ~raced /\ Cardinality(named) < 2) =>
    c.beneficiary \in owners

\* An owner who repeats admin-revoke, and collects what has become due, gets the
\* contract refunded in the end, whatever was locked or voted for and wherever an
\* attempt was turned back, if it is no registered validator from some time on.
Refunded ==
  <>[](c.standing # "registered") =>
    ((c.revoked /\ {"admin-revoke", "collect"} \subseteq scenario[Owner]) ~> ~c.alive)

\* VIOLATED.  admin-revoke.ts:10 "Take all possible steps to revoke given contract
\* instance.": nothing in it deregisters a validator, or unlocks no more than the
\* validator may, and so every repetition is turned back at the same transaction.
RefundedWhateverItIs ==
  (c.revoked /\ {"admin-revoke", "collect"} \subseteq scenario[Owner]) ~> ~c.alive
=============================================================================
