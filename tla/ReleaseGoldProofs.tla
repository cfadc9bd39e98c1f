------------------------- MODULE ReleaseGoldProofs -------------------------
(***************************************************************************)
(* For any heirs, groups, amounts and scenarios, whatever the release      *)
(* owner, the beneficiary, the vote signer and the chain do in between:    *)
(* no contract that visibly holds cUSD is destroyed, admin-revoke is       *)
(* turned back in four places only, and the multisig follows the           *)
(* beneficiary.                                                            *)
(***************************************************************************)
EXTENDS ReleaseGold, FiniteSetTheorems, SequenceTheorems, WellFoundedInduction, TLAPS

-----------------------------------------------------------------------------
(* The inductive invariant.                                                *)

\* The steps of admin-revoke, those after the revocation, those for an
\* account, those after its signer was rotated and after its votes were revoked.
AfterElection == {"governance?", "upvoting?", "upvote", "referendum?", "ballots",
                  "locked?", "unlock"}
AfterRotate == AfterElection \cup {"votes?", "build", "election"}
OfAccount == AfterRotate \cup {"signer?", "rotate"}
AfterRevoke == OfAccount \cup {"account?", "dollars?", "rescue", "remaining?",
                               "refund", "print"}
AdminSteps == AfterRevoke \cup {"revoked?", "revoke"}
NamingSteps == {"current?", "scan-set", "send-set", "scan-replace", "send-replace"}
Steps == {"idle", "send"} \cup AdminSteps \cup NamingSteps

SimpleOps == ByOwner \cup ByBeneficiary \cup ByEither
Ops == {"none", "admin-revoke", "set-beneficiary"} \cup SimpleOps
Addresses == People \cup {Contract}

Commands ==
  [op : Ops, pc : Steps, as : {Contract, Owner}, heir : Addresses,
   old : Addresses, value : Nat, at : Nat,
   txos : Seq([group : Groups, index : Nat]), late : BOOLEAN]

Contracts ==
  [alive : BOOLEAN, ended : {"no", "unseen"} \cup Ops, beneficiary : Addresses,
   revocable : BOOLEAN, revoked : BOOLEAN, released : Nat, withdrawn : Nat,
   celo : Nat, locked : Nat, pending : Nat, matured : Nat, dollars : Nat,
   received : Nat, isAccount : BOOLEAN, signer : {Contract, Owner, "voter"},
   standing : {"no", "key", "registered"},
   votes : Seq(Groups), upvoting : BOOLEAN, balloting : BOOLEAN]

Calls == [do : {"set", "replace"}, old : Addresses, new : Addresses]
Transactions == [call : Calls, by : SUBSET People, executed : BOOLEAN]

TypeOK ==
  /\ scenario \in Scenarios
  /\ c \in Contracts
  /\ owners \subseteq Addresses /\ txs \in Seq(Transactions)
  /\ run \in [People -> Commands] /\ failed \in {"none"} \cup AdminSteps
  /\ cut \in BOOLEAN /\ raced \in BOOLEAN
  /\ named \subseteq Heirs /\ IsFiniteSet(named)

\* Where a terminal is in which command.
Stages ==
  \A p \in People :
    \/ run[p].op = "none" /\ run[p].pc = "idle"
    \/ run[p].op \in SimpleOps /\ run[p].pc = "send"
    \/ run[p].op = "withdraw" /\ run[p].pc = "dollars?"
    \/ run[p].op = "admin-revoke" /\ p = Owner /\ run[p].pc \in AdminSteps
    \/ /\ run[p].op = "set-beneficiary" /\ run[p].pc \in NamingSteps
       /\ run[p].heir \in named

\* Who has looked, and was not overtaken, knows what cUSD there is.
DollarsSeen ==
  /\ \A p \in People :
       ( /\ run[p].op = "withdraw" /\ run[p].pc = "send"
         /\ run[p].value = run[p].at /\ ~run[p].late ) => c.dollars = 0
  /\ (run[Owner].pc = "rescue" /\ ~run[Owner].late) => c.dollars = run[Owner].value
  /\ (run[Owner].pc \in {"remaining?", "refund"} /\ ~run[Owner].late) => c.dollars = 0

\* An account without a vote signer has voted for nothing.
Unvoted ==
  c.signer = Contract => c.votes = <<>> /\ ~c.upvoting /\ ~c.balloting

\* What admin-revoke relies on at each of its steps.
Revoking ==
  LET pc == run[Owner].pc IN
  run[Owner].op = "admin-revoke" =>
    /\ pc \in AfterRevoke => c.revoked
    /\ pc \in OfAccount => c.isAccount
    /\ pc = "rotate" => c.signer # Contract /\ run[Owner].as = Owner
    /\ pc \in AfterRotate => run[Owner].as = c.signer
    /\ pc = "election" => c.votes # <<>> /\ Len(run[Owner].txos) = Len(c.votes)
    /\ pc \in AfterElection => c.votes = <<>>
    /\ pc \in {"referendum?", "ballots", "locked?", "unlock"} => ~c.upvoting
    /\ pc \in {"locked?", "unlock"} => ~c.balloting
    /\ pc = "unlock" => run[Owner].value = c.locked
    /\ pc = "rescue" => run[Owner].value <= c.dollars
    /\ pc = "refund" => LockedBalance = 0

\* Nobody was cut off, no two named a beneficiary at once, one heir was named.
Calm == ~cut /\ ~raced /\ Cardinality(named) < 2

FirstOwners == {Owner, Holder}
SetTo(h) == [do |-> "set", old |-> Contract, new |-> h]
ReplaceBy(h) == [do |-> "replace", old |-> Holder, new |-> h]
AskedBy(p, call) == [call |-> call, by |-> {p}, executed |-> FALSE]

\* Who confirms both transactions of a change that one owner has asked for.
BothAsked(p, h) ==
  Len(txs) = 2 /\ txs[1] = AskedBy(p, SetTo(h)) /\ txs[2] = AskedBy(p, ReplaceBy(h))

\* Nobody has asked, or one owner has and another may confirm.
NotBegun ==
  /\ c.beneficiary = Holder /\ owners = FirstOwners
  /\ txs = <<>> \/ \E p \in FirstOwners, h \in named : BothAsked(p, h)
  /\ \A p \in Naming :
       /\ p \in FirstOwners /\ run[p].pc \in {"current?", "scan-set", "send-set"}
       /\ run[p].pc # "current?" => run[p].old = Holder
       /\ run[p].pc = "send-set" => run[p].at = (IF txs = <<>> THEN 0 ELSE 1)

\* The first owner has asked for one of the two.
HalfAsked ==
  /\ c.beneficiary = Holder /\ owners = FirstOwners
  /\ \E p \in FirstOwners, h \in named :
       /\ Len(txs) = 1 /\ txs[1] = AskedBy(p, SetTo(h))
       /\ Naming = {p} /\ run[p].old = Holder
       /\ run[p].pc \in {"scan-replace", "send-replace"}
       /\ run[p].pc = "send-replace" => run[p].at = 0

\* The second owner has confirmed one of the two.
HalfDone ==
  /\ c.beneficiary \in named /\ owners = FirstOwners
  /\ \E p, q \in FirstOwners :
       /\ p # q /\ Len(txs) = 2
       /\ txs[1].executed /\ txs[1].call = SetTo(c.beneficiary)
       /\ txs[2] = AskedBy(p, ReplaceBy(c.beneficiary))
       /\ Naming = {q} /\ run[q].old = Holder
       /\ run[q].pc \in {"scan-replace", "send-replace"}
       /\ run[q].pc = "send-replace" => run[q].at = 2

\* The beneficiary is an owner and stays one.
Done ==
  /\ c.beneficiary \in named /\ c.beneficiary \in owners
  /\ \A i \in DOMAIN txs : txs[i].call.new \in named

Handed ==
  Calm => /\ \A p, q \in Naming : p = q
          /\ NotBegun \/ HalfAsked \/ HalfDone \/ Done

\* Where admin-revoke is turned back.
TurnedBackAt == failed \in {"none", "revoke", "election", "upvote", "unlock"}

IInv ==
  /\ TypeOK /\ Stages /\ DollarsSeen /\ Unvoted /\ Revoking /\ Handed
  /\ NoDollarsLost /\ TurnedBackAt

-----------------------------------------------------------------------------
(* Terminals.                                                              *)

\* Only p's terminal moves.
OnlyAt(p) == run' \in [People -> Commands] /\ \A q \in People : q # p => run'[q] = run[q]

LEMMA MapsAreSeqs ==
  ASSUME NEW S, NEW n \in Nat, NEW f \in [1 .. n -> S]
  PROVE  f \in Seq(S) /\ Len(f) = n
  OBVIOUS

LEMMA IdleIsTyped == Idle \in Commands
<1>1. <<>> \in Seq([group : Groups, index : Nat])
  OBVIOUS
<1>2. "none" \in Ops /\ "idle" \in Steps
  BY DEF Ops, Steps
<1>3. Contract \in Addresses
  BY DEF Addresses
<1> HIDE DEF Addresses
<1> QED
  BY <1>1, <1>2, <1>3 DEF Idle, Commands

LEMMA PcIsSet ==
  ASSUME run \in [People -> Commands], NEW p \in People, NEW pc \in Steps,
         run' = [run EXCEPT ![p].pc = pc]
  PROVE  /\ OnlyAt(p)
         /\ run'[p].pc = pc /\ run'[p].op = run[p].op /\ run'[p].as = run[p].as
         /\ run'[p].heir = run[p].heir /\ run'[p].old = run[p].old
         /\ run'[p].value = run[p].value /\ run'[p].at = run[p].at
         /\ run'[p].txos = run[p].txos /\ run'[p].late = run[p].late
<1>1. run[p] \in Commands
  OBVIOUS
<1>2. [run[p] EXCEPT !.pc = pc] \in Commands
  BY <1>1 DEF Commands
<1>3. run' = [run EXCEPT ![p] = [run[p] EXCEPT !.pc = pc]]
  OBVIOUS
<1>4. OnlyAt(p)
  BY <1>2, <1>3 DEF OnlyAt
<1>5. run'[p] = [run[p] EXCEPT !.pc = pc]
  BY <1>3
<1>6. /\ run'[p].pc = pc /\ run'[p].op = run[p].op /\ run'[p].as = run[p].as
      /\ run'[p].heir = run[p].heir /\ run'[p].old = run[p].old
      /\ run'[p].value = run[p].value /\ run'[p].at = run[p].at
      /\ run'[p].txos = run[p].txos /\ run'[p].late = run[p].late
  BY <1>1, <1>5 DEF Commands
<1> QED
  BY <1>4, <1>6

LEMMA IsPut ==
  ASSUME run \in [People -> Commands], NEW p \in People, NEW r \in Commands,
         run' = [run EXCEPT ![p] = r]
  PROVE  OnlyAt(p) /\ run'[p] = r
  BY DEF OnlyAt

LEMMA PcAndAsAreSet ==
  ASSUME run \in [People -> Commands], NEW p \in People, NEW x \in Steps, NEW y \in {Contract, Owner},
         run' = [run EXCEPT ![p].pc = x, ![p].as = y]
  PROVE  /\ OnlyAt(p) /\ run'[p].pc = x /\ run'[p].as = y
         /\ run'[p].op = run[p].op
         /\ run'[p].heir = run[p].heir
         /\ run'[p].old = run[p].old
         /\ run'[p].value = run[p].value
         /\ run'[p].at = run[p].at
         /\ run'[p].txos = run[p].txos
         /\ run'[p].late = run[p].late
<1> DEFINE r == [run[p] EXCEPT !.pc = x]
           s == [r EXCEPT !.as = y]
<1>1. run[p] \in Commands
  OBVIOUS
<1>2. r \in Commands
  BY <1>1 DEF Commands
<1>3. s \in Commands
  <2> HIDE DEF r
  <2> QED
    BY <1>2 DEF Commands
<1>4. run' = [run EXCEPT ![p] = s]
  OBVIOUS
<1>5. run'[p] = s
  BY <1>4
<1>6. OnlyAt(p)
  <2> HIDE DEF s
  <2> QED
    BY <1>3, <1>4 DEF OnlyAt
<1>7. /\ s.pc = x /\ s.as = y
      /\ s.op = run[p].op
      /\ s.heir = run[p].heir
      /\ s.old = run[p].old
      /\ s.value = run[p].value
      /\ s.at = run[p].at
      /\ s.txos = run[p].txos
      /\ s.late = run[p].late
  BY <1>1 DEF Commands
<1> QED
  BY <1>5, <1>6, <1>7

LEMMA PcAndTxosAreSet ==
  ASSUME run \in [People -> Commands], NEW p \in People, NEW x \in Steps, NEW y \in Seq([group : Groups, index : Nat]),
         run' = [run EXCEPT ![p].pc = x, ![p].txos = y]
  PROVE  /\ OnlyAt(p) /\ run'[p].pc = x /\ run'[p].txos = y
         /\ run'[p].op = run[p].op
         /\ run'[p].as = run[p].as
         /\ run'[p].heir = run[p].heir
         /\ run'[p].old = run[p].old
         /\ run'[p].value = run[p].value
         /\ run'[p].at = run[p].at
         /\ run'[p].late = run[p].late
<1> DEFINE r == [run[p] EXCEPT !.pc = x]
           s == [r EXCEPT !.txos = y]
<1>1. run[p] \in Commands
  OBVIOUS
<1>2. r \in Commands
  BY <1>1 DEF Commands
<1>3. s \in Commands
  <2> HIDE DEF r
  <2> QED
    BY <1>2 DEF Commands
<1>4. run' = [run EXCEPT ![p] = s]
  OBVIOUS
<1>5. run'[p] = s
  BY <1>4
<1>6. OnlyAt(p)
  <2> HIDE DEF s
  <2> QED
    BY <1>3, <1>4 DEF OnlyAt
<1>7. /\ s.pc = x /\ s.txos = y
      /\ s.op = run[p].op
      /\ s.as = run[p].as
      /\ s.heir = run[p].heir
      /\ s.old = run[p].old
      /\ s.value = run[p].value
      /\ s.at = run[p].at
      /\ s.late = run[p].late
  BY <1>1 DEF Commands
<1> QED
  BY <1>5, <1>6, <1>7

LEMMA TxosAndPcAreSet ==
  ASSUME run \in [People -> Commands], NEW p \in People, NEW x \in Seq([group : Groups, index : Nat]), NEW y \in Steps,
         run' = [run EXCEPT ![p].txos = x, ![p].pc = y]
  PROVE  /\ OnlyAt(p) /\ run'[p].txos = x /\ run'[p].pc = y
         /\ run'[p].op = run[p].op
         /\ run'[p].as = run[p].as
         /\ run'[p].heir = run[p].heir
         /\ run'[p].old = run[p].old
         /\ run'[p].value = run[p].value
         /\ run'[p].at = run[p].at
         /\ run'[p].late = run[p].late
<1> DEFINE r == [run[p] EXCEPT !.txos = x]
           s == [r EXCEPT !.pc = y]
<1>1. run[p] \in Commands
  OBVIOUS
<1>2. r \in Commands
  BY <1>1 DEF Commands
<1>3. s \in Commands
  <2> HIDE DEF r
  <2> QED
    BY <1>2 DEF Commands
<1>4. run' = [run EXCEPT ![p] = s]
  OBVIOUS
<1>5. run'[p] = s
  BY <1>4
<1>6. OnlyAt(p)
  <2> HIDE DEF s
  <2> QED
    BY <1>3, <1>4 DEF OnlyAt
<1>7. /\ s.txos = x /\ s.pc = y
      /\ s.op = run[p].op
      /\ s.as = run[p].as
      /\ s.heir = run[p].heir
      /\ s.old = run[p].old
      /\ s.value = run[p].value
      /\ s.at = run[p].at
      /\ s.late = run[p].late
  BY <1>1 DEF Commands
<1> QED
  BY <1>5, <1>6, <1>7

LEMMA ValueAndPcAreSet ==
  ASSUME run \in [People -> Commands], NEW p \in People, NEW x \in Nat, NEW y \in Steps,
         run' = [run EXCEPT ![p].value = x, ![p].pc = y]
  PROVE  /\ OnlyAt(p) /\ run'[p].value = x /\ run'[p].pc = y
         /\ run'[p].op = run[p].op
         /\ run'[p].as = run[p].as
         /\ run'[p].heir = run[p].heir
         /\ run'[p].old = run[p].old
         /\ run'[p].at = run[p].at
         /\ run'[p].txos = run[p].txos
         /\ run'[p].late = run[p].late
<1> DEFINE r == [run[p] EXCEPT !.value = x]
           s == [r EXCEPT !.pc = y]
<1>1. run[p] \in Commands
  OBVIOUS
<1>2. r \in Commands
  BY <1>1 DEF Commands
<1>3. s \in Commands
  <2> HIDE DEF r
  <2> QED
    BY <1>2 DEF Commands
<1>4. run' = [run EXCEPT ![p] = s]
  OBVIOUS
<1>5. run'[p] = s
  BY <1>4
<1>6. OnlyAt(p)
  <2> HIDE DEF s
  <2> QED
    BY <1>3, <1>4 DEF OnlyAt
<1>7. /\ s.value = x /\ s.pc = y
      /\ s.op = run[p].op
      /\ s.as = run[p].as
      /\ s.heir = run[p].heir
      /\ s.old = run[p].old
      /\ s.at = run[p].at
      /\ s.txos = run[p].txos
      /\ s.late = run[p].late
  BY <1>1 DEF Commands
<1> QED
  BY <1>5, <1>6, <1>7

LEMMA OldAndPcAreSet ==
  ASSUME run \in [People -> Commands], NEW p \in People, NEW x \in Addresses, NEW y \in Steps,
         run' = [run EXCEPT ![p].old = x, ![p].pc = y]
  PROVE  /\ OnlyAt(p) /\ run'[p].old = x /\ run'[p].pc = y
         /\ run'[p].op = run[p].op
         /\ run'[p].as = run[p].as
         /\ run'[p].heir = run[p].heir
         /\ run'[p].value = run[p].value
         /\ run'[p].at = run[p].at
         /\ run'[p].txos = run[p].txos
         /\ run'[p].late = run[p].late
<1> DEFINE r == [run[p] EXCEPT !.old = x]
           s == [r EXCEPT !.pc = y]
<1>1. run[p] \in Commands
  OBVIOUS
<1>2. r \in Commands
  BY <1>1 DEF Commands
<1>3. s \in Commands
  <2> HIDE DEF r
  <2> QED
    BY <1>2 DEF Commands
<1>4. run' = [run EXCEPT ![p] = s]
  OBVIOUS
<1>5. run'[p] = s
  BY <1>4
<1>6. OnlyAt(p)
  <2> HIDE DEF s
  <2> QED
    BY <1>3, <1>4 DEF OnlyAt
<1>7. /\ s.old = x /\ s.pc = y
      /\ s.op = run[p].op
      /\ s.as = run[p].as
      /\ s.heir = run[p].heir
      /\ s.value = run[p].value
      /\ s.at = run[p].at
      /\ s.txos = run[p].txos
      /\ s.late = run[p].late
  BY <1>1 DEF Commands
<1> QED
  BY <1>5, <1>6, <1>7

LEMMA AtAndPcAreSet ==
  ASSUME run \in [People -> Commands], NEW p \in People, NEW x \in Nat, NEW y \in Steps,
         run' = [run EXCEPT ![p].at = x, ![p].pc = y]
  PROVE  /\ OnlyAt(p) /\ run'[p].at = x /\ run'[p].pc = y
         /\ run'[p].op = run[p].op
         /\ run'[p].as = run[p].as
         /\ run'[p].heir = run[p].heir
         /\ run'[p].old = run[p].old
         /\ run'[p].value = run[p].value
         /\ run'[p].txos = run[p].txos
         /\ run'[p].late = run[p].late
<1> DEFINE r == [run[p] EXCEPT !.at = x]
           s == [r EXCEPT !.pc = y]
<1>1. run[p] \in Commands
  OBVIOUS
<1>2. r \in Commands
  BY <1>1 DEF Commands
<1>3. s \in Commands
  <2> HIDE DEF r
  <2> QED
    BY <1>2 DEF Commands
<1>4. run' = [run EXCEPT ![p] = s]
  OBVIOUS
<1>5. run'[p] = s
  BY <1>4
<1>6. OnlyAt(p)
  <2> HIDE DEF s
  <2> QED
    BY <1>3, <1>4 DEF OnlyAt
<1>7. /\ s.at = x /\ s.pc = y
      /\ s.op = run[p].op
      /\ s.as = run[p].as
      /\ s.heir = run[p].heir
      /\ s.old = run[p].old
      /\ s.value = run[p].value
      /\ s.txos = run[p].txos
      /\ s.late = run[p].late
  BY <1>1 DEF Commands
<1> QED
  BY <1>5, <1>6, <1>7

-----------------------------------------------------------------------------
(* The contract.                                                           *)

LEMMA FieldsAreTyped ==
  ASSUME NEW k \in Contracts
  PROVE  /\ k.celo \in Nat /\ k.locked \in Nat /\ k.pending \in Nat
         /\ k.matured \in Nat /\ k.dollars \in Nat /\ k.released \in Nat
         /\ k.withdrawn \in Nat /\ k.received \in Nat
         /\ k.votes \in Seq(Groups) /\ Len(k.votes) \in Nat
         /\ k.beneficiary \in Addresses /\ k.signer \in {Contract, Owner, "voter"}
  BY DEF Contracts

LEMMA AmountIsSet ==
  ASSUME NEW k \in Contracts, NEW n \in Nat
  PROVE  /\ [k EXCEPT !.celo = n] \in Contracts /\ [k EXCEPT !.locked = n] \in Contracts
         /\ [k EXCEPT !.pending = n] \in Contracts
         /\ [k EXCEPT !.matured = n] \in Contracts
         /\ [k EXCEPT !.dollars = n] \in Contracts
         /\ [k EXCEPT !.withdrawn = n] \in Contracts
         /\ [k EXCEPT !.released = n] \in Contracts
         /\ [k EXCEPT !.received = n] \in Contracts
<1>1. [k EXCEPT !.celo = n] \in Contracts
  BY DEF Contracts
<1>2. [k EXCEPT !.locked = n] \in Contracts
  BY DEF Contracts
<1>3. [k EXCEPT !.pending = n] \in Contracts
  BY DEF Contracts
<1>4. [k EXCEPT !.matured = n] \in Contracts
  BY DEF Contracts
<1>5. [k EXCEPT !.dollars = n] \in Contracts
  BY DEF Contracts
<1>6. [k EXCEPT !.withdrawn = n] \in Contracts
  BY DEF Contracts
<1>7. [k EXCEPT !.released = n] \in Contracts
  BY DEF Contracts
<1>8. [k EXCEPT !.received = n] \in Contracts
  BY DEF Contracts
<1> QED
  BY <1>1, <1>2, <1>3, <1>4, <1>5, <1>6, <1>7, <1>8

LEMMA FlagIsSet ==
  ASSUME NEW k \in Contracts, NEW b \in BOOLEAN
  PROVE  /\ [k EXCEPT !.alive = b] \in Contracts /\ [k EXCEPT !.isAccount = b] \in Contracts
         /\ [k EXCEPT !.revoked = b] \in Contracts
         /\ [k EXCEPT !.upvoting = b] \in Contracts
         /\ [k EXCEPT !.balloting = b] \in Contracts
<1>1. [k EXCEPT !.alive = b] \in Contracts
  BY DEF Contracts
<1>2. [k EXCEPT !.isAccount = b] \in Contracts
  BY DEF Contracts
<1>3. [k EXCEPT !.revoked = b] \in Contracts
  BY DEF Contracts
<1>4. [k EXCEPT !.upvoting = b] \in Contracts
  BY DEF Contracts
<1>5. [k EXCEPT !.balloting = b] \in Contracts
  BY DEF Contracts
<1> QED
  BY <1>1, <1>2, <1>3, <1>4, <1>5

LEMMA DestroyedIsTyped ==
  ASSUME c \in Contracts, NEW r \in Commands
  PROVE  Destroyed(r) \in Contracts
<1> DEFINE dead == [c EXCEPT !.alive = FALSE]
           empty == [dead EXCEPT !.celo = 0]
           unseen == r.late \/ (r.op = "withdraw" /\ r.value # r.at)
           how == IF unseen THEN "unseen" ELSE r.op
<1>1. dead \in Contracts
  BY FlagIsSet
<1>2. empty \in Contracts
  BY <1>1, AmountIsSet
<1>3. how \in {"unseen"} \cup Ops
  <2>1. r.op \in Ops
    BY DEF Commands
  <2>2. CASE unseen
    BY <2>2
  <2>3. CASE ~unseen
    BY <2>1, <2>3
  <2> QED
    BY <2>2, <2>3
<1>4. [empty EXCEPT !.ended = how] \in Contracts
  <2> HIDE DEF empty, how
  <2> QED
    BY <1>2, <1>3 DEF Contracts
<1> QED
  BY <1>4 DEF Destroyed

\* A transaction of a simple command leaves a contract.
LEMMA EffectIsTyped ==
  ASSUME c \in Contracts, run \in [People -> Commands], NEW p \in People,
         NEW op \in SimpleOps, NEW value \in Nat, Accepts(p, op, value)
  PROVE  Effect(p, op, value) \in Contracts
<1>0. /\ c.celo \in Nat /\ c.locked \in Nat /\ c.pending \in Nat /\ c.matured \in Nat
      /\ c.dollars \in Nat /\ c.withdrawn \in Nat /\ Len(c.votes) \in Nat
  BY FieldsAreTyped
<1>1. CASE op = "create-account"
  BY <1>1, FlagIsSet DEF Effect
<1>2. CASE op = "authorize"
  <2> DEFINE signed == [c EXCEPT !.signer = IF p = Owner THEN Owner ELSE "voter"]
             paid == IF FirstSigner THEN c.celo - 1 ELSE c.celo
  <2>1. signed \in Contracts
    BY DEF Contracts
  <2>2. paid \in Nat
    BY <1>0, <1>2 DEF Accepts, MayFund
  <2>3. [signed EXCEPT !.celo = paid] \in Contracts
    BY <2>1, <2>2, AmountIsSet
  <2> QED
    BY <1>2, <2>3 DEF Effect
<1>3. CASE op = "lock"
  <2> DEFINE left == [c EXCEPT !.celo = c.celo - value]
  <2>1. c.celo - value \in Nat /\ c.locked + value \in Nat
    BY <1>0, <1>3 DEF Accepts
  <2>2. left \in Contracts
    BY <2>1, AmountIsSet
  <2>3. [left EXCEPT !.locked = c.locked + value] \in Contracts
    BY <2>1, <2>2, AmountIsSet
  <2> QED
    BY <1>3, <2>3 DEF Effect
<1>4. CASE op = "unlock"
  <2> DEFINE left == [c EXCEPT !.locked = c.locked - value]
  <2>1. c.locked - value \in Nat /\ c.pending + value \in Nat
    BY <1>0, <1>4 DEF Accepts
  <2>2. left \in Contracts
    BY <2>1, AmountIsSet
  <2>3. [left EXCEPT !.pending = c.pending + value] \in Contracts
    BY <2>1, <2>2, AmountIsSet
  <2> QED
    BY <1>4, <2>3 DEF Effect
<1>5. CASE op = "collect"
  <2> DEFINE left == [c EXCEPT !.celo = c.celo + c.matured]
  <2>1. c.celo + c.matured \in Nat
    BY <1>0
  <2>2. left \in Contracts
    BY <2>1, AmountIsSet
  <2>3. [left EXCEPT !.matured = 0] \in Contracts
    BY <2>2, AmountIsSet
  <2> QED
    BY <1>5, <2>3 DEF Effect
<1>6. CASE op = "transfer-dollars"
  <2>1. c.dollars - value \in Nat
    BY <1>0, <1>6 DEF Accepts
  <2> QED
    BY <1>6, <2>1, AmountIsSet DEF Effect
<1>7. CASE op = "withdraw"
  <2> DEFINE left == [c EXCEPT !.celo = c.celo - value]
  <2>1. c.celo - value \in Nat /\ c.withdrawn + value \in Nat
    BY <1>0, <1>7 DEF Accepts
  <2>2. left \in Contracts
    BY <2>1, AmountIsSet
  <2>3. [left EXCEPT !.withdrawn = c.withdrawn + value] \in Contracts
    BY <2>1, <2>2, AmountIsSet
  <2>4. Destroyed(run[p]) \in Contracts
    BY DestroyedIsTyped
  <2> QED
    BY <1>7, <2>3, <2>4 DEF Effect
<1>8. CASE op = "revoke"
  BY <1>8, FlagIsSet DEF Effect
<1>9. CASE op = "refund-and-finalize"
  <2>1. Destroyed(run[p]) \in Contracts
    BY DestroyedIsTyped
  <2> QED
    BY <1>9, <2>1 DEF Effect
<1>10. CASE op = "authorize-validator"
  <2> DEFINE signed == [c EXCEPT !.standing = IF FirstValidatorSigner THEN "key"
                                              ELSE c.standing]
             paid == IF FirstValidatorSigner THEN c.celo - 1 ELSE c.celo
  <2>1. signed \in Contracts
    BY DEF Contracts
  <2>2. paid \in Nat
    BY <1>0, <1>10 DEF Accepts, MayFund
  <2>3. [signed EXCEPT !.celo = paid] \in Contracts
    BY <2>1, <2>2, AmountIsSet
  <2> QED
    BY <1>10, <2>3 DEF Effect
<1> QED
  BY <1>1, <1>2, <1>3, <1>4, <1>5, <1>6, <1>7, <1>8, <1>9, <1>10
     DEF SimpleOps, ByOwner, ByBeneficiary, ByEither

\* It leaves the votes and the beneficiary alone, sends no cUSD to the contract
\* and undoes neither the revocation nor the first vote signer.
LEMMA EffectKeeps ==
  ASSUME c \in Contracts, run \in [People -> Commands], NEW p \in People,
         NEW op \in SimpleOps, NEW value \in Nat, Accepts(p, op, value),
         NEW k, k = Effect(p, op, value)
  PROVE  /\ k.votes = c.votes /\ k.upvoting = c.upvoting /\ k.balloting = c.balloting
         /\ k.beneficiary = c.beneficiary
         /\ c.revoked => k.revoked
         /\ k.signer = c.signer \/ k.signer # Contract
         /\ k.dollars \in Nat /\ k.dollars <= c.dollars
<1>1. /\ k.votes = c.votes /\ k.upvoting = c.upvoting /\ k.balloting = c.balloting
      /\ k.beneficiary = c.beneficiary
  <2>1. CASE op = "create-account"
    BY <2>1 DEF Effect, Contracts
  <2>2. CASE op = "authorize"
    BY <2>2 DEF Effect, Contracts
  <2>3. CASE op = "lock"
    BY <2>3 DEF Effect, Contracts
  <2>4. CASE op = "unlock"
    BY <2>4 DEF Effect, Contracts
  <2>5. CASE op = "collect"
    BY <2>5 DEF Effect, Contracts
  <2>6. CASE op = "transfer-dollars"
    BY <2>6 DEF Effect, Contracts
  <2>7. CASE op = "withdraw"
    BY <2>7 DEF Effect, Contracts, Destroyed
  <2>8. CASE op = "revoke"
    BY <2>8 DEF Effect, Contracts
  <2>9. CASE op = "refund-and-finalize"
    BY <2>9 DEF Effect, Contracts, Destroyed
  <2>10. CASE op = "authorize-validator"
    BY <2>10 DEF Effect, Contracts
  <2> QED
    BY <2>1, <2>2, <2>3, <2>4, <2>5, <2>6, <2>7, <2>8, <2>9, <2>10
       DEF SimpleOps, ByOwner, ByBeneficiary, ByEither
<1>2. c.revoked => k.revoked
  <2>1. CASE op = "create-account"
    BY <2>1 DEF Effect, Contracts
  <2>2. CASE op = "authorize"
    BY <2>2 DEF Effect, Contracts
  <2>3. CASE op = "lock"
    BY <2>3 DEF Effect, Contracts
  <2>4. CASE op = "unlock"
    BY <2>4 DEF Effect, Contracts
  <2>5. CASE op = "collect"
    BY <2>5 DEF Effect, Contracts
  <2>6. CASE op = "transfer-dollars"
    BY <2>6 DEF Effect, Contracts
  <2>7. CASE op = "withdraw"
    BY <2>7 DEF Effect, Contracts, Destroyed
  <2>8. CASE op = "revoke"
    BY <2>8 DEF Effect, Contracts
  <2>9. CASE op = "refund-and-finalize"
    BY <2>9 DEF Effect, Contracts, Destroyed
  <2>10. CASE op = "authorize-validator"
    BY <2>10 DEF Effect, Contracts
  <2> QED
    BY <2>1, <2>2, <2>3, <2>4, <2>5, <2>6, <2>7, <2>8, <2>9, <2>10
       DEF SimpleOps, ByOwner, ByBeneficiary, ByEither
<1>3. k.signer = c.signer \/ k.signer # Contract
  <2>1. CASE op = "create-account"
    BY <2>1, ReleaseGoldAssumption DEF Effect, Contracts, People
  <2>2. CASE op = "authorize"
    BY <2>2, ReleaseGoldAssumption DEF Effect, Contracts, People
  <2>3. CASE op = "lock"
    BY <2>3, ReleaseGoldAssumption DEF Effect, Contracts, People
  <2>4. CASE op = "unlock"
    BY <2>4, ReleaseGoldAssumption DEF Effect, Contracts, People
  <2>5. CASE op = "collect"
    BY <2>5, ReleaseGoldAssumption DEF Effect, Contracts, People
  <2>6. CASE op = "transfer-dollars"
    BY <2>6, ReleaseGoldAssumption DEF Effect, Contracts, People
  <2>7. CASE op = "withdraw"
    BY <2>7, ReleaseGoldAssumption DEF Effect, Contracts, People, Destroyed
  <2>8. CASE op = "revoke"
    BY <2>8, ReleaseGoldAssumption DEF Effect, Contracts, People
  <2>9. CASE op = "refund-and-finalize"
    BY <2>9, ReleaseGoldAssumption DEF Effect, Contracts, People, Destroyed
  <2>10. CASE op = "authorize-validator"
    BY <2>10, ReleaseGoldAssumption DEF Effect, Contracts, People
  <2> QED
    BY <2>1, <2>2, <2>3, <2>4, <2>5, <2>6, <2>7, <2>8, <2>9, <2>10
       DEF SimpleOps, ByOwner, ByBeneficiary, ByEither
<1>4. k.dollars = c.dollars \/ (op = "transfer-dollars" /\ k.dollars = c.dollars - value)
  <2>1. CASE op = "create-account"
    BY <2>1 DEF Effect, Contracts
  <2>2. CASE op = "authorize"
    BY <2>2 DEF Effect, Contracts
  <2>3. CASE op = "lock"
    BY <2>3 DEF Effect, Contracts
  <2>4. CASE op = "unlock"
    BY <2>4 DEF Effect, Contracts
  <2>5. CASE op = "collect"
    BY <2>5 DEF Effect, Contracts
  <2>6. CASE op = "transfer-dollars"
    BY <2>6 DEF Effect, Contracts
  <2>7. CASE op = "withdraw"
    BY <2>7 DEF Effect, Contracts, Destroyed
  <2>8. CASE op = "revoke"
    BY <2>8 DEF Effect, Contracts
  <2>9. CASE op = "refund-and-finalize"
    BY <2>9 DEF Effect, Contracts, Destroyed
  <2>10. CASE op = "authorize-validator"
    BY <2>10 DEF Effect, Contracts
  <2> QED
    BY <2>1, <2>2, <2>3, <2>4, <2>5, <2>6, <2>7, <2>8, <2>9, <2>10
       DEF SimpleOps, ByOwner, ByBeneficiary, ByEither
<1>5. op = "transfer-dollars" => value <= c.dollars
  BY DEF Accepts
<1>6. c.dollars \in Nat
  BY FieldsAreTyped
<1> QED
  BY <1>1, <1>2, <1>3, <1>4, <1>5, <1>6

\* Of a revoked contract nobody but the owner gets more than what is released.
LEMMA OthersOnlyWithdraw ==
  ASSUME c \in Contracts, run \in [People -> Commands], NEW p \in People,
         NEW op \in SimpleOps, NEW value \in Nat, Accepts(p, op, value),
         NEW k, k = Effect(p, op, value),
         p # Owner, c.revoked
  PROVE  /\ k.revoked = c.revoked /\ k.isAccount = c.isAccount
         /\ k.signer = c.signer /\ k.locked = c.locked /\ k.pending = c.pending
         /\ k.matured = c.matured /\ k.dollars = c.dollars
<1>1. op = "withdraw"
  BY DEF Accepts, Proper, SimpleOps, ByOwner, ByBeneficiary, ByEither
<1> QED
  BY <1>1 DEF Effect, Destroyed, Contracts

\* What destroys a contract.
LEMMA EffectDestroys ==
  ASSUME c \in Contracts, run \in [People -> Commands], NEW p \in People,
         NEW op \in SimpleOps, NEW value \in Nat, Accepts(p, op, value),
         NEW k, k = Effect(p, op, value),
         c.alive, ~k.alive
  PROVE  /\ op \in {"withdraw", "refund-and-finalize"} /\ k.dollars = c.dollars
         /\ k.ended = IF run[p].late \/ (run[p].op = "withdraw" /\ run[p].value # run[p].at)
                      THEN "unseen" ELSE run[p].op
<1>0. op \in {"withdraw", "refund-and-finalize"}
  <2>1. CASE op = "create-account"
    BY <2>1 DEF Effect, Contracts
  <2>2. CASE op = "authorize"
    BY <2>2 DEF Effect, Contracts
  <2>3. CASE op = "lock"
    BY <2>3 DEF Effect, Contracts
  <2>4. CASE op = "unlock"
    BY <2>4 DEF Effect, Contracts
  <2>5. CASE op = "collect"
    BY <2>5 DEF Effect, Contracts
  <2>6. CASE op = "transfer-dollars"
    BY <2>6 DEF Effect, Contracts
  <2>7. CASE op = "withdraw"
    BY <2>7 DEF Effect, Contracts, Destroyed
  <2>8. CASE op = "revoke"
    BY <2>8 DEF Effect, Contracts
  <2>9. CASE op = "refund-and-finalize"
    BY <2>9 DEF Effect, Contracts, Destroyed
  <2>10. CASE op = "authorize-validator"
    BY <2>10 DEF Effect, Contracts
  <2> QED
    BY <2>1, <2>2, <2>3, <2>4, <2>5, <2>6, <2>7, <2>8, <2>9, <2>10
       DEF SimpleOps, ByOwner, ByBeneficiary, ByEither
<1>1. k = Destroyed(run[p])
  <2>1. CASE op = "withdraw" /\ value # c.celo + LockedBalance
    BY <2>1 DEF Effect, Contracts
  <2> QED
    BY <1>0, <2>1 DEF Effect
<1> QED
  BY <1>0, <1>1 DEF Destroyed, Contracts

-----------------------------------------------------------------------------
(* What a step of somebody else leaves alone.                              *)

LEMMA HandedKept ==
  ASSUME Handed, UNCHANGED <<multisig, history>>, c'.beneficiary = c.beneficiary,
         \A p \in People :
           /\ run'[p].op = "set-beneficiary" <=> run[p].op = "set-beneficiary"
           /\ run[p].op = "set-beneficiary"
              => /\ run'[p].pc = run[p].pc /\ run'[p].old = run[p].old
                 /\ run'[p].at = run[p].at
  PROVE  Handed'
<1>1. Naming' = Naming
  BY DEF Naming
<1>2. \A p \in Naming : /\ p \in People /\ run'[p].pc = run[p].pc
                        /\ run'[p].old = run[p].old /\ run'[p].at = run[p].at
  BY DEF Naming
<1>3. owners' = owners /\ txs' = txs /\ named' = named /\ Calm' = Calm
  BY DEF multisig, history, Calm
<1>4. NotBegun => NotBegun'
  BY <1>1, <1>2, <1>3 DEF NotBegun, BothAsked
<1>5. HalfAsked => HalfAsked'
  BY <1>1, <1>2, <1>3 DEF HalfAsked
<1>6. HalfDone => HalfDone'
  <2> SUFFICES ASSUME HalfDone PROVE HalfDone'
    OBVIOUS
  <2>1. PICK p \in FirstOwners, q \in FirstOwners :
          /\ p # q /\ Len(txs) = 2
          /\ txs[1].executed /\ txs[1].call = SetTo(c.beneficiary)
          /\ txs[2] = AskedBy(p, ReplaceBy(c.beneficiary))
          /\ Naming = {q} /\ run[q].old = Holder
          /\ run[q].pc \in {"scan-replace", "send-replace"}
          /\ run[q].pc = "send-replace" => run[q].at = 2
    BY DEF HalfDone
  <2>2. /\ Naming' = {q} /\ run'[q].old = Holder
        /\ run'[q].pc \in {"scan-replace", "send-replace"}
        /\ run'[q].pc = "send-replace" => run'[q].at = 2
    BY <1>1, <1>2, <2>1
  <2>3. /\ Len(txs') = 2
        /\ txs'[1].executed /\ txs'[1].call = SetTo(c'.beneficiary)
        /\ txs'[2] = AskedBy(p, ReplaceBy(c'.beneficiary))
    BY <1>3, <2>1
  <2>4. c'.beneficiary \in named' /\ owners' = FirstOwners
    BY <1>3 DEF HalfDone
  <2> QED
    BY <2>1, <2>2, <2>3, <2>4 DEF HalfDone, FirstOwners
<1>7. Done => Done'
  BY <1>3 DEF Done
<1> QED
  BY <1>1, <1>3, <1>4, <1>5, <1>6, <1>7 DEF Handed

LEMMA HandedKeptAt ==
  ASSUME Handed, UNCHANGED <<multisig, history>>, c'.beneficiary = c.beneficiary,
         NEW p \in People, OnlyAt(p),
         run[p].op # "set-beneficiary", run'[p].op # "set-beneficiary"
  PROVE  Handed'
<1>1. ASSUME NEW q \in People
      PROVE  /\ run'[q].op = "set-beneficiary" <=> run[q].op = "set-beneficiary"
             /\ run[q].op = "set-beneficiary" => run'[q] = run[q]
  BY DEF OnlyAt
<1> QED
  BY <1>1, HandedKept

\* What may happen to a contract while admin-revoke runs.
LEMMA RevokingKept ==
  ASSUME TypeOK, Revoking, c' \in Contracts,
         /\ run'[Owner].op = run[Owner].op /\ run'[Owner].pc = run[Owner].pc
         /\ run'[Owner].as = run[Owner].as /\ run'[Owner].txos = run[Owner].txos
         /\ run'[Owner].value = run[Owner].value,
         c.revoked => /\ c'.revoked /\ c'.isAccount = c.isAccount
                      /\ c'.signer = c.signer /\ c'.locked = c.locked
                      /\ c'.dollars >= c.dollars
                      /\ LockedBalance = 0 => LockedBalance' = 0,
         c.signer # "voter" => c'.votes = c.votes,
         c'.upvoting => c.upvoting \/ c.signer = "voter",
         c'.balloting => c.balloting \/ c.signer = "voter"
  PROVE  Revoking'
<1> DEFINE pc == run[Owner].pc
<1> SUFFICES ASSUME run[Owner].op = "admin-revoke" PROVE Revoking'
  BY DEF Revoking
<1>1. pc \in AfterRevoke => c.revoked
  BY DEF Revoking
<1>2. pc \in OfAccount => c.isAccount /\ c.revoked
  BY DEF Revoking, OfAccount, AfterRevoke
<1>3. pc \in AfterRotate => c.signer # "voter" /\ c.revoked
  <2>1. run[Owner].as \in {Contract, Owner}
    BY DEF TypeOK, Commands, People
  <2>2. "voter" # Contract /\ "voter" # Owner
    BY ReleaseGoldAssumption DEF People
  <2> QED
    BY <2>1, <2>2 DEF Revoking, AfterRotate, OfAccount, AfterRevoke
<1>4. c.dollars \in Nat /\ c'.dollars \in Nat /\ run[Owner].value \in Nat
  BY DEF TypeOK, Contracts, Commands, People
<1>5. run'[Owner].pc \in AfterRevoke => c'.revoked
  BY <1>1
<1>6. run'[Owner].pc \in OfAccount => c'.isAccount
  BY <1>2
<1>7. run'[Owner].pc = "rotate" => c'.signer # Contract /\ run'[Owner].as = Owner
  BY <1>1 DEF Revoking, OfAccount, AfterRevoke
<1>8. run'[Owner].pc \in AfterRotate => run'[Owner].as = c'.signer
  BY <1>3 DEF Revoking
<1>9. run'[Owner].pc = "election"
      => c'.votes # <<>> /\ Len(run'[Owner].txos) = Len(c'.votes)
  BY <1>3 DEF Revoking, AfterRotate
<1>10. run'[Owner].pc \in AfterElection => c'.votes = <<>>
  BY <1>3 DEF Revoking, AfterRotate
<1>11. run'[Owner].pc \in {"referendum?", "ballots", "locked?", "unlock"} => ~c'.upvoting
  BY <1>3 DEF Revoking, AfterRotate, AfterElection
<1>12. run'[Owner].pc \in {"locked?", "unlock"} => ~c'.balloting
  BY <1>3 DEF Revoking, AfterRotate, AfterElection
<1>13. run'[Owner].pc = "unlock" => run'[Owner].value = c'.locked
  BY <1>3 DEF Revoking, AfterRotate, AfterElection
<1>14. run'[Owner].pc = "rescue" => run'[Owner].value <= c'.dollars
  BY <1>1, <1>4 DEF Revoking, AfterRevoke
<1>15. run'[Owner].pc = "refund" => LockedBalance' = 0
  BY <1>1 DEF Revoking, AfterRevoke
<1> QED
  BY <1>5, <1>6, <1>7, <1>8, <1>9, <1>10, <1>11, <1>12, <1>13, <1>14, <1>15
     DEF Revoking

\* A terminal other than the one that moves knows the cUSD as before.
LEMMA SeenKept ==
  ASSUME TypeOK, DollarsSeen, NEW p \in People, OnlyAt(p),
         c'.dollars \in Nat, c'.dollars <= c.dollars,
         run'[p].op = "withdraw" => run'[p].pc # "send",
         p = Owner
         => /\ (run'[p].pc = "rescue" /\ ~run'[p].late) => c'.dollars = run'[p].value
            /\ (run'[p].pc \in {"remaining?", "refund"} /\ ~run'[p].late)
               => c'.dollars = 0,
         p # Owner /\ run[Owner].pc = "rescue" => c'.dollars = c.dollars
  PROVE  DollarsSeen'
<1>1. c.dollars \in Nat
  BY FieldsAreTyped DEF TypeOK
<1>2. c.dollars = 0 => c'.dollars = 0
  BY <1>1
<1>3. Owner \in People
  BY DEF People
<1>4. ASSUME NEW q \in People, q # p PROVE run'[q] = run[q]
  BY <1>4 DEF OnlyAt
<1>5. \A q \in People :
        ( /\ run'[q].op = "withdraw" /\ run'[q].pc = "send"
          /\ run'[q].value = run'[q].at /\ ~run'[q].late ) => c'.dollars = 0
  BY <1>2, <1>4 DEF DollarsSeen
<1>6. (run'[Owner].pc = "rescue" /\ ~run'[Owner].late) => c'.dollars = run'[Owner].value
  BY <1>3, <1>4 DEF DollarsSeen
<1>7. (run'[Owner].pc \in {"remaining?", "refund"} /\ ~run'[Owner].late) => c'.dollars = 0
  BY <1>2, <1>3, <1>4 DEF DollarsSeen
<1> QED
  BY <1>5, <1>6, <1>7 DEF DollarsSeen

\* What the others may not disturb when p's terminal ends or goes on.
LEMMA StagesKept ==
  ASSUME Stages, NEW p \in People, OnlyAt(p), named \subseteq named',
         \/ run'[p].op = "none" /\ run'[p].pc = "idle"
         \/ run'[p].op \in SimpleOps /\ run'[p].pc = "send"
         \/ run'[p].op = "withdraw" /\ run'[p].pc = "dollars?"
         \/ run'[p].op = "admin-revoke" /\ p = Owner /\ run'[p].pc \in AdminSteps
         \/ /\ run'[p].op = "set-beneficiary" /\ run'[p].pc \in NamingSteps
            /\ run'[p].heir \in named'
  PROVE  Stages'
<1> SUFFICES ASSUME NEW q \in People
             PROVE \/ run'[q].op = "none" /\ run'[q].pc = "idle"
                   \/ run'[q].op \in SimpleOps /\ run'[q].pc = "send"
                   \/ run'[q].op = "withdraw" /\ run'[q].pc = "dollars?"
                   \/ run'[q].op = "admin-revoke" /\ q = Owner /\ run'[q].pc \in AdminSteps
                   \/ /\ run'[q].op = "set-beneficiary" /\ run'[q].pc \in NamingSteps
                      /\ run'[q].heir \in named'
  BY DEF Stages
<1>1. CASE q = p
  BY <1>1
<1>2. CASE q # p
  <2>1. run'[q] = run[q]
    BY <1>2 DEF OnlyAt
  <2> QED
    BY <2>1 DEF Stages
<1> QED
  BY <1>1, <1>2

\* The steps of a terminal tell which command runs in it.
LEMMA StageTells ==
  ASSUME Stages, NEW p \in People
  PROVE  /\ run[p].pc = "idle" => run[p].op = "none"
         /\ run[p].pc = "send" => run[p].op \in SimpleOps
         /\ run[p].pc \in AdminSteps /\ run[p].op # "withdraw"
            => p = Owner /\ run[p].op = "admin-revoke"
         /\ run[p].pc \in AdminSteps /\ run[p].pc # "dollars?"
            => p = Owner /\ run[p].op = "admin-revoke"
         /\ run[p].pc \in NamingSteps
            => run[p].op = "set-beneficiary" /\ run[p].heir \in named
         /\ run[p].op = "set-beneficiary"
            => run[p].pc \in NamingSteps /\ run[p].heir \in named
         /\ run[p].op = "admin-revoke" => p = Owner /\ run[p].pc \in AdminSteps
  BY DEF Stages, AdminSteps, AfterRevoke, OfAccount, AfterRotate, AfterElection,
         NamingSteps, SimpleOps, ByOwner, ByBeneficiary, ByEither

\* What reading leaves alone.
LEMMA LookingKeeps ==
  ASSUME IInv, Looking, run' \in [People -> Commands]
  PROVE  /\ TypeOK' /\ Unvoted' /\ NoDollarsLost' /\ TurnedBackAt'
         /\ c' = c /\ UNCHANGED <<multisig, history>> /\ named' = named
<1>1. /\ scenario' = scenario /\ c' = c /\ owners' = owners /\ txs' = txs
      /\ failed' = failed /\ cut' = cut /\ raced' = raced /\ named' = named
      /\ UNCHANGED <<multisig, history>>
  BY DEF Looking, multisig, history
<1>2. TypeOK'
  BY <1>1 DEF IInv, TypeOK
<1>3. Unvoted'
  BY <1>1 DEF IInv, Unvoted
<1>4. NoDollarsLost' /\ TurnedBackAt'
  BY <1>1 DEF IInv, NoDollarsLost, TurnedBackAt
<1> QED
  BY <1>1, <1>2, <1>3, <1>4

\* Reading in the terminal of somebody who does not run admin-revoke.
LEMMA RevokingKeptWhenLooking ==
  ASSUME IInv, Looking, NEW p \in People, OnlyAt(p), p = Owner => run'[p].op # "admin-revoke"
  PROVE  Revoking'
<1>1. CASE p = Owner
  BY <1>1 DEF Revoking
<1>2. CASE p # Owner
  <2>1. Owner \in People /\ run'[Owner] = run[Owner]
    BY <1>2 DEF OnlyAt, People
  <2>2. c' = c
    BY DEF Looking
  <2> QED
    BY <2>1, <2>2 DEF IInv, Revoking, LockedBalance
<1> QED
  BY <1>1, <1>2

-----------------------------------------------------------------------------
(* Initially.                                                              *)

LEMMA InitIsInv == Init => IInv
<1> SUFFICES ASSUME Init PROVE IInv
  OBVIOUS
<1> USE DEF Init
<1>1. \A p \in People : run[p] = Idle
  OBVIOUS
<1>2. \A p \in People : run[p].op = "none" /\ run[p].pc = "idle"
  BY <1>1 DEF Idle
<1>3. Owner \in People /\ Holder \in People
  BY DEF People
<1>4. /\ c.alive /\ c.beneficiary = Holder /\ c.votes = <<>>
      /\ ~c.upvoting /\ ~c.balloting /\ c.dollars = 0
  OBVIOUS
<1>5. TypeOK
  <2>1. c \in Contracts
    <3>1. Total \in Nat /\ Holder \in Addresses /\ "no" \in {"no", "unseen"} \cup Ops
      BY ReleaseGoldAssumption, <1>3 DEF Addresses
    <3>2. <<>> \in Seq(Groups)
      OBVIOUS
    <3> HIDE DEF Addresses, Ops
    <3>3. PICK b \in BOOLEAN :
            c = [alive |-> TRUE, ended |-> "no", beneficiary |-> Holder,
                 revocable |-> b, revoked |-> FALSE, released |-> 0,
                 withdrawn |-> 0, celo |-> Total, locked |-> 0, pending |-> 0,
                 matured |-> 0, dollars |-> 0, received |-> 0,
                 isAccount |-> FALSE, signer |-> Contract, standing |-> "no", votes |-> <<>>,
                 upvoting |-> FALSE, balloting |-> FALSE]
      OBVIOUS
    <3> HIDE DEF Init
    <3> QED
      BY <3>1, <3>2, <3>3 DEF Contracts
  <2>2. txs \in Seq(Transactions)
    OBVIOUS
  <2>3. run \in [People -> Commands]
    BY IdleIsTyped
  <2>4. owners \subseteq Addresses
    BY <1>3 DEF Addresses
  <2>5. IsFiniteSet(named)
    BY FS_EmptySet
  <2> QED
    BY <2>1, <2>2, <2>3, <2>4, <2>5 DEF TypeOK
<1>6. Stages
  BY <1>2 DEF Stages
<1>7. DollarsSeen
  BY <1>2, <1>3 DEF DollarsSeen
<1>8. Unvoted
  BY <1>4 DEF Unvoted
<1>9. Revoking
  BY <1>2, <1>3 DEF Revoking
<1>10. Handed
  <2>1. Naming = {}
    BY <1>2 DEF Naming
  <2>2. NotBegun
    BY <1>4, <2>1 DEF NotBegun, FirstOwners
  <2> QED
    BY <2>1, <2>2 DEF Handed
<1>11. NoDollarsLost /\ TurnedBackAt
  BY <1>4 DEF NoDollarsLost, TurnedBackAt
<1> QED
  BY <1>5, <1>6, <1>7, <1>8, <1>9, <1>10, <1>11 DEF IInv

-----------------------------------------------------------------------------
(* Commands of one transaction.                                            *)

LEMMA SimpleKeeps ==
  ASSUME IInv, NEW p \in People, NEW op \in SimpleOps, NEW value \in Nat,
         Simple(p, op, value)
  PROVE  IInv'
<1> DEFINE r == [Idle EXCEPT !.op = op, !.value = value, !.at = c.celo,
                    !.pc = IF op = "withdraw" THEN "dollars?" ELSE "send"]
<1>1. /\ run[p].pc = "idle" /\ run' = [run EXCEPT ![p] = r]
      /\ UNCHANGED <<scenario, c, multisig, failed, history>>
  BY DEF Simple, Looking
<1>2. TypeOK /\ Stages
  BY DEF IInv
<1>3. r \in Commands
  <2>1. op \in Ops /\ "send" \in Steps /\ "dollars?" \in Steps
    BY DEF Ops, Steps, AdminSteps, AfterRevoke
  <2>2. c.celo \in Nat
    BY <1>2, FieldsAreTyped DEF TypeOK
  <2> DEFINE r1 == [Idle EXCEPT !.op = op]
             r2 == [r1 EXCEPT !.value = value]
             r3 == [r2 EXCEPT !.at = c.celo]
  <2>3. r1 \in Commands
    BY <2>1, IdleIsTyped DEF Commands
  <2>4. r2 \in Commands
    <3> HIDE DEF r1
    <3> QED  BY <2>3 DEF Commands
  <2>5. r3 \in Commands
    <3> HIDE DEF r2
    <3> QED  BY <2>2, <2>4 DEF Commands
  <2>6. [r3 EXCEPT !.pc = IF op = "withdraw" THEN "dollars?" ELSE "send"] \in Commands
    <3> HIDE DEF r3
    <3> QED  BY <2>1, <2>5 DEF Commands
  <2> QED
    BY <2>6
<1>4. /\ r.op = op /\ r.late = FALSE /\ r.value = value /\ r.at = c.celo
      /\ r.pc = IF op = "withdraw" THEN "dollars?" ELSE "send"
  BY DEF Idle
<1> HIDE DEF r
<1>5. OnlyAt(p) /\ run'[p] = r
  BY <1>1, <1>2, <1>3, IsPut DEF TypeOK
<1>6. run[p].op = "none"
  BY <1>1, <1>2, StageTells
<1>7. /\ run'[p].op \in SimpleOps /\ run'[p].op # "set-beneficiary"
      /\ run'[p].op # "admin-revoke"
      /\ run'[p].op = "withdraw" => run'[p].pc = "dollars?"
      /\ run'[p].op # "withdraw" => run'[p].pc = "send"
  BY <1>4, <1>5 DEF SimpleOps, ByOwner, ByBeneficiary, ByEither
<1>8. Looking /\ run' \in [People -> Commands]
  BY <1>1, <1>5 DEF Looking, OnlyAt
<1>9. /\ TypeOK' /\ Unvoted' /\ NoDollarsLost' /\ TurnedBackAt'
      /\ c' = c /\ UNCHANGED <<multisig, history>> /\ named' = named
  BY <1>8, LookingKeeps
<1>10. Stages'
  BY <1>2, <1>5, <1>7, <1>9, StagesKept
<1>11. DollarsSeen'
  <2>1. c.dollars \in Nat
    BY <1>2, FieldsAreTyped DEF TypeOK
  <2>2. DollarsSeen
    BY DEF IInv
  <2> QED
    BY <1>2, <1>5, <1>7, <1>9, <2>1, <2>2, SeenKept
<1>12. Revoking'
  BY <1>5, <1>7, <1>8, RevokingKeptWhenLooking
<1>13. Handed'
  BY <1>5, <1>6, <1>7, <1>9, HandedKeptAt DEF IInv
<1> QED
  BY <1>9, <1>10, <1>11, <1>12, <1>13 DEF IInv

LEMMA CheckDollarsKeeps ==
  ASSUME IInv, NEW p \in People, CheckDollars(p)
  PROVE  IInv'
<1>1. TypeOK /\ Stages /\ run \in [People -> Commands]
  BY DEF IInv, TypeOK
<1>2. run[p].pc = "dollars?" /\ run[p].op = "withdraw" /\ Looking
  BY DEF CheckDollars, At
<1>3. DollarsSeen /\ c.dollars \in Nat
  BY <1>1, FieldsAreTyped DEF IInv, TypeOK
<1>4. CASE LeavesDollars(run[p])
  <2>1. run' = [run EXCEPT ![p] = Idle]
    BY <1>4 DEF CheckDollars, End
  <2>2. OnlyAt(p) /\ run'[p] = Idle
    BY <1>1, <2>1, IsPut, IdleIsTyped
  <2>3. run'[p].op = "none" /\ run'[p].pc = "idle"
    BY <2>2 DEF Idle
  <2>4. /\ TypeOK' /\ Unvoted' /\ NoDollarsLost' /\ TurnedBackAt'
        /\ c' = c /\ UNCHANGED <<multisig, history>> /\ named' = named
    BY <1>2, <2>2, LookingKeeps DEF OnlyAt
  <2>5. Stages'
    BY <1>1, <2>2, <2>3, <2>4, StagesKept
  <2>6. DollarsSeen'
    BY <1>1, <1>3, <2>2, <2>3, <2>4, SeenKept
  <2>7. Revoking'
    BY <1>2, <2>2, <2>3, RevokingKeptWhenLooking
  <2>8. Handed'
    BY <1>2, <2>2, <2>3, <2>4, HandedKeptAt DEF IInv
  <2> QED
    BY <2>4, <2>5, <2>6, <2>7, <2>8 DEF IInv
<1>5. CASE ~LeavesDollars(run[p])
  <2>1. run' = [run EXCEPT ![p].pc = "send"]
    BY <1>5 DEF CheckDollars, Go
  <2>2. /\ OnlyAt(p) /\ run'[p].pc = "send" /\ run'[p].op = "withdraw"
        /\ run'[p].value = run[p].value /\ run'[p].at = run[p].at
    BY <1>1, <1>2, <2>1, PcIsSet DEF Steps
  <2>3. run'[p].value = run'[p].at => c.dollars = 0
    BY <1>3, <1>5, <2>2 DEF LeavesDollars
  <2>4. /\ TypeOK' /\ Unvoted' /\ NoDollarsLost' /\ TurnedBackAt'
        /\ c' = c /\ UNCHANGED <<multisig, history>> /\ named' = named
    BY <1>2, <2>2, LookingKeeps DEF OnlyAt
  <2>5. Stages'
    BY <1>1, <2>2, <2>4, StagesKept DEF SimpleOps, ByBeneficiary
  <2>6. DollarsSeen'
    <3>1. ASSUME NEW q \in People, q # p PROVE run'[q] = run[q]
      BY <2>2, <3>1 DEF OnlyAt
    <3>2. Owner \in People
      BY DEF People
    <3>3. \A q \in People :
            ( /\ run'[q].op = "withdraw" /\ run'[q].pc = "send"
              /\ run'[q].value = run'[q].at /\ ~run'[q].late ) => c'.dollars = 0
      BY <1>3, <2>2, <2>3, <2>4, <3>1 DEF DollarsSeen
    <3>4. /\ (run'[Owner].pc = "rescue" /\ ~run'[Owner].late)
             => c'.dollars = run'[Owner].value
          /\ (run'[Owner].pc \in {"remaining?", "refund"} /\ ~run'[Owner].late)
             => c'.dollars = 0
      BY <1>3, <2>2, <2>4, <3>1, <3>2 DEF DollarsSeen
    <3> QED
      BY <3>3, <3>4 DEF DollarsSeen
  <2>7. Revoking'
    BY <1>2, <2>2, RevokingKeptWhenLooking
  <2>8. Handed'
    BY <1>2, <2>2, <2>4, HandedKeptAt DEF IInv
  <2> QED
    BY <2>4, <2>5, <2>6, <2>7, <2>8 DEF IInv
<1> QED
  BY <1>4, <1>5

LEMMA SendSimpleKeeps ==
  ASSUME IInv, NEW p \in People, SendSimple(p)
  PROVE  IInv'
<1> DEFINE op == run[p].op
           value == run[p].value
<1>1. /\ TypeOK /\ Stages /\ run \in [People -> Commands] /\ c \in Contracts
      /\ DollarsSeen /\ Unvoted /\ Revoking /\ Handed /\ NoDollarsLost /\ TurnedBackAt
  BY DEF IInv, TypeOK
<1>2. /\ run[p].pc = "send" /\ c.alive
      /\ c' = IF Accepts(p, op, value) THEN Effect(p, op, value) ELSE c
      /\ run' = [run EXCEPT ![p] = Idle]
      /\ scenario' = scenario /\ owners' = owners /\ txs' = txs /\ failed' = failed
      /\ cut' = cut /\ raced' = raced /\ named' = named
  BY DEF SendSimple, At, End, multisig, history
<1>3. op \in SimpleOps /\ value \in Nat /\ op # "set-beneficiary"
  BY <1>1, <1>2, StageTells DEF Commands, SimpleOps, ByOwner, ByBeneficiary, ByEither
<1>4. OnlyAt(p) /\ run'[p] = Idle
  BY <1>1, <1>2, IsPut, IdleIsTyped
<1>5. run'[p].op = "none" /\ run'[p].pc = "idle"
  BY <1>4 DEF Idle
<1>6. Owner \in People /\ (p # Owner => run'[Owner] = run[Owner])
  BY <1>4 DEF People, OnlyAt
<1> HIDE DEF op, value
<1>7. c' \in Contracts
  BY <1>1, <1>2, <1>3, EffectIsTyped
<1>8. /\ c'.votes = c.votes /\ c'.upvoting = c.upvoting /\ c'.balloting = c.balloting
      /\ c'.beneficiary = c.beneficiary
      /\ c'.signer = c.signer \/ c'.signer # Contract
      /\ c'.dollars \in Nat /\ c'.dollars <= c.dollars
  <2>1. CASE Accepts(p, op, value)
    BY <1>1, <1>2, <1>3, <2>1, EffectKeeps
  <2>2. c.dollars \in Nat
    BY <1>1, FieldsAreTyped
  <2> QED
    BY <1>2, <2>1, <2>2
<1>9. p # Owner /\ c.revoked
      => /\ c'.revoked = c.revoked /\ c'.isAccount = c.isAccount
         /\ c'.signer = c.signer /\ c'.locked = c.locked /\ c'.pending = c.pending
         /\ c'.matured = c.matured /\ c'.dollars = c.dollars
  <2>1. CASE Accepts(p, op, value)
    BY <1>1, <1>2, <1>3, <2>1, OthersOnlyWithdraw
  <2> QED
    BY <1>2, <2>1
<1>10. TypeOK'
  BY <1>1, <1>2, <1>4, <1>7 DEF TypeOK, OnlyAt
<1>11. Stages'
  BY <1>1, <1>2, <1>4, <1>5, StagesKept
<1>12. DollarsSeen'
  <2>1. p # Owner /\ run[Owner].pc = "rescue" => c'.dollars = c.dollars
    <3>1. run[Owner].pc = "rescue" => run[Owner].op = "admin-revoke"
      BY <1>1, <1>6, StageTells DEF AdminSteps, AfterRevoke
    <3>2. run[Owner].pc = "rescue" => c.revoked
      BY <1>1, <3>1 DEF Revoking, AfterRevoke
    <3> QED
      BY <1>9, <3>2
  <2> QED
    BY <1>1, <1>4, <1>5, <1>8, <2>1, SeenKept
<1>13. Unvoted'
  BY <1>1, <1>8 DEF Unvoted
<1>14. Revoking'
  <2>1. CASE p = Owner
    BY <1>5, <2>1 DEF Revoking
  <2>2. CASE p # Owner
    <3>1. c.revoked
          => /\ c'.revoked /\ c'.isAccount = c.isAccount
             /\ c'.signer = c.signer /\ c'.locked = c.locked
             /\ c'.dollars >= c.dollars
             /\ LockedBalance = 0 => LockedBalance' = 0
      <4>1. c.dollars \in Nat
        BY <1>1, FieldsAreTyped
      <4>2. c.revoked => c'.revoked
        BY <1>9, <2>2
      <4>3. c.revoked => c'.dollars >= c.dollars
        BY <1>9, <2>2, <4>1
      <4>4. c.revoked => (LockedBalance = 0 => LockedBalance' = 0)
        BY <1>9, <2>2 DEF LockedBalance
      <4> QED
        BY <1>9, <2>2, <4>2, <4>3, <4>4
    <3> QED
      BY <1>1, <1>6, <1>7, <1>8, <2>2, <3>1, RevokingKept
  <2> QED
    BY <2>1, <2>2
<1>15. Handed'
  <2>1. UNCHANGED <<multisig, history>>
    BY <1>2 DEF multisig, history
  <2>2. run[p].op # "set-beneficiary" /\ run'[p].op # "set-beneficiary"
    BY <1>3, <1>5 DEF op
  <2> QED
    BY <1>1, <1>4, <1>8, <2>1, <2>2, HandedKeptAt
<1>16. NoDollarsLost'
  <2> SUFFICES ASSUME ~c'.alive, c'.dollars > 0
               PROVE  c'.ended \in {"unseen", "refund-and-finalize"}
    BY DEF NoDollarsLost
  <2>1. Accepts(p, op, value) /\ c' = Effect(p, op, value)
    BY <1>2
  <2>2. /\ op \in {"withdraw", "refund-and-finalize"} /\ c'.dollars = c.dollars
        /\ c'.ended = IF run[p].late \/ (run[p].op = "withdraw" /\ run[p].value # run[p].at)
                      THEN "unseen" ELSE run[p].op
    BY <1>1, <1>2, <1>3, <2>1, EffectDestroys
  <2>3. CASE op = "refund-and-finalize"
    BY <2>2, <2>3 DEF op
  <2>4. CASE op = "withdraw"
    <3>1. run[p].late \/ run[p].value # run[p].at
      BY <1>1, <1>2, <2>2, <2>4 DEF op, DollarsSeen
    <3> QED
      BY <2>2, <2>4, <3>1 DEF op
  <2> QED
    BY <2>2, <2>3, <2>4
<1>17. TurnedBackAt'
  BY <1>1, <1>2 DEF TurnedBackAt
<1> QED
  BY <1>10, <1>11, <1>12, <1>13, <1>14, <1>15, <1>16, <1>17 DEF IInv

-----------------------------------------------------------------------------
(* Everything else.                                                        *)

LEMMA CutKeeps ==
  ASSUME IInv, NEW p \in People, Cut(p)
  PROVE  IInv'
<1>1. /\ TypeOK /\ Stages /\ run \in [People -> Commands] /\ c \in Contracts
      /\ DollarsSeen /\ c.dollars \in Nat
  BY FieldsAreTyped DEF IInv, TypeOK
<1>2. /\ run' = [run EXCEPT ![p] = Idle] /\ cut' = TRUE
      /\ scenario' = scenario /\ c' = c /\ owners' = owners /\ txs' = txs
      /\ failed' = failed /\ raced' = raced /\ named' = named
  BY DEF Cut, End, multisig
<1>3. OnlyAt(p) /\ run'[p] = Idle
  BY <1>1, <1>2, IsPut, IdleIsTyped
<1>4. run'[p].op = "none" /\ run'[p].pc = "idle"
  BY <1>3 DEF Idle
<1>5. TypeOK'
  BY <1>2, <1>3 DEF IInv, TypeOK, OnlyAt
<1>6. Stages'
  BY <1>1, <1>2, <1>3, <1>4, StagesKept
<1>7. DollarsSeen'
  BY <1>1, <1>2, <1>3, <1>4, SeenKept
<1>8. Unvoted'
  BY <1>2 DEF IInv, Unvoted
<1>9. Revoking'
  <2>1. CASE p = Owner
    BY <1>4, <2>1 DEF Revoking
  <2>2. CASE p # Owner
    <3>1. run'[Owner] = run[Owner]
      BY <1>3, <2>2 DEF OnlyAt, People
    <3> QED
      BY <1>2, <3>1 DEF IInv, Revoking, LockedBalance
  <2> QED
    BY <2>1, <2>2
<1>10. Handed'
  BY <1>2 DEF Handed, Calm
<1>11. NoDollarsLost' /\ TurnedBackAt'
  BY <1>2 DEF IInv, NoDollarsLost, TurnedBackAt
<1> QED
  BY <1>5, <1>6, <1>7, <1>8, <1>9, <1>10, <1>11 DEF IInv

\* The chain moves, and no cUSD comes or goes.
LEMMA ChainKeeps ==
  ASSUME IInv, UNCHANGED <<scenario, multisig, run, failed, history>>, c' \in Contracts,
         /\ c'.alive = c.alive /\ c'.ended = c.ended /\ c'.dollars = c.dollars
         /\ c'.beneficiary = c.beneficiary /\ c'.signer = c.signer,
         c.revoked => /\ c'.revoked = c.revoked /\ c'.isAccount = c.isAccount
                      /\ c'.locked = c.locked
                      /\ LockedBalance = 0 => LockedBalance' = 0,
         c.signer # "voter" => c'.votes = c.votes,
         c'.upvoting => c.upvoting \/ c.signer = "voter",
         c'.balloting => c.balloting \/ c.signer = "voter"
  PROVE  IInv'
<1>1. /\ scenario' = scenario /\ owners' = owners /\ txs' = txs /\ run' = run
      /\ failed' = failed /\ cut' = cut /\ raced' = raced /\ named' = named
      /\ UNCHANGED <<multisig, history>>
  BY DEF multisig, history
<1>2. c.dollars \in Nat /\ "voter" # Contract
  BY ReleaseGoldAssumption, FieldsAreTyped DEF IInv, TypeOK
<1>3. TypeOK'
  BY <1>1 DEF IInv, TypeOK
<1>4. Stages'
  BY <1>1 DEF IInv, Stages
<1>5. DollarsSeen'
  BY <1>1 DEF IInv, DollarsSeen
<1>6. Unvoted'
  <2>1. c'.signer = Contract => c'.votes = <<>>
    BY <1>2 DEF IInv, Unvoted
  <2>2. c'.signer = Contract => ~c'.upvoting
    BY <1>2 DEF IInv, Unvoted
  <2>3. c'.signer = Contract => ~c'.balloting
    BY <1>2 DEF IInv, Unvoted
  <2> QED
    BY <2>1, <2>2, <2>3 DEF Unvoted
<1>7. Revoking'
  <2>1. c.revoked => c'.revoked
    OBVIOUS
  <2>2. c'.dollars >= c.dollars
    BY <1>2
  <2> QED
    BY <1>1, <2>1, <2>2, RevokingKept DEF IInv
<1>8. Handed'
  BY <1>1, HandedKept DEF IInv
<1>9. NoDollarsLost'
  <2>1. c'.alive => c.alive
    OBVIOUS
  <2>2. c.alive => c'.alive
    OBVIOUS
  <2> QED
    BY <2>2 DEF IInv, NoDollarsLost
<1>10. TurnedBackAt'
  BY <1>1 DEF IInv, TurnedBackAt
<1> QED
  BY <1>3, <1>4, <1>5, <1>6, <1>7, <1>8, <1>9, <1>10 DEF IInv

LEMMA ReleaseKeeps ==
  ASSUME IInv, Release
  PROVE  IInv'
<1>1. c \in Contracts /\ c.released + 1 \in Nat
  BY FieldsAreTyped DEF IInv, TypeOK
<1>2. c' = [c EXCEPT !.released = c.released + 1]
  BY DEF Release
<1>3. c' \in Contracts
  BY <1>1, <1>2, AmountIsSet
<1>4. /\ c'.alive = c.alive /\ c'.ended = c.ended /\ c'.dollars = c.dollars
      /\ c'.beneficiary = c.beneficiary /\ c'.signer = c.signer
      /\ c'.revoked = c.revoked /\ c'.isAccount = c.isAccount
      /\ c'.locked = c.locked /\ c'.pending = c.pending /\ c'.matured = c.matured
      /\ c'.votes = c.votes /\ c'.upvoting = c.upvoting /\ c'.balloting = c.balloting
  BY <1>1, <1>2 DEF Contracts
<1>5. LockedBalance' = LockedBalance
  BY <1>4 DEF LockedBalance
<1>6. UNCHANGED <<scenario, multisig, run, failed, history>>
  BY DEF Release
<1>7. (c'.upvoting => c.upvoting) /\ (c'.balloting => c.balloting)
  BY <1>4
<1> QED
  BY <1>3, <1>4, <1>5, <1>6, <1>7, ChainKeeps

LEMMA MatureKeeps ==
  ASSUME IInv, Mature
  PROVE  IInv'
<1> DEFINE due == [c EXCEPT !.matured = c.matured + c.pending]
<1>1. /\ c \in Contracts /\ c.matured + c.pending \in Nat
      /\ c.locked \in Nat /\ c.matured \in Nat /\ c.pending \in Nat
  BY FieldsAreTyped DEF IInv, TypeOK
<1>2. c' = [due EXCEPT !.pending = 0]
  BY DEF Mature
<1>3. due \in Contracts
  BY <1>1, AmountIsSet
<1>4. c' \in Contracts
  BY <1>2, <1>3, AmountIsSet
<1>5. /\ c'.alive = c.alive /\ c'.ended = c.ended /\ c'.dollars = c.dollars
      /\ c'.beneficiary = c.beneficiary /\ c'.signer = c.signer
      /\ c'.revoked = c.revoked /\ c'.isAccount = c.isAccount
      /\ c'.locked = c.locked /\ c'.pending = 0 /\ c'.matured = c.matured + c.pending
      /\ c'.votes = c.votes /\ c'.upvoting = c.upvoting /\ c'.balloting = c.balloting
  BY <1>1, <1>2 DEF Contracts
<1>6. LockedBalance' = LockedBalance
  BY <1>1, <1>5 DEF LockedBalance
<1>7. UNCHANGED <<scenario, multisig, run, failed, history>>
  BY DEF Mature
<1>8. (c'.upvoting => c.upvoting) /\ (c'.balloting => c.balloting)
  BY <1>5
<1> QED
  BY <1>4, <1>5, <1>6, <1>7, <1>8, ChainKeeps

LEMMA VoterKeeps ==
  ASSUME IInv, Voter
  PROVE  IInv'
<1>1. c \in Contracts /\ c.votes \in Seq(Groups) /\ c.signer = "voter"
  BY FieldsAreTyped DEF IInv, TypeOK, Voter
<1>2. \/ \E g \in Groups : c' = [c EXCEPT !.votes = Append(@, g)]
      \/ c' = [c EXCEPT !.upvoting = TRUE]
      \/ c' = [c EXCEPT !.balloting = TRUE]
  BY DEF Voter
<1>3. c' \in Contracts
  <2>1. ASSUME NEW g \in Groups, c' = [c EXCEPT !.votes = Append(@, g)]
        PROVE  c' \in Contracts
    <3>1. Append(c.votes, g) \in Seq(Groups)
      BY <1>1
    <3>2. \A v \in Seq(Groups) : [c EXCEPT !.votes = v] \in Contracts
      BY <1>1 DEF Contracts
    <3> QED
      BY <2>1, <3>1, <3>2
  <2> QED
    BY <1>1, <1>2, <2>1, FlagIsSet
<1>4. /\ c'.alive = c.alive /\ c'.ended = c.ended /\ c'.dollars = c.dollars
      /\ c'.beneficiary = c.beneficiary /\ c'.signer = c.signer
      /\ c'.revoked = c.revoked /\ c'.isAccount = c.isAccount
      /\ c'.locked = c.locked /\ c'.pending = c.pending /\ c'.matured = c.matured
  BY <1>1, <1>2 DEF Contracts
<1>5. LockedBalance' = LockedBalance
  BY <1>4 DEF LockedBalance
<1>6. UNCHANGED <<scenario, multisig, run, failed, history>>
  BY DEF Voter
<1> QED
  BY <1>1, <1>3, <1>4, <1>5, <1>6, ChainKeeps

LEMMA ProposalsKeeps ==
  ASSUME IInv, Proposals
  PROVE  IInv'
<1>1. c \in Contracts
  BY DEF IInv, TypeOK
<1>2. \/ c.upvoting /\ c' = [c EXCEPT !.upvoting = FALSE]
      \/ c.balloting /\ c' = [c EXCEPT !.balloting = FALSE]
  BY DEF Proposals
<1>3. c' \in Contracts
  BY <1>1, <1>2, FlagIsSet
<1>4. /\ c'.alive = c.alive /\ c'.ended = c.ended /\ c'.dollars = c.dollars
      /\ c'.beneficiary = c.beneficiary /\ c'.signer = c.signer
      /\ c'.revoked = c.revoked /\ c'.isAccount = c.isAccount
      /\ c'.locked = c.locked /\ c'.pending = c.pending /\ c'.matured = c.matured
      /\ c'.votes = c.votes
  BY <1>1, <1>2 DEF Contracts
<1>5. (c'.upvoting => c.upvoting) /\ (c'.balloting => c.balloting)
  BY <1>1, <1>2 DEF Contracts
<1>6. LockedBalance' = LockedBalance
  BY <1>4 DEF LockedBalance
<1>7. UNCHANGED <<scenario, multisig, run, failed, history>>
  BY DEF Proposals
<1> QED
  BY <1>3, <1>4, <1>5, <1>6, <1>7, ChainKeeps

LEMMA StandingKeeps ==
  ASSUME IInv, Standing
  PROVE  IInv'
<1>1. c \in Contracts
  BY DEF IInv, TypeOK
<1>2. \E s \in {"key", "registered"} : c' = [c EXCEPT !.standing = s]
  BY DEF Standing
<1>3. c' \in Contracts
  BY <1>1, <1>2 DEF Contracts
<1>4. /\ c'.alive = c.alive /\ c'.ended = c.ended /\ c'.dollars = c.dollars
      /\ c'.beneficiary = c.beneficiary /\ c'.signer = c.signer
      /\ c'.revoked = c.revoked /\ c'.isAccount = c.isAccount
      /\ c'.locked = c.locked /\ c'.pending = c.pending /\ c'.matured = c.matured
      /\ c'.votes = c.votes /\ c'.upvoting = c.upvoting /\ c'.balloting = c.balloting
  BY <1>1, <1>2 DEF Contracts
<1>5. LockedBalance' = LockedBalance
  BY <1>4 DEF LockedBalance
<1>6. UNCHANGED <<scenario, multisig, run, failed, history>>
  BY DEF Standing
<1> QED
  BY <1>3, <1>4, <1>5, <1>6, ChainKeeps

\* cUSD arrives, and whoever has looked is overtaken.
LEMMA ArriveKeeps ==
  ASSUME IInv, Arrive
  PROVE  IInv'
<1> DEFINE more == [c EXCEPT !.dollars = c.dollars + 1]
<1>1. /\ TypeOK /\ Stages /\ run \in [People -> Commands] /\ c \in Contracts
      /\ DollarsSeen /\ c.dollars \in Nat /\ c.received \in Nat
  BY FieldsAreTyped DEF IInv, TypeOK
<1>2. /\ c' = [more EXCEPT !.received = c.received + 1] /\ c.alive
      /\ run' = [p \in People |-> [run[p] EXCEPT !.late = @ \/ HasLooked(run[p])]]
      /\ scenario' = scenario /\ owners' = owners /\ txs' = txs /\ failed' = failed
      /\ cut' = cut /\ raced' = raced /\ named' = named
      /\ UNCHANGED <<multisig, history>>
  BY DEF Arrive, multisig, history
<1>3. c.dollars + 1 \in Nat /\ c.received + 1 \in Nat
  BY <1>1
<1>4. more \in Contracts
  BY <1>1, <1>3, AmountIsSet
<1>5. c' \in Contracts
  BY <1>2, <1>3, <1>4, AmountIsSet
<1>6. /\ c'.alive = c.alive /\ c'.ended = c.ended /\ c'.dollars = c.dollars + 1
      /\ c'.beneficiary = c.beneficiary /\ c'.signer = c.signer
      /\ c'.revoked = c.revoked /\ c'.isAccount = c.isAccount
      /\ c'.locked = c.locked /\ c'.pending = c.pending /\ c'.matured = c.matured
      /\ c'.votes = c.votes /\ c'.upvoting = c.upvoting /\ c'.balloting = c.balloting
  BY <1>1, <1>2 DEF Contracts
<1>7. ASSUME NEW p \in People
      PROVE  /\ run'[p] \in Commands
             /\ run'[p].op = run[p].op /\ run'[p].pc = run[p].pc
             /\ run'[p].as = run[p].as /\ run'[p].heir = run[p].heir
             /\ run'[p].old = run[p].old /\ run'[p].value = run[p].value
             /\ run'[p].at = run[p].at /\ run'[p].txos = run[p].txos
             /\ HasLooked(run[p]) => run'[p].late
  <2> DEFINE looked == run[p].late \/ HasLooked(run[p])
  <2>1. run[p] \in Commands /\ run'[p] = [run[p] EXCEPT !.late = looked]
    BY <1>1, <1>2
  <2>2. looked \in BOOLEAN
    OBVIOUS
  <2>3. HasLooked(run[p]) => looked
    OBVIOUS
  <2> HIDE DEF looked
  <2>4. run'[p] \in Commands
    BY <2>1, <2>2 DEF Commands
  <2>5. run'[p].late = looked
    BY <2>1 DEF Commands
  <2>6. /\ run'[p].op = run[p].op /\ run'[p].pc = run[p].pc
        /\ run'[p].as = run[p].as /\ run'[p].heir = run[p].heir
        /\ run'[p].old = run[p].old /\ run'[p].value = run[p].value
        /\ run'[p].at = run[p].at /\ run'[p].txos = run[p].txos
    BY <2>1 DEF Commands
  <2> QED
    BY <2>3, <2>4, <2>5, <2>6
<1>8. Owner \in People
  BY DEF People
<1>9. TypeOK'
  <2>1. run' \in [People -> Commands]
    BY <1>2, <1>7
  <2> QED
    BY <1>1, <1>2, <1>5, <2>1 DEF TypeOK
<1>10. Stages'
  <2>1. ASSUME NEW p \in People
        PROVE  /\ run'[p].op = run[p].op /\ run'[p].pc = run[p].pc
               /\ run'[p].heir = run[p].heir
    BY <1>7
  <2> QED
    BY <1>1, <1>2, <2>1 DEF Stages
<1>11. DollarsSeen'
  <2>1. \A p \in People : run'[p].op = "withdraw" /\ run'[p].pc = "send" => run'[p].late
    BY <1>7 DEF HasLooked
  <2>2. run'[Owner].pc \in {"rescue", "remaining?", "refund"} => run'[Owner].late
    <3> SUFFICES ASSUME run'[Owner].pc \in {"rescue", "remaining?", "refund"}
                 PROVE  run'[Owner].late
      OBVIOUS
    <3>1. run[Owner].pc \in AdminSteps /\ run[Owner].pc # "dollars?"
      BY <1>7, <1>8 DEF AdminSteps, AfterRevoke
    <3>2. run[Owner].op = "admin-revoke"
      BY <1>1, <1>8, <3>1, StageTells
    <3> QED
      BY <1>7, <1>8, <3>2 DEF HasLooked
  <2> QED
    BY <2>1, <2>2 DEF DollarsSeen
<1>12. Unvoted'
  BY <1>6 DEF IInv, Unvoted
<1>13. Revoking'
  <2>1. c.revoked => c'.revoked
    BY <1>6
  <2>2. c'.dollars >= c.dollars
    BY <1>1, <1>6
  <2>3. LockedBalance' = LockedBalance
    BY <1>6 DEF LockedBalance
  <2>4. (c'.upvoting => c.upvoting) /\ (c'.balloting => c.balloting)
    BY <1>6
  <2>5. Revoking
    BY DEF IInv
  <2> QED
    BY <1>1, <1>5, <1>6, <1>7, <1>8, <2>1, <2>2, <2>3, <2>4, <2>5, RevokingKept
<1>14. Handed'
  <2>1. Handed
    BY DEF IInv
  <2> QED
    BY <1>2, <1>6, <1>7, <2>1, HandedKept
<1>15. NoDollarsLost'
  <2>1. c.alive
    BY DEF Arrive
  <2>2. c'.alive = c.alive
    BY <1>6
  <2>3. c'.alive
    BY <2>1, <2>2
  <2> QED
    BY <2>3 DEF NoDollarsLost
<1>16. TurnedBackAt'
  BY <1>2 DEF IInv, TurnedBackAt
<1> QED
  BY <1>9, <1>10, <1>11, <1>12, <1>13, <1>14, <1>15, <1>16 DEF IInv

-----------------------------------------------------------------------------
(* admin-revoke.                                                           *)

LEMMA StartAdminRevokeKeeps ==
  ASSUME IInv, StartAdminRevoke
  PROVE  IInv'
<1> DEFINE r1 == [Idle EXCEPT !.op = "admin-revoke"]
           r == [r1 EXCEPT !.pc = "revoked?"]
<1>1. /\ run[Owner].pc = "idle" /\ run' = [run EXCEPT ![Owner] = r]
      /\ Looking /\ Owner \in People
  BY DEF StartAdminRevoke, People
<1>2. /\ TypeOK /\ Stages /\ run \in [People -> Commands]
      /\ DollarsSeen /\ c.dollars \in Nat
  BY FieldsAreTyped DEF IInv, TypeOK
<1>3. r \in Commands
  <2>1. r1 \in Commands
    BY IdleIsTyped DEF Commands, Ops
  <2>2. "revoked?" \in Steps
    BY DEF Steps, AdminSteps
  <2> HIDE DEF r1
  <2> QED
    BY <2>1, <2>2 DEF Commands
<1>4. r.op = "admin-revoke" /\ r.pc = "revoked?"
  BY DEF Idle
<1> HIDE DEF r
<1>5. OnlyAt(Owner) /\ run'[Owner] = r
  BY <1>1, <1>2, <1>3, IsPut
<1>6. run'[Owner].op = "admin-revoke" /\ run'[Owner].pc = "revoked?"
  BY <1>4, <1>5
<1>7. run[Owner].op = "none"
  BY <1>1, <1>2, StageTells
<1>8. /\ TypeOK' /\ Unvoted' /\ NoDollarsLost' /\ TurnedBackAt'
      /\ c' = c /\ UNCHANGED <<multisig, history>> /\ named' = named
  BY <1>1, <1>5, LookingKeeps DEF OnlyAt
<1>9. Stages'
  BY <1>1, <1>2, <1>5, <1>6, <1>8, StagesKept DEF AdminSteps
<1>10. DollarsSeen'
  BY <1>1, <1>2, <1>5, <1>6, <1>8, SeenKept
<1>11. Revoking'
  BY <1>6 DEF Revoking, AfterRevoke, OfAccount, AfterRotate, AfterElection
<1>12. Handed'
  BY <1>1, <1>5, <1>6, <1>7, <1>8, HandedKeptAt DEF IInv
<1> QED
  BY <1>8, <1>9, <1>10, <1>11, <1>12 DEF IInv

\* What a step of admin-revoke must show for itself.
LEMMA AdminKeeps ==
  ASSUME IInv, OnlyAt(Owner), run[Owner].op = "admin-revoke",
         \/ run'[Owner].op = "none" /\ run'[Owner].pc = "idle"
         \/ run'[Owner].op = "admin-revoke" /\ run'[Owner].pc \in AdminSteps,
         UNCHANGED <<scenario, multisig, history>>,
         failed' \in {failed, "revoke", "election", "upvote", "unlock"},
         c' \in Contracts, c'.beneficiary = c.beneficiary, c'.dollars <= c.dollars,
         ~c'.alive => c'.dollars = 0 \/ c'.ended = "unseen",
         Unvoted', Revoking',
         (run'[Owner].pc = "rescue" /\ ~run'[Owner].late) => c'.dollars = run'[Owner].value,
         (run'[Owner].pc \in {"remaining?", "refund"} /\ ~run'[Owner].late)
         => c'.dollars = 0
  PROVE  IInv'
<1>1. /\ TypeOK /\ Stages /\ DollarsSeen /\ Handed /\ TurnedBackAt
      /\ Owner \in People /\ c'.dollars \in Nat
  BY FieldsAreTyped DEF IInv, People
<1>2. /\ scenario' = scenario /\ owners' = owners /\ txs' = txs
      /\ cut' = cut /\ raced' = raced /\ named' = named
      /\ UNCHANGED <<multisig, history>>
  BY DEF multisig, history
<1>3. TypeOK'
  <2>1. failed' \in {"none"} \cup AdminSteps
    BY <1>1 DEF TypeOK, AdminSteps, AfterRevoke, OfAccount, AfterRotate, AfterElection
  <2> QED
    BY <1>1, <1>2, <2>1 DEF TypeOK, OnlyAt
<1>4. Stages'
  BY <1>1, <1>2, StagesKept
<1>5. DollarsSeen'
  BY <1>1, SeenKept
<1>6. Handed'
  BY <1>1, <1>2, HandedKeptAt
<1>7. NoDollarsLost'
  BY <1>1 DEF NoDollarsLost
<1>8. TurnedBackAt'
  BY <1>1 DEF TurnedBackAt
<1> QED
  BY <1>3, <1>4, <1>5, <1>6, <1>7, <1>8 DEF IInv

LEMMA AdminLookKeeps ==
  ASSUME IInv, Looking, c.alive, OnlyAt(Owner), run[Owner].op = "admin-revoke",
         \/ run'[Owner].op = "none" /\ run'[Owner].pc = "idle"
         \/ run'[Owner].op = "admin-revoke" /\ run'[Owner].pc \in AdminSteps,
         Revoking',
         (run'[Owner].pc = "rescue" /\ ~run'[Owner].late) => c.dollars = run'[Owner].value,
         (run'[Owner].pc \in {"remaining?", "refund"} /\ ~run'[Owner].late)
         => c.dollars = 0
  PROVE  IInv'
<1>1. /\ c' = c /\ failed' = failed /\ c \in Contracts /\ c.dollars \in Nat
      /\ UNCHANGED <<scenario, multisig, history>>
  BY FieldsAreTyped DEF Looking, IInv, TypeOK
<1>2. Unvoted'
  BY <1>1 DEF IInv, Unvoted
<1> QED
  BY <1>1, <1>2, AdminKeeps

\* A question is only asked by admin-revoke.
LEMMA AskGoes ==
  ASSUME IInv, NEW pc \in AdminSteps, pc # "dollars?", NEW yes,
         NEW then \in AdminSteps, NEW else \in AdminSteps,
         Ask(pc, yes, then, else)
  PROVE  /\ Looking /\ c' = c /\ c.alive /\ OnlyAt(Owner)
         /\ run[Owner].op = "admin-revoke" /\ run[Owner].pc = pc
         /\ run'[Owner].op = "admin-revoke" /\ run'[Owner].pc \in AdminSteps
         /\ run'[Owner].pc = IF yes THEN then ELSE else
         /\ run'[Owner].as = run[Owner].as /\ run'[Owner].value = run[Owner].value
         /\ run'[Owner].txos = run[Owner].txos /\ run'[Owner].late = run[Owner].late
<1> DEFINE next == IF yes THEN then ELSE else
<1>1. /\ c.alive /\ run[Owner].pc = pc /\ run' = [run EXCEPT ![Owner].pc = next]
      /\ Looking /\ c' = c
  BY DEF Ask, At, Go, Looking
<1>2. next \in AdminSteps /\ next \in Steps
  BY DEF Steps
<1>3. run \in [People -> Commands] /\ Owner \in People /\ Stages
  BY DEF IInv, TypeOK, People
<1>4. run[Owner].op = "admin-revoke"
  BY <1>1, <1>3, StageTells
<1> HIDE DEF next
<1>5. /\ OnlyAt(Owner)
      /\ run'[Owner].pc = next /\ run'[Owner].op = run[Owner].op
      /\ run'[Owner].as = run[Owner].as /\ run'[Owner].value = run[Owner].value
      /\ run'[Owner].txos = run[Owner].txos /\ run'[Owner].late = run[Owner].late
  BY <1>1, <1>2, <1>3, PcIsSet
<1> QED
  BY <1>1, <1>2, <1>4, <1>5 DEF next

\* A transaction goes through, or ends the command.
LEMMA SendGoes ==
  ASSUME IInv, NEW pc \in AdminSteps, pc # "dollars?", NEW ok, NEW after,
         NEW next \in AdminSteps, SendNext(pc, ok, after, next)
  PROVE  /\ c.alive /\ OnlyAt(Owner)
         /\ run[Owner].op = "admin-revoke" /\ run[Owner].pc = pc
         /\ UNCHANGED <<scenario, multisig, history>>
         /\ ok => /\ c' = after /\ failed' = failed
                  /\ run'[Owner].op = "admin-revoke" /\ run'[Owner].pc = next
                  /\ run'[Owner].as = run[Owner].as
                  /\ run'[Owner].value = run[Owner].value
                  /\ run'[Owner].txos = run[Owner].txos
                  /\ run'[Owner].late = run[Owner].late
         /\ ~ok => /\ c' = c /\ failed' = pc
                   /\ run'[Owner].op = "none" /\ run'[Owner].pc = "idle"
<1>1. /\ c.alive /\ run[Owner].pc = pc /\ UNCHANGED <<scenario, multisig, history>>
  BY DEF SendNext, At
<1>2. run \in [People -> Commands] /\ Owner \in People /\ Stages /\ next \in Steps
  BY DEF IInv, TypeOK, People, Steps
<1>3. run[Owner].op = "admin-revoke"
  BY <1>1, <1>2, StageTells
<1>4. CASE ok
  <2>1. c' = after /\ failed' = failed /\ run' = [run EXCEPT ![Owner].pc = next]
    BY <1>4 DEF SendNext, Go
  <2>2. /\ OnlyAt(Owner)
        /\ run'[Owner].pc = next /\ run'[Owner].op = run[Owner].op
        /\ run'[Owner].as = run[Owner].as /\ run'[Owner].value = run[Owner].value
        /\ run'[Owner].txos = run[Owner].txos /\ run'[Owner].late = run[Owner].late
    BY <1>2, <2>1, PcIsSet
  <2> QED
    BY <1>1, <1>3, <1>4, <2>1, <2>2
<1>5. CASE ~ok
  <2>1. c' = c /\ failed' = pc /\ run' = [run EXCEPT ![Owner] = Idle]
    BY <1>5 DEF SendNext, End
  <2>2. OnlyAt(Owner) /\ run'[Owner] = Idle
    BY <1>2, <2>1, IdleIsTyped, IsPut
  <2>3. run'[Owner].op = "none" /\ run'[Owner].pc = "idle"
    BY <2>2 DEF Idle
  <2> QED
    BY <1>1, <1>3, <1>5, <2>1, <2>2, <2>3
<1> QED
  BY <1>4, <1>5

LEMMA QuestionsKeep ==
  ASSUME IInv,
         \/ Ask("revoked?", c.revoked, "account?", "revoke")
         \/ Ask("account?", c.isAccount, "signer?", "dollars?")
         \/ Ask("votes?", c.votes # <<>>, "build", "governance?")
         \/ Ask("governance?", IsVoting, "upvoting?", "locked?")
         \/ Ask("upvoting?", c.upvoting, "upvote", "referendum?")
         \/ AskReferendum
         \/ Ask("remaining?", LockedBalance = 0, "refund", "print")
  PROVE  IInv'
<1> USE DEF AdminSteps, AfterRevoke, OfAccount, AfterRotate, AfterElection
<1>0. Revoking /\ DollarsSeen
  BY DEF IInv
<1>1. ASSUME Ask("revoked?", c.revoked, "account?", "revoke") PROVE IInv'
  <2>1. /\ Looking /\ c' = c /\ c.alive /\ OnlyAt(Owner)
        /\ run[Owner].op = "admin-revoke" /\ run[Owner].pc = "revoked?"
        /\ run'[Owner].op = "admin-revoke" /\ run'[Owner].pc \in AdminSteps
        /\ run'[Owner].pc = IF c.revoked THEN "account?" ELSE "revoke"
        /\ run'[Owner].as = run[Owner].as /\ run'[Owner].value = run[Owner].value
        /\ run'[Owner].txos = run[Owner].txos /\ run'[Owner].late = run[Owner].late
    BY <1>1, AskGoes
  <2>2. Revoking'
    BY <1>0, <2>1 DEF Revoking
  <2> QED
    BY <1>0, <2>1, <2>2, AdminLookKeeps DEF DollarsSeen
<1>2. ASSUME Ask("account?", c.isAccount, "signer?", "dollars?") PROVE IInv'
  <2>1. /\ Looking /\ c' = c /\ c.alive /\ OnlyAt(Owner)
        /\ run[Owner].op = "admin-revoke" /\ run[Owner].pc = "account?"
        /\ run'[Owner].op = "admin-revoke" /\ run'[Owner].pc \in AdminSteps
        /\ run'[Owner].pc = IF c.isAccount THEN "signer?" ELSE "dollars?"
        /\ run'[Owner].as = run[Owner].as /\ run'[Owner].value = run[Owner].value
        /\ run'[Owner].txos = run[Owner].txos /\ run'[Owner].late = run[Owner].late
    BY <1>2, AskGoes
  <2>2. Revoking'
    BY <1>0, <2>1 DEF Revoking
  <2> QED
    BY <1>0, <2>1, <2>2, AdminLookKeeps DEF DollarsSeen
<1>3. ASSUME Ask("votes?", c.votes # <<>>, "build", "governance?") PROVE IInv'
  <2>1. /\ Looking /\ c' = c /\ c.alive /\ OnlyAt(Owner)
        /\ run[Owner].op = "admin-revoke" /\ run[Owner].pc = "votes?"
        /\ run'[Owner].op = "admin-revoke" /\ run'[Owner].pc \in AdminSteps
        /\ run'[Owner].pc = IF c.votes # <<>> THEN "build" ELSE "governance?"
        /\ run'[Owner].as = run[Owner].as /\ run'[Owner].value = run[Owner].value
        /\ run'[Owner].txos = run[Owner].txos /\ run'[Owner].late = run[Owner].late
    BY <1>3, AskGoes
  <2>2. Revoking'
    BY <1>0, <2>1 DEF Revoking
  <2> QED
    BY <1>0, <2>1, <2>2, AdminLookKeeps DEF DollarsSeen
<1>4. ASSUME Ask("governance?", IsVoting, "upvoting?", "locked?") PROVE IInv'
  <2>1. /\ Looking /\ c' = c /\ c.alive /\ OnlyAt(Owner)
        /\ run[Owner].op = "admin-revoke" /\ run[Owner].pc = "governance?"
        /\ run'[Owner].op = "admin-revoke" /\ run'[Owner].pc \in AdminSteps
        /\ run'[Owner].pc = IF IsVoting THEN "upvoting?" ELSE "locked?"
        /\ run'[Owner].as = run[Owner].as /\ run'[Owner].value = run[Owner].value
        /\ run'[Owner].txos = run[Owner].txos /\ run'[Owner].late = run[Owner].late
    BY <1>4, AskGoes
  <2>2. Revoking'
    BY <1>0, <2>1 DEF Revoking, IsVoting
  <2> QED
    BY <1>0, <2>1, <2>2, AdminLookKeeps DEF DollarsSeen
<1>5. ASSUME Ask("upvoting?", c.upvoting, "upvote", "referendum?") PROVE IInv'
  <2>1. /\ Looking /\ c' = c /\ c.alive /\ OnlyAt(Owner)
        /\ run[Owner].op = "admin-revoke" /\ run[Owner].pc = "upvoting?"
        /\ run'[Owner].op = "admin-revoke" /\ run'[Owner].pc \in AdminSteps
        /\ run'[Owner].pc = IF c.upvoting THEN "upvote" ELSE "referendum?"
        /\ run'[Owner].as = run[Owner].as /\ run'[Owner].value = run[Owner].value
        /\ run'[Owner].txos = run[Owner].txos /\ run'[Owner].late = run[Owner].late
    BY <1>5, AskGoes
  <2>2. Revoking'
    BY <1>0, <2>1 DEF Revoking
  <2> QED
    BY <1>0, <2>1, <2>2, AdminLookKeeps DEF DollarsSeen
<1>6. ASSUME Ask("remaining?", LockedBalance = 0, "refund", "print") PROVE IInv'
  <2>1. /\ Looking /\ c' = c /\ c.alive /\ OnlyAt(Owner)
        /\ run[Owner].op = "admin-revoke" /\ run[Owner].pc = "remaining?"
        /\ run'[Owner].op = "admin-revoke" /\ run'[Owner].pc \in AdminSteps
        /\ run'[Owner].pc = IF LockedBalance = 0 THEN "refund" ELSE "print"
        /\ run'[Owner].as = run[Owner].as /\ run'[Owner].value = run[Owner].value
        /\ run'[Owner].txos = run[Owner].txos /\ run'[Owner].late = run[Owner].late
    BY <1>6, AskGoes
  <2>2. Revoking'
    BY <1>0, <2>1 DEF Revoking, LockedBalance
  <2> QED
    BY <1>0, <2>1, <2>2, AdminLookKeeps DEF DollarsSeen
<1>7. ASSUME NEW entries \in BOOLEAN, c.balloting => entries,
             Ask("referendum?", entries, "ballots", "locked?")
      PROVE  IInv'
  <2>1. /\ Looking /\ c' = c /\ c.alive /\ OnlyAt(Owner)
        /\ run[Owner].op = "admin-revoke" /\ run[Owner].pc = "referendum?"
        /\ run'[Owner].op = "admin-revoke" /\ run'[Owner].pc \in AdminSteps
        /\ run'[Owner].pc = IF entries THEN "ballots" ELSE "locked?"
        /\ run'[Owner].as = run[Owner].as /\ run'[Owner].value = run[Owner].value
        /\ run'[Owner].txos = run[Owner].txos /\ run'[Owner].late = run[Owner].late
    BY <1>7, AskGoes
  <2>2. Revoking'
    BY <1>0, <1>7, <2>1 DEF Revoking
  <2> QED
    BY <1>0, <2>1, <2>2, AdminLookKeeps DEF DollarsSeen
<1> QED
  BY <1>1, <1>2, <1>3, <1>4, <1>5, <1>6, <1>7 DEF AskReferendum

\* A transaction of a simple command as a step of admin-revoke.
LEMMA SendAsGoes ==
  ASSUME IInv, NEW pc \in AdminSteps, pc # "dollars?",
         NEW op \in SimpleOps \ {"withdraw", "refund-and-finalize"}, NEW value \in Nat,
         NEW next \in AdminSteps, SendAs(pc, op, value, next),
         Accepts(Owner, op, value)
  PROVE  /\ c.alive /\ OnlyAt(Owner)
         /\ run[Owner].op = "admin-revoke" /\ run[Owner].pc = pc
         /\ UNCHANGED <<scenario, multisig, history>>
         /\ c' = Effect(Owner, op, value) /\ failed' = failed
         /\ run'[Owner].op = "admin-revoke" /\ run'[Owner].pc = next
         /\ run'[Owner].as = run[Owner].as /\ run'[Owner].late = run[Owner].late
         /\ c' \in Contracts /\ c'.alive /\ c'.beneficiary = c.beneficiary
         /\ c'.dollars <= c.dollars /\ Unvoted' /\ (c.revoked => c'.revoked)
         /\ c'.votes = c.votes
<1>1. /\ c.alive /\ OnlyAt(Owner)
      /\ run[Owner].op = "admin-revoke" /\ run[Owner].pc = pc
      /\ UNCHANGED <<scenario, multisig, history>>
      /\ c' = Effect(Owner, op, value) /\ failed' = failed
      /\ run'[Owner].op = "admin-revoke" /\ run'[Owner].pc = next
      /\ run'[Owner].as = run[Owner].as /\ run'[Owner].late = run[Owner].late
  BY SendGoes DEF SendAs
<1>2. /\ c \in Contracts /\ run \in [People -> Commands] /\ Owner \in People
      /\ Unvoted /\ op \in SimpleOps
  BY DEF IInv, TypeOK, People
<1>3. c' \in Contracts
  BY <1>1, <1>2, EffectIsTyped
<1>4. /\ c'.votes = c.votes /\ c'.upvoting = c.upvoting /\ c'.balloting = c.balloting
      /\ c'.beneficiary = c.beneficiary
      /\ c.revoked => c'.revoked
      /\ c'.signer = c.signer \/ c'.signer # Contract
      /\ c'.dollars <= c.dollars
  BY <1>1, <1>2, EffectKeeps
<1>5. c'.alive
  BY <1>1, <1>2, EffectDestroys
<1>6. Unvoted'
  BY <1>2, <1>4 DEF Unvoted
<1> QED
  BY <1>1, <1>3, <1>4, <1>5, <1>6

LEMMA RevokeKeeps ==
  ASSUME IInv, SendAs("revoke", "revoke", 0, "account?")
  PROVE  IInv'
<1> USE DEF AdminSteps, AfterRevoke, OfAccount, AfterRotate, AfterElection
<1>1. c \in Contracts /\ c.dollars \in Nat /\ Unvoted
  BY FieldsAreTyped DEF IInv, TypeOK
<1>2. CASE Accepts(Owner, "revoke", 0)
  <2>1. /\ OnlyAt(Owner) /\ run[Owner].op = "admin-revoke"
        /\ UNCHANGED <<scenario, multisig, history>>
        /\ c' = Effect(Owner, "revoke", 0) /\ failed' = failed
        /\ run'[Owner].op = "admin-revoke" /\ run'[Owner].pc = "account?"
        /\ c' \in Contracts /\ c'.alive /\ c'.beneficiary = c.beneficiary
        /\ c'.dollars <= c.dollars /\ Unvoted'
    BY <1>2, SendAsGoes DEF SimpleOps, ByOwner
  <2>2. c'.revoked
    BY <1>1, <2>1 DEF Effect, Contracts
  <2>3. Revoking'
    BY <2>1, <2>2 DEF Revoking
  <2> QED
    BY <2>1, <2>3, AdminKeeps
<1>3. CASE ~Accepts(Owner, "revoke", 0)
  <2>1. /\ c.alive /\ OnlyAt(Owner) /\ run[Owner].op = "admin-revoke"
        /\ UNCHANGED <<scenario, multisig, history>>
        /\ c' = c /\ failed' = "revoke"
        /\ run'[Owner].op = "none" /\ run'[Owner].pc = "idle"
    <3> DEFINE ok == Accepts(Owner, "revoke", 0)
               after == Effect(Owner, "revoke", 0)
    <3>1. SendNext("revoke", ok, after, "account?") /\ ~ok
      BY <1>3 DEF SendAs
    <3>2. "revoke" \in AdminSteps /\ "account?" \in AdminSteps
      OBVIOUS
    <3> HIDE DEF ok, after, AdminSteps
    <3>3. /\ c.alive /\ OnlyAt(Owner) /\ run[Owner].op = "admin-revoke"
          /\ UNCHANGED <<scenario, multisig, history>>
      BY <3>1, <3>2, SendGoes
    <3>4. /\ c' = c /\ failed' = "revoke"
          /\ run'[Owner].op = "none" /\ run'[Owner].pc = "idle"
      BY <3>1, <3>2, SendGoes
    <3> QED
      BY <3>3, <3>4
  <2>2. Revoking'
    BY <2>1 DEF Revoking
  <2>3. Unvoted'
    BY <1>1, <2>1 DEF Unvoted
  <2> QED
    BY <1>1, <2>1, <2>2, <2>3, AdminKeeps
<1> QED
  BY <1>2, <1>3

LEMMA RotateKeeps ==
  ASSUME IInv, SendAs("rotate", "authorize", 0, "votes?")
  PROVE  IInv'
<1> USE DEF AdminSteps, AfterRevoke, OfAccount, AfterRotate, AfterElection
<1>1. c \in Contracts /\ Stages /\ Revoking /\ Owner \in People
  BY DEF IInv, TypeOK, People
<1>2. run[Owner].pc = "rotate"
  BY DEF SendAs, SendNext, At
<1>3. run[Owner].op = "admin-revoke"
  BY <1>1, <1>2, StageTells
<1>4. c.revoked /\ c.isAccount /\ c.signer # Contract /\ run[Owner].as = Owner
  BY <1>1, <1>2, <1>3 DEF Revoking
<1>5. Accepts(Owner, "authorize", 0)
  BY <1>4 DEF Accepts, Proper, FirstSigner
<1>6. /\ OnlyAt(Owner)
      /\ UNCHANGED <<scenario, multisig, history>>
      /\ c' = Effect(Owner, "authorize", 0) /\ failed' = failed
      /\ run'[Owner].op = "admin-revoke" /\ run'[Owner].pc = "votes?"
      /\ run'[Owner].as = run[Owner].as
      /\ c' \in Contracts /\ c'.alive /\ c'.beneficiary = c.beneficiary
      /\ c'.dollars <= c.dollars /\ Unvoted' /\ (c.revoked => c'.revoked)
  BY <1>5, SendAsGoes DEF SimpleOps, ByEither
<1>7. c'.signer = Owner /\ c'.isAccount = c.isAccount
  BY <1>1, <1>6 DEF Effect, Contracts
<1>8. c'.revoked /\ c'.isAccount
  BY <1>4, <1>6, <1>7
<1>9. Revoking'
  BY <1>4, <1>6, <1>7, <1>8 DEF Revoking
<1> QED
  BY <1>3, <1>6, <1>9, AdminKeeps

LEMMA UnlockKeeps ==
  ASSUME IInv, SendAs("unlock", "unlock", run[Owner].value, "dollars?")
  PROVE  IInv'
<1> USE DEF AdminSteps, AfterRevoke, OfAccount, AfterRotate, AfterElection
<1>1. /\ c \in Contracts /\ Stages /\ Revoking /\ Owner \in People
      /\ run[Owner].value \in Nat /\ c.locked \in Nat
  BY FieldsAreTyped DEF IInv, TypeOK, People, Commands
<1>2. run[Owner].pc = "unlock"
  BY DEF SendAs, SendNext, At
<1>3. run[Owner].op = "admin-revoke"
  BY <1>1, <1>2, StageTells
<1>4. /\ c.revoked /\ c.isAccount /\ c.votes = <<>> /\ ~c.upvoting /\ ~c.balloting
      /\ run[Owner].value = c.locked
  BY <1>1, <1>2, <1>3 DEF Revoking
<1>5. CASE Accepts(Owner, "unlock", run[Owner].value)
  <2>1. /\ OnlyAt(Owner)
        /\ UNCHANGED <<scenario, multisig, history>> /\ failed' = failed
        /\ run'[Owner].op = "admin-revoke" /\ run'[Owner].pc = "dollars?"
        /\ c' \in Contracts /\ c'.alive /\ c'.beneficiary = c.beneficiary
        /\ c'.dollars <= c.dollars /\ Unvoted' /\ (c.revoked => c'.revoked)
    BY <1>1, <1>5, SendAsGoes DEF SimpleOps, ByEither
  <2>2. Revoking'
    BY <1>4, <2>1 DEF Revoking
  <2> QED
    BY <1>3, <2>1, <2>2, AdminKeeps
<1>6. CASE ~Accepts(Owner, "unlock", run[Owner].value)
  <2> DEFINE ok == Accepts(Owner, "unlock", run[Owner].value)
             after == Effect(Owner, "unlock", run[Owner].value)
  <2>1. SendNext("unlock", ok, after, "dollars?") /\ ~ok
    BY <1>6 DEF SendAs
  <2>2. "unlock" \in AdminSteps /\ "dollars?" \in AdminSteps
    OBVIOUS
  <2>3. c.dollars \in Nat /\ Unvoted
    BY FieldsAreTyped, <1>1 DEF IInv
  <2> HIDE DEF ok, after, AdminSteps
  <2>4. /\ c.alive /\ OnlyAt(Owner) /\ UNCHANGED <<scenario, multisig, history>>
        /\ c' = c /\ failed' = "unlock"
        /\ run'[Owner].op = "none" /\ run'[Owner].pc = "idle"
    BY <2>1, <2>2, SendGoes
  <2>5. Revoking'
    BY <2>4 DEF Revoking
  <2>6. Unvoted'
    BY <2>3, <2>4 DEF Unvoted
  <2> QED
    BY <1>1, <1>3, <2>3, <2>4, <2>5, <2>6, AdminKeeps
<1> QED
  BY <1>5, <1>6

LEMMA RescueKeeps ==
  ASSUME IInv, SendAs("rescue", "transfer-dollars", run[Owner].value, "remaining?")
  PROVE  IInv'
<1> USE DEF AdminSteps, AfterRevoke, OfAccount, AfterRotate, AfterElection
<1>1. /\ c \in Contracts /\ Stages /\ Revoking /\ DollarsSeen /\ Owner \in People
      /\ run[Owner].value \in Nat /\ c.dollars \in Nat
  BY FieldsAreTyped DEF IInv, TypeOK, People, Commands
<1>2. run[Owner].pc = "rescue"
  BY DEF SendAs, SendNext, At
<1>3. run[Owner].op = "admin-revoke"
  BY <1>1, <1>2, StageTells
<1>4. c.revoked /\ run[Owner].value <= c.dollars
  BY <1>1, <1>2, <1>3 DEF Revoking
<1>5. Accepts(Owner, "transfer-dollars", run[Owner].value)
  BY <1>4 DEF Accepts, Proper
<1>6. /\ OnlyAt(Owner)
      /\ UNCHANGED <<scenario, multisig, history>> /\ failed' = failed
      /\ c' = Effect(Owner, "transfer-dollars", run[Owner].value)
      /\ run'[Owner].op = "admin-revoke" /\ run'[Owner].pc = "remaining?"
      /\ run'[Owner].late = run[Owner].late
      /\ c' \in Contracts /\ c'.alive /\ c'.beneficiary = c.beneficiary
      /\ c'.dollars <= c.dollars /\ Unvoted' /\ (c.revoked => c'.revoked)
  BY <1>1, <1>5, SendAsGoes DEF SimpleOps, ByEither
<1>7. Revoking'
  BY <1>4, <1>6 DEF Revoking
<1>8. c'.dollars = c.dollars - run[Owner].value
  BY <1>1, <1>6 DEF Effect, Contracts
<1>9. ~run'[Owner].late => c'.dollars = 0
  BY <1>1, <1>2, <1>6, <1>8 DEF DollarsSeen
<1> QED
  BY <1>3, <1>6, <1>7, <1>9, AdminKeeps

LEMMA UpvoteKeeps ==
  ASSUME IInv, SendUpvote
  PROVE  IInv'
<1> USE DEF AdminSteps, AfterRevoke, OfAccount, AfterRotate, AfterElection
<1> DEFINE ok == run[Owner].as = c.signer /\ c.upvoting
           after == [c EXCEPT !.upvoting = FALSE]
<1>1. c \in Contracts /\ c.dollars \in Nat /\ Unvoted /\ Revoking
  BY FieldsAreTyped DEF IInv, TypeOK
<1>2. /\ c.alive /\ OnlyAt(Owner)
      /\ run[Owner].op = "admin-revoke" /\ run[Owner].pc = "upvote"
      /\ UNCHANGED <<scenario, multisig, history>>
      /\ ok => /\ c' = after /\ failed' = failed
               /\ run'[Owner].op = "admin-revoke" /\ run'[Owner].pc = "referendum?"
               /\ run'[Owner].as = run[Owner].as
      /\ ~ok => /\ c' = c /\ failed' = "upvote"
                /\ run'[Owner].op = "none" /\ run'[Owner].pc = "idle"
  BY SendGoes DEF SendUpvote
<1>3. CASE ok
  <2>1. c' \in Contracts
    BY <1>1, <1>2, <1>3, FlagIsSet
  <2>2. /\ c'.beneficiary = c.beneficiary /\ c'.dollars = c.dollars
        /\ c'.votes = c.votes /\ c'.signer = c.signer /\ c'.balloting = c.balloting
        /\ c'.isAccount = c.isAccount /\ c'.revoked = c.revoked /\ c'.alive = c.alive
        /\ c'.upvoting = FALSE
    BY <1>1, <1>2, <1>3 DEF Contracts
  <2>3. c'.dollars <= c.dollars
    BY <1>1, <2>2
  <2>4. c'.alive
    BY <1>2, <2>2
  <2>5. Unvoted'
    BY <1>1, <2>2 DEF Unvoted
  <2>6. /\ c.revoked /\ c.isAccount /\ c.votes = <<>> /\ run[Owner].as = c.signer
    BY <1>1, <1>2 DEF Revoking
  <2>7. c'.revoked /\ c'.isAccount
    BY <2>2, <2>6
  <2>8. Revoking'
    BY <1>2, <1>3, <2>2, <2>6, <2>7 DEF Revoking
  <2> QED
    BY <1>2, <1>3, <2>1, <2>2, <2>3, <2>4, <2>5, <2>8, AdminKeeps
<1>4. CASE ~ok
  <2>1. Revoking' /\ Unvoted'
    BY <1>1, <1>2, <1>4 DEF Revoking, Unvoted
  <2> QED
    BY <1>1, <1>2, <1>4, <2>1, AdminKeeps
<1> QED
  BY <1>3, <1>4

LEMMA BallotsKeep ==
  ASSUME IInv, SendBallots
  PROVE  IInv'
<1> USE DEF AdminSteps, AfterRevoke, OfAccount, AfterRotate, AfterElection
<1> DEFINE ok == run[Owner].as = c.signer
           after == [c EXCEPT !.balloting = FALSE]
<1>1. c \in Contracts /\ c.dollars \in Nat /\ Unvoted /\ Revoking
  BY FieldsAreTyped DEF IInv, TypeOK
<1>2. /\ c.alive /\ OnlyAt(Owner)
      /\ run[Owner].op = "admin-revoke" /\ run[Owner].pc = "ballots"
      /\ UNCHANGED <<scenario, multisig, history>>
      /\ ok
         => /\ c' = after /\ failed' = failed
            /\ run'[Owner].op = "admin-revoke" /\ run'[Owner].pc = "locked?"
            /\ run'[Owner].as = run[Owner].as
  <2>1. SendNext("ballots", ok, after, "locked?")
    BY DEF SendBallots
  <2> HIDE DEF ok, after
  <2> QED
    BY <2>1, SendGoes
<1>3. /\ c.revoked /\ c.isAccount /\ c.votes = <<>> /\ run[Owner].as = c.signer
      /\ ~c.upvoting
  BY <1>1, <1>2 DEF Revoking
<1>4. c' \in Contracts
  BY <1>1, <1>2, <1>3, FlagIsSet
<1>5. /\ c'.beneficiary = c.beneficiary /\ c'.dollars = c.dollars
      /\ c'.votes = c.votes /\ c'.signer = c.signer /\ c'.upvoting = c.upvoting
      /\ c'.isAccount = c.isAccount /\ c'.revoked = c.revoked /\ c'.alive = c.alive
      /\ c'.balloting = FALSE
  BY <1>1, <1>2, <1>3 DEF Contracts
<1>6. c'.dollars <= c.dollars
  BY <1>1, <1>5
<1>7. c'.alive
  <2>1. c.alive /\ c'.alive = c.alive
    BY <1>2, <1>5
  <2> QED
    BY <2>1
<1>8. Unvoted'
  BY <1>1, <1>5 DEF Unvoted
<1>9. /\ c'.revoked /\ c'.isAccount /\ ~c'.upvoting
  BY <1>3, <1>5
<1>10. Revoking'
  BY <1>2, <1>3, <1>5, <1>9 DEF Revoking
<1> QED
  BY <1>2, <1>3, <1>4, <1>5, <1>6, <1>7, <1>8, <1>10, AdminKeeps

LEMMA RotateSignerKeeps ==
  ASSUME IInv, RotateSigner
  PROVE  IInv'
<1> USE DEF AdminSteps, AfterRevoke, OfAccount, AfterRotate, AfterElection
<1> DEFINE pc == IF FirstSigner THEN "votes?" ELSE "rotate"
           as == IF FirstSigner THEN Contract ELSE Owner
<1>1. /\ run \in [People -> Commands] /\ Owner \in People /\ Stages /\ Revoking
      /\ DollarsSeen /\ c \in Contracts
  BY DEF IInv, TypeOK, People
<1>2. /\ c.alive /\ run[Owner].pc = "signer?" /\ Looking /\ c' = c
      /\ run' = [run EXCEPT ![Owner].pc = pc, ![Owner].as = as]
  BY DEF RotateSigner, At, Looking
<1>3. run[Owner].op = "admin-revoke"
  BY <1>1, <1>2, StageTells
<1>4. pc \in Steps /\ pc \in AdminSteps /\ as \in {Contract, Owner}
  BY DEF Steps
<1>5. /\ OnlyAt(Owner) /\ run'[Owner].pc = pc /\ run'[Owner].as = as
      /\ run'[Owner].op = "admin-revoke"
  <2> HIDE DEF pc, as
  <2> QED
    BY <1>1, <1>2, <1>3, <1>4, PcAndAsAreSet
<1>6. c.revoked /\ c.isAccount
  BY <1>1, <1>2, <1>3 DEF Revoking
<1>7. Revoking'
  BY <1>2, <1>5, <1>6 DEF Revoking, FirstSigner
<1> QED
  BY <1>2, <1>3, <1>4, <1>5, <1>7, AdminLookKeeps

LEMMA BuildElectionKeeps ==
  ASSUME IInv, BuildElection
  PROVE  IInv'
<1> USE DEF AdminSteps, AfterRevoke, OfAccount, AfterRotate, AfterElection
<1> DEFINE pc == IF c.votes = <<>> THEN "governance?" ELSE "election"
           txos == [i \in DOMAIN c.votes |-> [group |-> c.votes[i],
                                              index |-> GroupIndex(i)]]
<1>1. /\ run \in [People -> Commands] /\ Owner \in People /\ Stages /\ Revoking
      /\ c \in Contracts /\ c.votes \in Seq(Groups)
  BY FieldsAreTyped DEF IInv, TypeOK, People
<1>2. /\ c.alive /\ run[Owner].pc = "build" /\ Looking /\ c' = c
      /\ run' = [run EXCEPT ![Owner].pc = pc, ![Owner].txos = txos]
  BY DEF BuildElection, At, Looking
<1>3. run[Owner].op = "admin-revoke"
  BY <1>1, <1>2, StageTells
<1>4. pc \in Steps /\ pc \in AdminSteps
  BY DEF Steps
<1>5. txos \in Seq([group : Groups, index : Nat]) /\ Len(txos) = Len(c.votes)
  <2> DEFINE n == Len(c.votes)
  <2>1. n \in Nat /\ DOMAIN c.votes = 1 .. n
    BY <1>1
  <2>2. \A i \in 1 .. n : [group |-> c.votes[i], index |-> GroupIndex(i)]
                           \in [group : Groups, index : Nat]
    BY <1>1, <2>1 DEF GroupIndex
  <2>3. txos \in [1 .. n -> [group : Groups, index : Nat]]
    BY <2>1, <2>2
  <2> HIDE DEF txos, n
  <2>4. txos \in Seq([group : Groups, index : Nat]) /\ Len(txos) = n
    BY <2>1, <2>3, MapsAreSeqs
  <2> QED
    BY <2>4 DEF n
<1>6. /\ OnlyAt(Owner) /\ run'[Owner].pc = pc /\ run'[Owner].as = run[Owner].as
      /\ run'[Owner].op = "admin-revoke" /\ run'[Owner].txos = txos
  <2> HIDE DEF pc, txos
  <2>1. /\ run \in [People -> Commands] /\ Owner \in People /\ pc \in Steps
        /\ txos \in Seq([group : Groups, index : Nat])
        /\ run' = [run EXCEPT ![Owner].pc = pc, ![Owner].txos = txos]
    BY <1>1, <1>2, <1>4, <1>5
  <2>2. /\ OnlyAt(Owner) /\ run'[Owner].pc = pc /\ run'[Owner].txos = txos
        /\ run'[Owner].op = run[Owner].op /\ run'[Owner].as = run[Owner].as
    BY <2>1, PcAndTxosAreSet
  <2> QED
    BY <1>3, <2>2
<1>7. c.revoked /\ c.isAccount /\ run[Owner].as = c.signer
  BY <1>1, <1>2, <1>3 DEF Revoking
<1> HIDE DEF txos
<1>8. Revoking'
  BY <1>2, <1>5, <1>6, <1>7 DEF Revoking
<1> QED
  BY <1>2, <1>3, <1>4, <1>6, <1>8, AdminLookKeeps

LEMMA ReadLockedKeeps ==
  ASSUME IInv, ReadLocked
  PROVE  IInv'
<1> USE DEF AdminSteps, AfterRevoke, OfAccount, AfterRotate, AfterElection
<1>1. /\ run \in [People -> Commands] /\ Owner \in People /\ Stages /\ Revoking
      /\ c \in Contracts /\ c.locked \in Nat
  BY FieldsAreTyped DEF IInv, TypeOK, People
<1>2. /\ c.alive /\ run[Owner].pc = "locked?" /\ Looking /\ c' = c
      /\ run' = [run EXCEPT ![Owner].value = c.locked, ![Owner].pc = "unlock"]
  BY DEF ReadLocked, At, Looking
<1>3. run[Owner].op = "admin-revoke"
  BY <1>1, <1>2, StageTells
<1>4. /\ OnlyAt(Owner) /\ run'[Owner].pc = "unlock" /\ run'[Owner].as = run[Owner].as
      /\ run'[Owner].op = "admin-revoke" /\ run'[Owner].value = c.locked
  <2>1. /\ run \in [People -> Commands] /\ Owner \in People
        /\ c.locked \in Nat /\ "unlock" \in Steps
        /\ run' = [run EXCEPT ![Owner].value = c.locked, ![Owner].pc = "unlock"]
    BY <1>1, <1>2 DEF Steps
  <2>2. /\ OnlyAt(Owner) /\ run'[Owner].value = c.locked /\ run'[Owner].pc = "unlock"
        /\ run'[Owner].op = run[Owner].op /\ run'[Owner].as = run[Owner].as
    BY <2>1, ValueAndPcAreSet
  <2> QED
    BY <1>3, <2>2
<1>5. /\ c.revoked /\ c.isAccount /\ run[Owner].as = c.signer /\ c.votes = <<>>
      /\ ~c.upvoting /\ ~c.balloting
  BY <1>1, <1>2, <1>3 DEF Revoking
<1>6. Revoking'
  BY <1>2, <1>4, <1>5 DEF Revoking
<1> QED
  BY <1>2, <1>3, <1>4, <1>6, AdminLookKeeps

LEMMA ReadDollarsKeeps ==
  ASSUME IInv, ReadDollars
  PROVE  IInv'
<1> USE DEF AdminSteps, AfterRevoke, OfAccount, AfterRotate, AfterElection
<1> DEFINE pc == IF c.dollars > 0 THEN "rescue" ELSE "remaining?"
<1>1. /\ run \in [People -> Commands] /\ Owner \in People /\ Stages /\ Revoking
      /\ c \in Contracts /\ c.dollars \in Nat
  BY FieldsAreTyped DEF IInv, TypeOK, People
<1>2. /\ c.alive /\ run[Owner].pc = "dollars?" /\ Looking /\ c' = c
      /\ run[Owner].op = "admin-revoke"
      /\ run' = [run EXCEPT ![Owner].value = c.dollars, ![Owner].pc = pc]
  BY DEF ReadDollars, At, Looking
<1>3. pc \in Steps /\ pc \in AdminSteps
  BY DEF Steps
<1>4. /\ OnlyAt(Owner) /\ run'[Owner].pc = pc
      /\ run'[Owner].op = "admin-revoke" /\ run'[Owner].value = c.dollars
  <2> HIDE DEF pc
  <2>1. /\ run \in [People -> Commands] /\ Owner \in People
        /\ c.dollars \in Nat /\ pc \in Steps
        /\ run' = [run EXCEPT ![Owner].value = c.dollars, ![Owner].pc = pc]
    BY <1>1, <1>2, <1>3
  <2>2. /\ OnlyAt(Owner) /\ run'[Owner].value = c.dollars /\ run'[Owner].pc = pc
        /\ run'[Owner].op = run[Owner].op
    BY <2>1, ValueAndPcAreSet
  <2> QED
    BY <1>2, <2>2
<1>5. c.revoked
  BY <1>1, <1>2 DEF Revoking
<1>6. Revoking'
  BY <1>1, <1>2, <1>4, <1>5 DEF Revoking
<1>7. /\ (run'[Owner].pc = "rescue" /\ ~run'[Owner].late) => c.dollars = run'[Owner].value
      /\ (run'[Owner].pc \in {"remaining?", "refund"} /\ ~run'[Owner].late)
         => c.dollars = 0
  BY <1>1, <1>4
<1> QED
  BY <1>2, <1>3, <1>4, <1>6, <1>7, AdminLookKeeps

LEMMA NotYetKeeps ==
  ASSUME IInv, NotYet
  PROVE  IInv'
<1> USE DEF AdminSteps, AfterRevoke
<1>1. run \in [People -> Commands] /\ Owner \in People /\ Stages
  BY DEF IInv, TypeOK, People
<1>2. /\ c.alive /\ run[Owner].pc = "print" /\ Looking
      /\ run' = [run EXCEPT ![Owner] = Idle]
  BY DEF NotYet, At, End
<1>3. run[Owner].op = "admin-revoke"
  BY <1>1, <1>2, StageTells
<1>4. OnlyAt(Owner) /\ run'[Owner] = Idle
  BY <1>1, <1>2, IdleIsTyped, IsPut
<1>5. run'[Owner].op = "none" /\ run'[Owner].pc = "idle"
  BY <1>4 DEF Idle
<1>6. Revoking'
  BY <1>5 DEF Revoking
<1> QED
  BY <1>2, <1>3, <1>4, <1>5, <1>6, AdminLookKeeps

LEMMA RefundKeeps ==
  ASSUME IInv, Refund
  PROVE  IInv'
<1> USE DEF AdminSteps, AfterRevoke
<1>1. /\ run \in [People -> Commands] /\ Owner \in People /\ Stages /\ Revoking
      /\ DollarsSeen /\ Unvoted /\ c \in Contracts /\ c.dollars \in Nat
  BY FieldsAreTyped DEF IInv, TypeOK, People
<1>2. /\ c.alive /\ run[Owner].pc = "refund"
      /\ run' = [run EXCEPT ![Owner] = Idle]
      /\ UNCHANGED <<scenario, multisig, history>>
  BY DEF Refund, At, End
<1>3. run[Owner].op = "admin-revoke"
  BY <1>1, <1>2, StageTells
<1>4. Accepts(Owner, "refund-and-finalize", 0)
  BY <1>1, <1>2, <1>3 DEF Revoking, Accepts
<1>5. c' = Effect(Owner, "refund-and-finalize", 0) /\ failed' = failed
  BY <1>4 DEF Refund
<1>6. OnlyAt(Owner) /\ run'[Owner] = Idle
  BY <1>1, <1>2, IdleIsTyped, IsPut
<1>7. run'[Owner].op = "none" /\ run'[Owner].pc = "idle"
  BY <1>6 DEF Idle
<1>8. "refund-and-finalize" \in SimpleOps /\ 0 \in Nat
  BY DEF SimpleOps, ByOwner
<1>9. c' \in Contracts
  BY <1>1, <1>4, <1>5, <1>8, EffectIsTyped
<1>10. /\ c'.votes = c.votes /\ c'.upvoting = c.upvoting /\ c'.balloting = c.balloting
       /\ c'.beneficiary = c.beneficiary
       /\ c'.signer = c.signer \/ c'.signer # Contract
       /\ c'.dollars <= c.dollars
  BY <1>1, <1>4, <1>5, <1>8, EffectKeeps
<1>11. c'.dollars = c.dollars /\ (run[Owner].late => c'.ended = "unseen")
  <2>1. c' = Destroyed(run[Owner])
    BY <1>5 DEF Effect
  <2>2. c'.dollars = c.dollars
    BY <1>1, <2>1 DEF Destroyed, Contracts
  <2>3. ASSUME run[Owner].late PROVE c'.ended = "unseen"
    BY <1>1, <2>1, <2>3 DEF Destroyed, Contracts
  <2> QED
    BY <2>2, <2>3
<1>12. c'.dollars = 0 \/ c'.ended = "unseen"
  BY <1>1, <1>2, <1>11 DEF DollarsSeen
<1>13. Unvoted'
  BY <1>1, <1>10 DEF Unvoted
<1>14. Revoking'
  BY <1>7 DEF Revoking
<1> QED
  BY <1>2, <1>3, <1>5, <1>6, <1>7, <1>9, <1>10, <1>12, <1>13, <1>14, AdminKeeps

\* One vote is revoked, or the command is turned back at a stale index.
LEMMA SendElectionKeeps ==
  ASSUME IInv, SendElection
  PROVE  IInv'
<1> USE DEF AdminSteps, AfterRevoke, OfAccount, AfterRotate, AfterElection
<1> DEFINE r == run[Owner]
           t == Head(r.txos)
           rest == Tail(r.txos)
           ok == /\ r.as = Owner /\ c.revoked
                 /\ t.index \in DOMAIN c.votes /\ c.votes[t.index] = t.group
           pc == IF rest = <<>> THEN "governance?" ELSE "election"
           votes == WithoutGroup(t.index)
<1>1. /\ run \in [People -> Commands] /\ Owner \in People /\ Stages /\ Revoking
      /\ c \in Contracts /\ c.votes \in Seq(Groups) /\ c.dollars \in Nat
      /\ r.txos \in Seq([group : Groups, index : Nat])
  BY FieldsAreTyped DEF IInv, TypeOK, People, Commands
<1>2. c.alive /\ r.pc = "election" /\ UNCHANGED <<scenario, multisig, history>>
  BY DEF SendElection, At
<1>3. r.op = "admin-revoke"
  BY <1>1, <1>2, StageTells
<1>4. /\ c.revoked /\ c.isAccount /\ r.as = c.signer /\ c.votes # <<>>
      /\ Len(r.txos) = Len(c.votes)
  BY <1>1, <1>2, <1>3 DEF Revoking
<1>5. /\ r.txos # <<>> /\ rest \in Seq([group : Groups, index : Nat])
      /\ Len(rest) = Len(c.votes) - 1
  <2>1. Len(c.votes) \in Nat /\ Len(c.votes) > 0
    BY <1>1, <1>4
  <2>2. r.txos # <<>>
    BY <1>4, <2>1
  <2> QED
    BY <1>1, <1>4, <2>2
<1>6. CASE ok
  <2>1. /\ c' = [c EXCEPT !.votes = votes] /\ failed' = failed
        /\ run' = [run EXCEPT ![Owner].txos = rest, ![Owner].pc = pc]
    <3>1. /\ c' = [c EXCEPT !.votes = votes] /\ failed' = failed
          /\ run' = [run EXCEPT ![Owner].txos = rest,
                       ![Owner].pc = IF rest = <<>> THEN "governance?" ELSE @]
      BY <1>6 DEF SendElection
    <3> QED
      BY <1>1, <1>2, <3>1
  <2>2. pc \in Steps /\ pc \in AdminSteps
    BY DEF Steps
  <2>3. votes \in Seq(Groups) /\ Len(votes) = Len(c.votes) - 1
    <3> DEFINE n == Len(c.votes)
               moved == [c.votes EXCEPT ![t.index] = Last(c.votes)]
    <3>1. n \in Nat /\ n > 0 /\ DOMAIN c.votes = 1 .. n
      BY <1>1, <1>4
    <3>2. Last(c.votes) \in Groups
      BY <1>1, <3>1 DEF Last
    <3>3. moved \in Seq(Groups) /\ Len(moved) = n
      BY <1>1, <1>6, <3>1, <3>2, ExceptSeq
    <3>4. n - 1 \in Nat /\ n - 1 <= Len(moved)
      BY <3>1, <3>3
    <3> HIDE DEF n, moved
    <3>5. SubSeq(moved, 1, n - 1) \in Seq(Groups) /\ Len(SubSeq(moved, 1, n - 1)) = n - 1
      BY <3>1, <3>3, <3>4
    <3> QED
      BY <3>5 DEF WithoutGroup, n, moved
  <2> HIDE DEF rest, votes
  <2>4. c' \in Contracts /\ c'.votes = votes
    <3>1. \A v \in Seq(Groups) : [c EXCEPT !.votes = v] \in Contracts
      BY <1>1 DEF Contracts
    <3> QED
      BY <1>1, <2>1, <2>3, <3>1 DEF Contracts
  <2>5. /\ c'.beneficiary = c.beneficiary /\ c'.dollars = c.dollars
        /\ c'.signer = c.signer /\ c'.isAccount = c.isAccount
        /\ c'.revoked = c.revoked /\ c'.alive = c.alive
    BY <1>1, <2>1 DEF Contracts
  <2>6. c'.revoked /\ c'.isAccount /\ c'.alive
    BY <1>2, <1>4, <2>5
  <2>7. Unvoted'
    BY <1>4, <1>6, <2>5, ReleaseGoldAssumption DEF Unvoted, People
  <2>8. /\ OnlyAt(Owner) /\ run'[Owner].pc = pc /\ run'[Owner].op = "admin-revoke"
        /\ run'[Owner].as = r.as /\ run'[Owner].txos = rest
    <3> HIDE DEF pc
    <3> QED
      BY <1>1, <1>3, <1>5, <2>1, <2>2, TxosAndPcAreSet
  <2>9. CASE rest = <<>>
    <3>1. Len(votes) = 0
      BY <1>5, <2>3, <2>9
    <3>2. votes = <<>>
      BY <2>3, <3>1
    <3>3. Revoking'
      BY <1>4, <2>4, <2>5, <2>6, <2>8, <2>9, <3>2 DEF Revoking
    <3>4. c'.dollars <= c.dollars
      BY <1>1, <2>5
    <3> QED
      BY <1>2, <1>3, <2>1, <2>2, <2>4, <2>5, <2>6, <2>7, <2>8, <2>9, <3>3, <3>4, AdminKeeps
  <2>10. CASE rest # <<>>
    <3>1. Len(votes) = Len(rest)
      BY <1>5, <2>3
    <3>2. Len(rest) # 0
      BY <1>5, <2>10, EmptySeq
    <3>3. votes # <<>>
      BY <3>1, <3>2, EmptySeq
    <3>4. Revoking'
      BY <1>4, <2>4, <2>5, <2>6, <2>8, <2>10, <3>1, <3>3 DEF Revoking
    <3>5. c'.dollars <= c.dollars
      BY <1>1, <2>5
    <3> QED
      BY <1>2, <1>3, <2>1, <2>2, <2>4, <2>5, <2>6, <2>7, <2>8, <2>10, <3>4, <3>5, AdminKeeps
  <2> QED
    BY <2>9, <2>10
<1>7. CASE ~ok
  <2>1. c' = c /\ failed' = "election" /\ run' = [run EXCEPT ![Owner] = Idle]
    BY <1>7 DEF SendElection, End
  <2>2. OnlyAt(Owner) /\ run'[Owner] = Idle
    BY <1>1, <2>1, IdleIsTyped, IsPut
  <2>3. run'[Owner].op = "none" /\ run'[Owner].pc = "idle"
    BY <2>2 DEF Idle
  <2>4. Revoking'
    BY <2>3 DEF Revoking
  <2>5. Unvoted'
    BY <2>1 DEF IInv, Unvoted
  <2> QED
    BY <1>1, <1>2, <1>3, <2>1, <2>2, <2>3, <2>4, <2>5, AdminKeeps
<1> QED
  BY <1>6, <1>7

LEMMA AdminStepKeeps ==
  ASSUME IInv, AdminStep
  PROVE  IInv'
  BY QuestionsKeep, RevokeKeeps, RotateSignerKeeps, RotateKeeps, BuildElectionKeeps,
     SendElectionKeeps, UpvoteKeeps, BallotsKeep, ReadLockedKeeps, UnlockKeeps,
     ReadDollarsKeeps, RescueKeeps, RefundKeeps, NotYetKeeps DEF AdminStep

-----------------------------------------------------------------------------
(* set-beneficiary.                                                        *)

\* What a step of set-beneficiary must show for itself.
LEMMA NamingKeeps ==
  ASSUME IInv, NEW p \in People, OnlyAt(p), TypeOK',
         run[p].op \in {"none", "set-beneficiary"},
         \/ run'[p].op = "none" /\ run'[p].pc = "idle"
         \/ /\ run'[p].op = "set-beneficiary" /\ run'[p].pc \in NamingSteps
            /\ run'[p].heir \in named',
         named \subseteq named', failed' = failed,
         /\ c'.alive = c.alive /\ c'.ended = c.ended /\ c'.dollars = c.dollars
         /\ c'.revoked = c.revoked /\ c'.isAccount = c.isAccount
         /\ c'.signer = c.signer /\ c'.votes = c.votes
         /\ c'.upvoting = c.upvoting /\ c'.balloting = c.balloting
         /\ c'.locked = c.locked /\ c'.pending = c.pending /\ c'.matured = c.matured,
         Handed'
  PROVE  IInv'
<1>1. /\ TypeOK /\ Stages /\ DollarsSeen /\ Unvoted /\ Revoking /\ NoDollarsLost
      /\ TurnedBackAt /\ Owner \in People /\ c.dollars \in Nat
  BY FieldsAreTyped DEF IInv, TypeOK, People
<1>2. Stages'
  BY <1>1, StagesKept
<1>3. DollarsSeen'
  <2>1. run'[p].pc \notin {"rescue", "remaining?", "refund"}
    BY DEF NamingSteps
  <2>2. c'.dollars \in Nat /\ c'.dollars <= c.dollars /\ run'[p].op # "withdraw"
    BY <1>1
  <2> QED
    BY <1>1, <2>1, <2>2, SeenKept
<1>4. Unvoted'
  BY <1>1 DEF Unvoted
<1>5. Revoking'
  <2>1. CASE p = Owner
    BY <2>1 DEF Revoking
  <2>2. CASE p # Owner
    <3>1. run'[Owner] = run[Owner]
      BY <1>1, <2>2 DEF OnlyAt
    <3> QED
      BY <1>1, <3>1 DEF Revoking, LockedBalance
  <2> QED
    BY <2>1, <2>2
<1>6. NoDollarsLost'
  BY <1>1 DEF NoDollarsLost
<1>7. TurnedBackAt'
  BY <1>1 DEF TurnedBackAt
<1> QED
  BY <1>2, <1>3, <1>4, <1>5, <1>6, <1>7 DEF IInv

\* While it is calm, one heir is named.
LEMMA OneHeir ==
  ASSUME IsFiniteSet(named), Cardinality(named) < 2, NEW g \in named, NEW h \in named
  PROVE  g = h
<1> SUFFICES ASSUME g # h PROVE FALSE
  OBVIOUS
<1>1. IsFiniteSet({g}) /\ Cardinality({g}) = 1
  BY FS_Singleton
<1>2. Cardinality({g} \cup {h}) = 2
  BY <1>1, FS_AddElement
<1>3. Cardinality({g} \cup {h}) <= Cardinality(named)
  BY FS_Subset
<1>4. Cardinality(named) \in Nat
  BY FS_CardinalityType
<1> QED
  BY <1>2, <1>3, <1>4

\* Two of the first owners are enough, one is not.
LEMMA Enough ==
  ASSUME NEW p \in FirstOwners, NEW q \in FirstOwners
  PROVE  (Cardinality(({p} \cup {q}) \cap FirstOwners) >= 2) <=> p # q
<1>1. IsFiniteSet({q}) /\ Cardinality({q}) = 1
  BY FS_Singleton
<1>2. ({p} \cup {q}) \cap FirstOwners = {q} \cup {p}
  OBVIOUS
<1>3. CASE p = q
  BY <1>1, <1>2, <1>3
<1>4. CASE p # q
  BY <1>1, <1>2, <1>4, FS_AddElement
<1> QED
  BY <1>3, <1>4

LEMMA StartNamingKeeps ==
  ASSUME IInv, NEW p \in People, NEW heir \in Heirs, StartNaming(p, heir)
  PROVE  IInv'
<1> DEFINE r1 == [Idle EXCEPT !.op = "set-beneficiary"]
           r2 == [r1 EXCEPT !.pc = "current?"]
           r == [r2 EXCEPT !.heir = heir]
<1>1. /\ TypeOK /\ Stages /\ Handed /\ run \in [People -> Commands]
      /\ IsFiniteSet(named) /\ named \subseteq Heirs
  BY DEF IInv, TypeOK
<1>2. /\ run[p].pc = "idle" /\ p \in owners /\ run' = [run EXCEPT ![p] = r]
      /\ raced' = (raced \/ Naming # {}) /\ named' = named \cup {heir}
      /\ scenario' = scenario /\ c' = c /\ owners' = owners /\ txs' = txs
      /\ failed' = failed /\ cut' = cut
  BY DEF StartNaming, multisig
<1>3. r \in Commands
  <2>1. r1 \in Commands
    BY IdleIsTyped DEF Commands, Ops
  <2>2. r2 \in Commands
    <3>1. "current?" \in Steps
      BY DEF Steps, NamingSteps
    <3> HIDE DEF r1
    <3> QED  BY <2>1, <3>1 DEF Commands
  <2>3. heir \in Addresses
    BY DEF Addresses, People
  <2> HIDE DEF r2
  <2> QED
    BY <2>2, <2>3 DEF Commands
<1>4. r.op = "set-beneficiary" /\ r.pc = "current?" /\ r.heir = heir
  BY DEF Idle
<1> HIDE DEF r
<1>5. OnlyAt(p) /\ run'[p] = r
  BY <1>1, <1>2, <1>3, IsPut
<1>6. run[p].op = "none"
  BY <1>1, <1>2, StageTells
<1>7. IsFiniteSet(named')
  BY <1>1, <1>2, FS_AddElement
<1>8. TypeOK'
  BY <1>1, <1>2, <1>5, <1>7 DEF TypeOK, OnlyAt
<1>9. Handed'
  <2> SUFFICES ASSUME Calm'
               PROVE  /\ \A q1, q2 \in Naming' : q1 = q2
                      /\ NotBegun' \/ Done'
    BY DEF Handed
  <2>1. ~cut /\ ~raced /\ Naming = {} /\ Cardinality(named') < 2
    BY <1>2 DEF Calm
  <2>2. Cardinality(named) <= Cardinality(named') /\ Cardinality(named) \in Nat
        /\ Cardinality(named') \in Nat
    BY <1>1, <1>2, <1>7, FS_Subset, FS_CardinalityType
  <2>3. Calm
    BY <2>1, <2>2 DEF Calm
  <2>4. NotBegun \/ Done
    BY <1>1, <2>1, <2>3 DEF Handed, HalfAsked, HalfDone
  <2>5. Naming' = {p}
    BY <1>4, <1>5, <2>1 DEF Naming, OnlyAt
  <2>6. CASE NotBegun
    BY <1>2, <1>4, <1>5, <2>5, <2>6 DEF NotBegun, BothAsked
  <2>7. CASE Done
    <3>1. c'.beneficiary \in named /\ c'.beneficiary \in owners
      BY <1>2, <2>7 DEF Done
    <3>2. \A i \in DOMAIN txs : txs[i].call.new \in named
      BY <2>7 DEF Done
    <3>3. \A i \in DOMAIN txs' : txs'[i].call.new \in named'
      BY <1>2, <3>2
    <3> QED
      BY <1>2, <2>5, <3>1, <3>3 DEF Done
  <2> QED
    BY <2>4, <2>5, <2>6, <2>7
<1>10. /\ run'[p].op = "set-beneficiary" /\ run'[p].pc \in NamingSteps
       /\ run'[p].heir \in named'
  <2>1. heir \in named' /\ "current?" \in NamingSteps
    BY <1>2 DEF NamingSteps
  <2>2. run'[p] = r
    BY <1>5
  <2> QED
    BY <1>4, <2>1, <2>2
<1>11. named \subseteq named'
  BY <1>2
<1> QED
  BY <1>2, <1>5, <1>6, <1>8, <1>9, <1>10, <1>11, NamingKeeps

LEMMA ReadCurrentKeeps ==
  ASSUME IInv, NEW p \in People, ReadCurrent(p)
  PROVE  IInv'
<1>1. /\ TypeOK /\ Stages /\ Handed /\ run \in [People -> Commands]
      /\ c.beneficiary \in Addresses
  BY FieldsAreTyped DEF IInv, TypeOK
<1>2. /\ run[p].pc = "current?" /\ Looking
      /\ run' = [run EXCEPT ![p].old = c.beneficiary, ![p].pc = "scan-set"]
  BY DEF ReadCurrent, At
<1>3. run[p].op = "set-beneficiary" /\ run[p].heir \in named
  BY <1>1, <1>2, StageTells DEF NamingSteps
<1>4. "scan-set" \in Steps /\ "scan-set" \in NamingSteps
  BY DEF Steps, NamingSteps
<1>5. /\ OnlyAt(p) /\ run'[p].old = c.beneficiary /\ run'[p].pc = "scan-set"
      /\ run'[p].op = run[p].op /\ run'[p].heir = run[p].heir
  BY <1>1, <1>2, <1>4, OldAndPcAreSet
<1>6. /\ TypeOK' /\ c' = c /\ UNCHANGED <<multisig, history>> /\ named' = named
  BY <1>2, <1>5, LookingKeeps DEF OnlyAt
<1>7. /\ owners' = owners /\ txs' = txs /\ Calm' = Calm /\ failed' = failed
  <2>1. owners' = owners /\ txs' = txs /\ cut' = cut /\ raced' = raced
    BY <1>6 DEF multisig, history
  <2>2. failed' = failed
    BY <1>2 DEF Looking
  <2>3. Calm' = Calm
    BY <1>6, <2>1 DEF Calm
  <2> QED
    BY <2>1, <2>2, <2>3
<1>8. Naming' = Naming /\ p \in Naming
  BY <1>3, <1>5 DEF Naming, OnlyAt
<1>9. Handed'
  <2> SUFFICES ASSUME Calm
               PROVE  /\ \A q1, q2 \in Naming' : q1 = q2
                      /\ NotBegun' \/ Done'
    BY <1>7 DEF Handed
  <2>1. \A q1, q2 \in Naming : q1 = q2
    BY <1>1 DEF Handed
  <2>2. NotBegun \/ Done
    BY <1>1, <1>2, <1>8 DEF Handed, HalfAsked, HalfDone
  <2>3. CASE NotBegun
    <3>1. Naming' = {p}
      BY <1>8, <2>1
    <3> QED
      BY <1>5, <1>6, <1>7, <1>8, <2>3, <3>1 DEF NotBegun, BothAsked
  <2>4. CASE Done
    <3>1. c.beneficiary \in named /\ c.beneficiary \in owners
      BY <2>4 DEF Done
    <3>2. \A i \in DOMAIN txs : txs[i].call.new \in named
      BY <2>4 DEF Done
    <3> QED
      BY <1>6, <1>7, <1>8, <2>1, <3>1, <3>2 DEF Done
  <2> QED
    BY <1>8, <2>1, <2>2, <2>3, <2>4
<1> QED
  BY <1>3, <1>4, <1>5, <1>6, <1>7, <1>9, NamingKeeps

\* The call that a terminal is about to look for or to send.
LEMMA CallIs ==
  ASSUME NEW p \in People, run[p].pc \in NamingSteps \ {"current?"}
  PROVE  /\ run[p].pc \in {"scan-set", "send-set"} => Call(run[p]) = SetTo(run[p].heir)
         /\ (run[p].pc \in {"scan-replace", "send-replace"} /\ run[p].old = Holder)
            => Call(run[p]) = ReplaceBy(run[p].heir)
         /\ Call(run[p]).new = run[p].heir
  BY DEF Call, SetCall, ReplaceCall, SetTo, ReplaceBy, NamingSteps

LEMMA CallsDiffer == \A g, h : SetTo(g) # ReplaceBy(h)
<1> SUFFICES ASSUME NEW g, NEW h, SetTo(g) = ReplaceBy(h) PROVE FALSE
  OBVIOUS
<1>1. SetTo(g).do = "set" /\ ReplaceBy(h).do = "replace"
  BY DEF SetTo, ReplaceBy
<1> QED
  BY <1>1

LEMMA FewPlaces ==
  ASSUME NEW S, NEW s \in Seq(S)
  PROVE  /\ Len(s) = 1 => DOMAIN s = {1}
         /\ Len(s) = 2 => DOMAIN s = {1, 2}
  OBVIOUS

LEMMA AskedByIs ==
  \A p, call : /\ AskedBy(p, call).call = call /\ AskedBy(p, call).by = {p}
               /\ AskedBy(p, call).executed = FALSE
  BY DEF AskedBy

\* Matching is the last of what it has found, or 0.
LEMMA MatchingIsLast ==
  ASSUME txs \in Seq(Transactions), NEW call, NEW found,
         found = {i \in DOMAIN txs : txs[i].call = call /\ ~txs[i].executed}
  PROVE  /\ Matching(call) \in Nat
         /\ found = {} => Matching(call) = 0
         /\ found # {} => Matching(call) \in found
<1>1. CASE found = {}
  BY <1>1 DEF Matching
<1>2. CASE found # {}
  <2> DEFINE left == {n \in Nat : \E i \in found : n = Len(txs) - i}
  <2>1. Len(txs) \in Nat /\ found \subseteq 1 .. Len(txs)
    OBVIOUS
  <2>2. left \subseteq Nat /\ left # {}
    <3>1. PICK i \in found : TRUE
      BY <1>2
    <3>2. Len(txs) - i \in Nat
      BY <2>1
    <3> QED
      BY <3>2
  <2>3. PICK n \in left : \A m \in left : <<m, n>> \notin OpToRel(<, Nat)
    <3> HIDE DEF left
    <3> QED
      BY <2>2, NatLessThanWellFounded, WFMin
  <2>4. \A m \in left : ~(m < n)
    <3>1. \A m \in left : m \in Nat /\ n \in Nat
      BY <2>2, <2>3
    <3> HIDE DEF left
    <3> QED
      BY <2>3, <3>1 DEF OpToRel
  <2>5. PICK i \in found : n = Len(txs) - i
    OBVIOUS
  <2>6. ASSUME NEW j \in found PROVE j <= i
    <3>1. Len(txs) - j \in left
      BY <2>1
    <3>2. ~(Len(txs) - j < Len(txs) - i)
      BY <2>4, <2>5, <3>1
    <3>3. i \in Nat /\ j \in Nat
      BY <2>1
    <3> HIDE DEF left
    <3> QED
      BY <2>1, <3>2, <3>3
  <2>7. Matching(call) \in found
    <3>1. Matching(call) = CHOOSE k \in found : \A j \in found : j <= k
      BY <1>2 DEF Matching
    <3> QED
      BY <2>6, <3>1
  <2> QED
    BY <1>2, <2>1, <2>7
<1> QED
  BY <1>1, <1>2

LEMMA ScanKeeps ==
  ASSUME IInv, NEW p \in People, Scan(p)
  PROVE  IInv'
<1> DEFINE call == Call(run[p])
           m == Matching(call)
           next == IF run[p].pc = "scan-set" THEN "send-set" ELSE "send-replace"
           found == {i \in DOMAIN txs : txs[i].call = call /\ ~txs[i].executed}
<1>1. /\ TypeOK /\ Stages /\ Handed /\ run \in [People -> Commands]
      /\ txs \in Seq(Transactions) /\ IsFiniteSet(named) /\ named \subseteq Heirs
  BY DEF IInv, TypeOK
<1>2. /\ run[p].pc \in {"scan-set", "scan-replace"} /\ Looking
      /\ run' = [run EXCEPT ![p].at = m, ![p].pc = next]
  BY DEF Scan
<1>3. m \in Nat /\ (found = {} => m = 0) /\ (found # {} => m \in found)
  <2> HIDE DEF call, found
  <2>1. found = {i \in DOMAIN txs : txs[i].call = call /\ ~txs[i].executed}
    BY DEF found
  <2> QED
    BY <1>1, <2>1, MatchingIsLast
<1>4. run[p].op = "set-beneficiary" /\ run[p].heir \in named
  BY <1>1, <1>2, StageTells DEF NamingSteps
<1>5. next \in Steps /\ next \in NamingSteps
  BY DEF Steps, NamingSteps
<1>6. /\ OnlyAt(p) /\ run'[p].at = m /\ run'[p].pc = next
      /\ run'[p].op = run[p].op /\ run'[p].heir = run[p].heir
      /\ run'[p].old = run[p].old
  <2>1. m \in Nat
    BY <1>3
  <2> HIDE DEF m, next, call, found
  <2> QED
    BY <1>1, <1>2, <1>5, <2>1, AtAndPcAreSet
<1>7. /\ TypeOK' /\ c' = c /\ UNCHANGED <<multisig, history>> /\ named' = named
  BY <1>2, <1>6, LookingKeeps DEF OnlyAt
<1>8. /\ owners' = owners /\ txs' = txs /\ Calm' = Calm /\ failed' = failed
  <2>1. owners' = owners /\ txs' = txs /\ cut' = cut /\ raced' = raced
    BY <1>7 DEF multisig, history
  <2>2. failed' = failed
    BY <1>2 DEF Looking
  <2>3. Calm' = Calm
    BY <1>7, <2>1 DEF Calm
  <2> QED
    BY <2>1, <2>2, <2>3
<1>9. Naming' = Naming /\ p \in Naming
  BY <1>4, <1>6 DEF Naming, OnlyAt
<1>10. /\ run[p].pc = "scan-set" => call = SetTo(run[p].heir)
       /\ (run[p].pc = "scan-replace" /\ run[p].old = Holder)
          => call = ReplaceBy(run[p].heir)
  BY <1>2, CallIs DEF NamingSteps
<1>11. Handed'
  <2> HIDE DEF m, call, found
  <2> SUFFICES ASSUME Calm
               PROVE  /\ \A q1, q2 \in Naming' : q1 = q2
                      /\ NotBegun' \/ HalfAsked' \/ HalfDone' \/ Done'
    BY <1>8 DEF Handed
  <2>1. Naming = {p} /\ Naming' = {p}
    BY <1>1, <1>9 DEF Handed
  <2>2. \A h \in named : h = run[p].heir
    BY <1>1, <1>4, OneHeir DEF Calm
  <2>3. CASE NotBegun
    <3>1. run[p].pc = "scan-set" /\ run[p].old = Holder /\ p \in FirstOwners
      BY <1>2, <1>9, <2>3 DEF NotBegun
    <3>2. m = (IF txs = <<>> THEN 0 ELSE 1)
      <4>1. CASE txs = <<>>
        <5>1. found = {}
          BY <4>1 DEF found
        <5> QED
          BY <1>3, <4>1, <5>1
      <4>2. CASE txs # <<>>
        <5>1. PICK q \in FirstOwners, h \in named : BothAsked(q, h)
          BY <2>3, <4>2 DEF NotBegun
        <5>2. h = run[p].heir /\ DOMAIN txs = {1, 2}
          BY <1>1, <2>2, <5>1, FewPlaces DEF BothAsked
        <5>3. call = SetTo(h)
          BY <1>10, <3>1, <5>2
        <5>4. txs[1] = AskedBy(q, SetTo(h)) /\ txs[2] = AskedBy(q, ReplaceBy(h))
          BY <5>1 DEF BothAsked
        <5>5. txs[1].call = call /\ ~txs[1].executed
          BY <5>3, <5>4, AskedByIs
        <5>6. txs[2].call # call
          BY <5>3, <5>4, AskedByIs, CallsDiffer
        <5>7. found = {1}
          BY <5>2, <5>5, <5>6 DEF found
        <5> QED
          BY <1>3, <4>2, <5>7
      <4> QED
        BY <4>1, <4>2
    <3>3. NotBegun'
      BY <1>6, <1>7, <1>8, <2>1, <2>3, <3>1, <3>2 DEF NotBegun, BothAsked
    <3> QED
      BY <2>1, <3>3
  <2>4. CASE HalfAsked
    <3>1. PICK q \in FirstOwners, h \in named :
            /\ Len(txs) = 1 /\ txs[1] = AskedBy(q, SetTo(h))
            /\ Naming = {q} /\ run[q].old = Holder
            /\ run[q].pc \in {"scan-replace", "send-replace"}
      BY <2>4 DEF HalfAsked
    <3>2. q = p /\ run[p].pc = "scan-replace" /\ call = ReplaceBy(run[p].heir)
      BY <1>2, <1>10, <2>1, <3>1
    <3>3. txs[1].call # call
      <4>1. txs[1] = AskedBy(q, SetTo(h)) /\ call = ReplaceBy(run[p].heir)
        BY <3>1, <3>2
      <4> QED
        BY <4>1, AskedByIs, CallsDiffer
    <3>4. found = {}
      <4>1. DOMAIN txs = {1}
        BY <1>1, <3>1, FewPlaces
      <4> QED
        BY <3>3, <4>1 DEF found
    <3>5. m = 0
      BY <1>3, <3>4
    <3>6. /\ Len(txs') = 1 /\ txs'[1] = AskedBy(p, SetTo(h)) /\ h \in named'
          /\ run'[p].old = Holder /\ run'[p].pc = "send-replace" /\ run'[p].at = 0
      BY <1>6, <1>7, <1>8, <3>1, <3>2, <3>5
    <3>7. c'.beneficiary = Holder /\ owners' = FirstOwners
      BY <1>7, <1>8, <2>4 DEF HalfAsked
    <3>8. HalfAsked'
      BY <2>1, <3>1, <3>2, <3>6, <3>7 DEF HalfAsked, FirstOwners
    <3> QED
      BY <2>1, <3>8
  <2>5. CASE HalfDone
    <3>1. PICK o \in FirstOwners, q \in FirstOwners :
            /\ o # q /\ Len(txs) = 2
            /\ txs[1].executed /\ txs[1].call = SetTo(c.beneficiary)
            /\ txs[2] = AskedBy(o, ReplaceBy(c.beneficiary))
            /\ Naming = {q} /\ run[q].old = Holder
            /\ run[q].pc \in {"scan-replace", "send-replace"}
      BY <2>5 DEF HalfDone
    <3>2. c.beneficiary = run[p].heir /\ c.beneficiary \in named /\ owners = FirstOwners
      BY <2>2, <2>5 DEF HalfDone
    <3>3. q = p /\ run[p].pc = "scan-replace" /\ call = ReplaceBy(c.beneficiary)
      BY <1>2, <1>10, <2>1, <3>1, <3>2
    <3>4. DOMAIN txs = {1, 2} /\ txs[2].call = call /\ ~txs[2].executed
      <4>1. DOMAIN txs = {1, 2}
        BY <1>1, <3>1, FewPlaces
      <4>2. txs[2] = AskedBy(o, ReplaceBy(c.beneficiary)) /\ call = ReplaceBy(c.beneficiary)
        BY <3>1, <3>3
      <4> QED
        BY <4>1, <4>2, AskedByIs
    <3>5. txs[1].executed
      BY <3>1
    <3>6. found = {2}
      BY <3>4, <3>5 DEF found
    <3>7. m = 2
      BY <1>3, <3>6
    <3>8. /\ Len(txs') = 2
          /\ txs'[1].executed /\ txs'[1].call = SetTo(c'.beneficiary)
          /\ txs'[2] = AskedBy(o, ReplaceBy(c'.beneficiary))
      BY <1>7, <1>8, <3>1
    <3>9. /\ run'[p].old = Holder /\ run'[p].pc = "send-replace" /\ run'[p].at = 2
      BY <1>6, <3>1, <3>3, <3>7
    <3>10. c'.beneficiary \in named' /\ owners' = FirstOwners
      BY <1>7, <1>8, <3>2
    <3>11. HalfDone'
      BY <2>1, <3>1, <3>3, <3>8, <3>9, <3>10 DEF HalfDone, FirstOwners
    <3> QED
      BY <2>1, <3>11
  <2>6. CASE Done
    <3>1. c.beneficiary \in named /\ c.beneficiary \in owners
      BY <2>6 DEF Done
    <3>2. \A i \in DOMAIN txs : txs[i].call.new \in named
      BY <2>6 DEF Done
    <3>3. Done'
      BY <1>7, <1>8, <3>1, <3>2 DEF Done
    <3> QED
      BY <2>1, <3>3
  <2> QED
    BY <1>1, <2>3, <2>4, <2>5, <2>6 DEF Handed
<1> QED
  BY <1>4, <1>5, <1>6, <1>7, <1>8, <1>11, NamingKeeps

\* A confirmed transaction is one of the multisig's.
LEMMA ConfirmedIsTyped ==
  ASSUME txs \in Seq(Transactions), NEW p \in People, NEW i, NEW call \in Calls
  PROVE  Confirmed(p, i, call) \in Seq(Transactions)
<1> DEFINE by == {p} \cup (IF i \in DOMAIN txs THEN txs[i].by ELSE {})
           enough == Cardinality(by \cap owners) >= 2
           tx == [call |-> call, by |-> by, executed |-> enough]
<1>1. Confirmed(p, i, call) = IF i \in DOMAIN txs THEN [txs EXCEPT ![i] = tx]
                              ELSE Append(txs, tx)
  BY DEF Confirmed
<1>2. by \subseteq People
  <2>1. CASE i \in DOMAIN txs
    <3>1. txs[i] \in Transactions
      BY <2>1
    <3> QED
      BY <2>1, <3>1 DEF Transactions
  <2>2. CASE i \notin DOMAIN txs
    BY <2>2
  <2> QED
    BY <2>1, <2>2
<1>3. enough \in BOOLEAN
  OBVIOUS
<1>4. tx \in Transactions
  <2> HIDE DEF by, enough
  <2> QED
    BY <1>2, <1>3 DEF Transactions
<1>5. CASE i \in DOMAIN txs
  <2> HIDE DEF tx
  <2>1. [txs EXCEPT ![i] = tx] \in Seq(Transactions)
    BY <1>4, <1>5, ExceptSeq
  <2> QED
    BY <1>1, <1>5, <2>1
<1>6. CASE i \notin DOMAIN txs
  <2> HIDE DEF tx
  <2>1. Append(txs, tx) \in Seq(Transactions)
    BY <1>4
  <2> QED
    BY <1>1, <1>6, <2>1
<1> QED
  BY <1>5, <1>6

\* The first of the two asks for a transaction.
LEMMA Asking ==
  ASSUME txs \in Seq(Transactions), owners = FirstOwners, NEW p \in FirstOwners,
         NEW call, NEW i, i = Len(txs) + 1
  PROVE  /\ Confirmed(p, i, call) = Append(txs, AskedBy(p, call))
         /\ Confirmed(p, i, call)[i] = AskedBy(p, call)
         /\ MayConfirm(p, i, call, Confirmed(p, i, call))
<1> DEFINE by == {p} \cup {}
           tx == [call |-> call, by |-> by, executed |-> Cardinality(by \cap owners) >= 2]
<1>1. i \notin DOMAIN txs
  OBVIOUS
<1>2. Confirmed(p, i, call) = Append(txs, tx)
  BY <1>1 DEF Confirmed
<1>3. tx = AskedBy(p, call)
  <2>1. by = {p} /\ by \cap owners = {p} \cup {p}
    OBVIOUS
  <2>2. ~(Cardinality(({p} \cup {p}) \cap FirstOwners) >= 2)
    BY Enough
  <2>3. (Cardinality(by \cap owners) >= 2) = FALSE
    <3> DEFINE enough == Cardinality(by \cap owners) >= 2
    <3>1. by \cap owners = ({p} \cup {p}) \cap FirstOwners
      OBVIOUS
    <3>2. enough \in BOOLEAN
      OBVIOUS
    <3>3. ~enough
      BY <2>2, <3>1
    <3>4. enough = FALSE
      <4> HIDE DEF enough
      <4> QED
        BY <3>2, <3>3
    <3> QED
      BY <3>4
  <2> QED
    BY <2>1, <2>3 DEF AskedBy
<1>4. Append(txs, AskedBy(p, call))[i] = AskedBy(p, call)
  OBVIOUS
<1>5. Confirmed(p, i, call) = Append(txs, AskedBy(p, call))
  BY <1>2, <1>3
<1>6. MayConfirm(p, i, call, Confirmed(p, i, call))
  <2>1. ~Confirmed(p, i, call)[i].executed
    BY <1>4, <1>5, AskedByIs
  <2> QED
    BY <1>1, <2>1 DEF MayConfirm
<1> QED
  BY <1>4, <1>5, <1>6

\* The other one confirms it.
LEMMA Agreeing ==
  ASSUME txs \in Seq(Transactions), owners = FirstOwners,
         NEW p \in FirstOwners, NEW q \in FirstOwners, p # q,
         NEW call, NEW i \in DOMAIN txs, txs[i] = AskedBy(q, call),
         NEW next, next = Confirmed(p, i, call),
         call.do = "replace" => call.old \in owners /\ call.new \notin owners
  PROVE  /\ DOMAIN next = DOMAIN txs /\ Len(next) = Len(txs)
         /\ next[i].executed /\ next[i].call = call
         /\ \A j \in DOMAIN txs : j # i => next[j] = txs[j]
         /\ MayConfirm(p, i, call, next)
<1> DEFINE by == {p} \cup txs[i].by
           enough == Cardinality(by \cap owners) >= 2
           tx == [call |-> call, by |-> by, executed |-> enough]
<1>1. next = [txs EXCEPT ![i] = tx]
  BY DEF Confirmed
<1>2. txs[i].by = {q} /\ ~txs[i].executed
  BY AskedByIs
<1>3. enough
  <2>1. by \cap owners = ({p} \cup {q}) \cap FirstOwners
    BY <1>2
  <2>2. Cardinality(({p} \cup {q}) \cap FirstOwners) >= 2
    BY Enough
  <2> QED
    BY <2>1, <2>2
<1>4. next[i] = tx
  <2> HIDE DEF tx
  <2> QED
    BY <1>1
<1>5. next[i].executed /\ next[i].call = call
  <2>1. tx.executed = enough /\ tx.call = call
    <3> HIDE DEF enough, by
    <3> QED
      OBVIOUS
  <2> HIDE DEF tx, enough
  <2> QED
    BY <1>3, <1>4, <2>1
<1>6. DOMAIN next = DOMAIN txs /\ Len(next) = Len(txs)
  <2> HIDE DEF tx
  <2> QED
    BY <1>1, ExceptSeq
<1>7. \A j \in DOMAIN txs : j # i => next[j] = txs[j]
  <2> HIDE DEF tx
  <2> QED
    BY <1>1
<1>8. MayConfirm(p, i, call, next)
  BY <1>2 DEF MayConfirm
<1> QED
  BY <1>5, <1>6, <1>7, <1>8

AboutToSend(p) == run[p].pc \in {"send-set", "send-replace"}

\* Where a confirmation goes, and what the transactions are with it.
Place(p) == IF run[p].at = 0 THEN Len(txs) + 1 ELSE run[p].at
Taken(p) == Confirmed(p, Place(p), Call(run[p]))
MayTake(p) == MayConfirm(p, Place(p), Call(run[p]), Taken(p))

\* What both outcomes of a confirmation start from.
LEMMA Confirming ==
  ASSUME IInv, NEW p \in People, AboutToSend(p)
  PROVE  /\ run \in [People -> Commands] /\ txs \in Seq(Transactions)
         /\ run[p].op = "set-beneficiary" /\ run[p].heir \in named
         /\ p \in Naming /\ run[p].at \in Nat /\ Len(txs) \in Nat
         /\ Call(run[p]) \in Calls /\ Call(run[p]).new = run[p].heir
         /\ run[p].pc = "send-set" => Call(run[p]) = SetTo(run[p].heir)
         /\ (run[p].pc = "send-replace" /\ run[p].old = Holder)
            => Call(run[p]) = ReplaceBy(run[p].heir)
         /\ Calm => /\ Naming = {p} /\ \A h \in named : h = run[p].heir
                    /\ NotBegun \/ HalfAsked \/ HalfDone \/ Done
<1>1. /\ TypeOK /\ Stages /\ Handed /\ run \in [People -> Commands]
      /\ txs \in Seq(Transactions) /\ IsFiniteSet(named) /\ named \subseteq Heirs
  BY DEF IInv, TypeOK
<1>2. run[p].op = "set-beneficiary" /\ run[p].heir \in named /\ p \in Naming
  BY <1>1, StageTells DEF NamingSteps, Naming, AboutToSend
<1>3. /\ run[p].heir \in Addresses /\ run[p].old \in Addresses /\ run[p].at \in Nat
      /\ Contract \in Addresses
  <2>1. run[p] \in Commands
    BY <1>1
  <2>2. Contract \in Addresses
    BY DEF Addresses
  <2> QED
    BY <2>1, <2>2 DEF Commands
<1>4. Call(run[p]) \in Calls
  BY <1>3 DEF Call, SetCall, ReplaceCall, Calls
<1>5. /\ Call(run[p]).new = run[p].heir
      /\ run[p].pc = "send-set" => Call(run[p]) = SetTo(run[p].heir)
      /\ (run[p].pc = "send-replace" /\ run[p].old = Holder)
         => Call(run[p]) = ReplaceBy(run[p].heir)
  BY CallIs DEF NamingSteps, AboutToSend
<1>6. ASSUME Calm
      PROVE  /\ Naming = {p} /\ \A h \in named : h = run[p].heir
             /\ NotBegun \/ HalfAsked \/ HalfDone \/ Done
  <2>1. Naming = {p}
    BY <1>1, <1>2, <1>6 DEF Handed
  <2>2. \A h \in named : h = run[p].heir
    BY <1>1, <1>2, <1>6, OneHeir DEF Calm
  <2>3. NotBegun \/ HalfAsked \/ HalfDone \/ Done
    BY <1>1, <1>6 DEF Handed
  <2> QED
    BY <2>1, <2>2, <2>3
<1>7. Len(txs) \in Nat
  BY <1>1, LenProperties
<1>8. run \in [People -> Commands] /\ txs \in Seq(Transactions) /\ run[p].at \in Nat
  BY <1>1, <1>3
<1> QED
  BY <1>2, <1>4, <1>5, <1>6, <1>7, <1>8

\* Half asked for, the owner who asks is not turned back.
LEMMA HalfAskedGoesOn ==
  ASSUME IInv, NEW p \in People, AboutToSend(p),
         Calm, HalfAsked
  PROVE  /\ MayTake(p) /\ p \in FirstOwners /\ run[p].pc = "send-replace"
         /\ Taken(p) = Append(txs, AskedBy(p, ReplaceBy(run[p].heir)))
         /\ Taken(p)[Place(p)] = AskedBy(p, ReplaceBy(run[p].heir))
         /\ Len(txs) = 1 /\ txs[1] = AskedBy(p, SetTo(run[p].heir))
<1>1. PICK q \in FirstOwners, h \in named :
        /\ Len(txs) = 1 /\ txs[1] = AskedBy(q, SetTo(h))
        /\ Naming = {q} /\ run[q].old = Holder
        /\ run[q].pc \in {"scan-replace", "send-replace"}
        /\ run[q].pc = "send-replace" => run[q].at = 0
  BY DEF HalfAsked
<1>2. /\ q = p /\ h = run[p].heir /\ txs \in Seq(Transactions)
      /\ run[p].pc = "send-replace" /\ Call(run[p]) = ReplaceBy(run[p].heir)
  BY <1>1, Confirming DEF AboutToSend
<1>3. Place(p) = Len(txs) + 1
  BY <1>1, <1>2 DEF Place
<1>4. owners = FirstOwners
  BY DEF HalfAsked
<1>5. /\ Taken(p) = Append(txs, AskedBy(p, ReplaceBy(run[p].heir)))
      /\ Taken(p)[Place(p)] = AskedBy(p, ReplaceBy(run[p].heir))
      /\ MayTake(p)
  BY <1>2, <1>3, <1>4, Asking DEF Taken, MayTake
<1> QED
  BY <1>1, <1>2, <1>5

\* Nor is, half done, the one who agrees.
LEMMA HalfDoneGoesOn ==
  ASSUME IInv, NEW p \in People, AboutToSend(p),
         Calm, HalfDone
  PROVE  /\ MayTake(p) /\ run[p].pc = "send-replace"
         /\ Call(run[p]) = ReplaceBy(c.beneficiary)
         /\ DOMAIN Taken(p) = {1, 2} /\ Taken(p)[Place(p)].executed
         /\ Taken(p)[1].call = SetTo(c.beneficiary)
         /\ Taken(p)[2].call = ReplaceBy(c.beneficiary)
<1>1. PICK asker \in FirstOwners, q \in FirstOwners :
        /\ asker # q /\ Len(txs) = 2
        /\ txs[1].executed /\ txs[1].call = SetTo(c.beneficiary)
        /\ txs[2] = AskedBy(asker, ReplaceBy(c.beneficiary))
        /\ Naming = {q} /\ run[q].old = Holder
        /\ run[q].pc \in {"scan-replace", "send-replace"}
        /\ run[q].pc = "send-replace" => run[q].at = 2
  BY DEF HalfDone
<1>2. c.beneficiary \in named /\ owners = FirstOwners
  BY DEF HalfDone
<1>3. /\ q = p /\ c.beneficiary = run[p].heir /\ txs \in Seq(Transactions)
      /\ run[p].pc = "send-replace" /\ Call(run[p]) = ReplaceBy(run[p].heir)
  BY <1>1, <1>2, Confirming DEF AboutToSend
<1>4. Place(p) = 2 /\ DOMAIN txs = {1, 2}
  <2>1. run[p].at = 2
    BY <1>1, <1>3
  <2>2. Place(p) = 2
    BY <2>1 DEF Place
  <2>3. DOMAIN txs = {1, 2}
    BY <1>1, <1>3, FewPlaces
  <2> QED
    BY <2>2, <2>3
<1>5. ReplaceBy(c.beneficiary).old \in owners /\ ReplaceBy(c.beneficiary).new \notin owners
  <2>1. named \subseteq Heirs
    BY DEF IInv, TypeOK
  <2> QED
    BY <1>2, <2>1, ReleaseGoldAssumption DEF ReplaceBy, FirstOwners
<1>6. /\ DOMAIN Taken(p) = DOMAIN txs /\ Taken(p)[2].executed
      /\ Taken(p)[2].call = ReplaceBy(c.beneficiary) /\ MayTake(p)
      /\ \A j \in DOMAIN txs : j # 2 => Taken(p)[j] = txs[j]
  <2>1. Taken(p) = Confirmed(p, 2, ReplaceBy(c.beneficiary))
    BY <1>3, <1>4 DEF Taken
  <2>2. /\ 2 \in DOMAIN txs /\ txs[2] = AskedBy(asker, ReplaceBy(c.beneficiary))
        /\ p # asker /\ p \in FirstOwners /\ asker \in FirstOwners
    BY <1>1, <1>3, <1>4
  <2>3. MayConfirm(p, 2, ReplaceBy(c.beneficiary), Taken(p)) => MayTake(p)
    BY <1>3, <1>4 DEF MayTake
  <2>4. owners = FirstOwners /\ txs \in Seq(Transactions)
    BY <1>2, <1>3
  <2> DEFINE call == ReplaceBy(c.beneficiary)
             next == Taken(p)
  <2>5. call.do = "replace" => call.old \in owners /\ call.new \notin owners
    BY <1>5
  <2>6. next = Confirmed(p, 2, call) /\ txs[2] = AskedBy(asker, call)
    BY <2>1, <2>2
  <2> HIDE DEF call, next
  <2>7. /\ DOMAIN next = DOMAIN txs /\ next[2].executed /\ next[2].call = call
        /\ \A j \in DOMAIN txs : j # 2 => next[j] = txs[j]
        /\ MayConfirm(p, 2, call, next)
    BY <2>2, <2>4, <2>5, <2>6, Agreeing
  <2> QED
    BY <2>3, <2>7 DEF call, next
<1>7. Taken(p)[1].call = SetTo(c.beneficiary)
  <2>1. 1 \in DOMAIN txs /\ txs[1].call = SetTo(c.beneficiary)
    BY <1>1, <1>4
  <2> QED
    <3>1. Taken(p)[1] = txs[1]
      BY <1>6, <2>1
    <3> QED
      BY <2>1, <3>1
<1> QED
  BY <1>3, <1>4, <1>6, <1>7

\* A confirmation that the multisig does not take ends the command.
LEMMA RefusedKeeps ==
  ASSUME IInv, NEW p \in People, AboutToSend(p), ~MayTake(p),
         run' = [run EXCEPT ![p] = Idle],
         UNCHANGED <<scenario, c, owners, txs, failed, cut, raced, named>>
  PROVE  IInv'
<1>1. /\ run \in [People -> Commands] /\ run[p].op = "set-beneficiary" /\ p \in Naming
  BY Confirming
<1>2. OnlyAt(p) /\ run'[p] = Idle
  BY <1>1, IdleIsTyped, IsPut
<1>3. run'[p].op = "none" /\ run'[p].pc = "idle"
  BY <1>2 DEF Idle
<1>4. TypeOK'
  BY <1>2 DEF IInv, TypeOK, OnlyAt
<1>5. Naming' = Naming \ {p} /\ \A q \in Naming' : q \in Naming /\ run'[q] = run[q]
  BY <1>2, <1>3 DEF Naming, OnlyAt
<1>6. Handed'
  <2> SUFFICES ASSUME Calm
               PROVE  /\ \A q1, q2 \in Naming' : q1 = q2
                      /\ NotBegun' \/ Done'
    BY DEF Handed, Calm
  <2>1. Naming = {p} /\ (NotBegun \/ HalfAsked \/ HalfDone \/ Done)
    BY Confirming
  <2>2. Naming' = {}
    BY <1>5, <2>1
  <2>3. ~HalfAsked /\ ~HalfDone
    BY HalfAskedGoesOn, HalfDoneGoesOn
  <2>4. CASE NotBegun
    <3>1. NotBegun'
      BY <2>2, <2>4 DEF NotBegun, BothAsked
    <3> QED
      BY <2>2, <3>1
  <2>5. CASE Done
    <3>1. Done'
      BY <2>5 DEF Done
    <3> QED
      BY <2>2, <3>1
  <2> QED
    BY <2>1, <2>3, <2>4, <2>5
<1> QED
  BY <1>1, <1>2, <1>3, <1>4, <1>6, NamingKeeps

\* What the step is when the multisig takes the confirmation.
TakeIt(p) ==
  /\ txs' = Taken(p)
  /\ c' = IF Taken(p)[Place(p)].executed /\ Call(run[p]).do = "set"
          THEN [c EXCEPT !.beneficiary = Call(run[p]).new] ELSE c
  /\ owners' = IF Taken(p)[Place(p)].executed /\ Call(run[p]).do = "replace"
               THEN (owners \ {Call(run[p]).old}) \cup {Call(run[p]).new} ELSE owners
  /\ run' = IF run[p].pc = "send-set" THEN [run EXCEPT ![p].pc = "scan-replace"]
            ELSE [run EXCEPT ![p] = Idle]
  /\ UNCHANGED <<scenario, failed, cut, raced, named>>

LEMMA TakingMoves ==
  ASSUME IInv, NEW p \in People, AboutToSend(p), MayTake(p), TakeIt(p)
  PROVE  /\ OnlyAt(p) /\ TypeOK'
         /\ run[p].pc = "send-set"
            => /\ run'[p].op = "set-beneficiary" /\ run'[p].pc = "scan-replace"
               /\ run'[p].heir \in named' /\ run'[p].old = run[p].old
               /\ Naming' = Naming
         /\ run[p].pc # "send-set"
            => /\ run'[p].op = "none" /\ run'[p].pc = "idle"
               /\ Naming' = Naming \ {p}
         /\ c'.alive = c.alive /\ c'.ended = c.ended /\ c'.dollars = c.dollars
         /\ c'.revoked = c.revoked /\ c'.isAccount = c.isAccount
         /\ c'.signer = c.signer /\ c'.votes = c.votes
         /\ c'.upvoting = c.upvoting /\ c'.balloting = c.balloting
         /\ c'.locked = c.locked /\ c'.pending = c.pending /\ c'.matured = c.matured
<1>1. /\ run \in [People -> Commands] /\ txs \in Seq(Transactions)
      /\ run[p].op = "set-beneficiary" /\ run[p].heir \in named /\ p \in Naming
      /\ Call(run[p]) \in Calls
  BY Confirming
<1>2. Call(run[p]).new \in Addresses
  BY <1>1 DEF Calls
<1>3. c \in Contracts /\ owners \subseteq Addresses
  BY DEF IInv, TypeOK
<1>4. txs' \in Seq(Transactions)
  BY <1>1, ConfirmedIsTyped DEF TakeIt, Taken
<1>5. owners' \subseteq Addresses
  BY <1>2, <1>3 DEF TakeIt
<1>6. ASSUME NEW h \in Addresses
      PROVE  LET k == [c EXCEPT !.beneficiary = h]
             IN  /\ k \in Contracts
                 /\ k.alive = c.alive /\ k.ended = c.ended /\ k.dollars = c.dollars
                 /\ k.revoked = c.revoked /\ k.isAccount = c.isAccount
                 /\ k.signer = c.signer /\ k.votes = c.votes
                 /\ k.upvoting = c.upvoting /\ k.balloting = c.balloting
                 /\ k.locked = c.locked /\ k.pending = c.pending
                 /\ k.matured = c.matured
  BY <1>3 DEF Contracts
<1>7. \/ c' = c
      \/ c' = [c EXCEPT !.beneficiary = Call(run[p]).new]
  BY DEF TakeIt
<1>8. /\ c' \in Contracts
      /\ c'.alive = c.alive /\ c'.ended = c.ended /\ c'.dollars = c.dollars
      /\ c'.revoked = c.revoked /\ c'.isAccount = c.isAccount
      /\ c'.signer = c.signer /\ c'.votes = c.votes
      /\ c'.upvoting = c.upvoting /\ c'.balloting = c.balloting
      /\ c'.locked = c.locked /\ c'.pending = c.pending /\ c'.matured = c.matured
  <2>1. CASE c' = c
    BY <1>3, <2>1
  <2>2. CASE c' = [c EXCEPT !.beneficiary = Call(run[p]).new]
    BY <1>2, <1>6, <2>2
  <2> QED
    BY <1>7, <2>1, <2>2
<1>9. CASE run[p].pc = "send-set"
  <2>1. run' = [run EXCEPT ![p].pc = "scan-replace"] /\ named' = named
    BY <1>9 DEF TakeIt
  <2>2. "scan-replace" \in Steps
    BY DEF Steps, NamingSteps
  <2>3. /\ OnlyAt(p) /\ run'[p].pc = "scan-replace" /\ run'[p].op = run[p].op
        /\ run'[p].heir = run[p].heir /\ run'[p].old = run[p].old
    BY <1>1, <2>1, <2>2, PcIsSet
  <2>4. Naming' = Naming
    BY <1>1, <2>3 DEF Naming, OnlyAt
  <2>5. TypeOK'
    BY <1>4, <1>5, <1>8, <2>3 DEF IInv, TypeOK, OnlyAt, TakeIt
  <2> QED
    <3>1. run'[p].heir \in named' /\ run'[p].op = "set-beneficiary"
      BY <1>1, <2>1, <2>3
    <3> QED
      BY <1>8, <1>9, <2>3, <2>4, <2>5, <3>1
<1>10. CASE run[p].pc # "send-set"
  <2>1. run' = [run EXCEPT ![p] = Idle]
    BY <1>10 DEF TakeIt
  <2>2. OnlyAt(p) /\ run'[p] = Idle
    BY <1>1, <2>1, IdleIsTyped, IsPut
  <2>3. run'[p].op = "none" /\ run'[p].pc = "idle"
    BY <2>2 DEF Idle
  <2>4. Naming' = Naming \ {p}
    BY <2>2, <2>3 DEF Naming, OnlyAt
  <2>5. TypeOK'
    BY <1>4, <1>5, <1>8, <2>2 DEF IInv, TypeOK, OnlyAt, TakeIt
  <2> QED
    BY <1>8, <1>10, <2>2, <2>3, <2>4, <2>5
<1> QED
  BY <1>9, <1>10

\* From nobody having asked, or one having asked for both.
LEMMA TakenFromNotBegun ==
  ASSUME IInv, NEW p \in People, AboutToSend(p), MayTake(p), TakeIt(p),
         Calm, NotBegun
  PROVE  HalfAsked' \/ HalfDone'
<1>1. /\ run[p].pc = "send-set" /\ run[p].old = Holder /\ p \in FirstOwners
      /\ run[p].at = (IF txs = <<>> THEN 0 ELSE 1)
      /\ c.beneficiary = Holder /\ owners = FirstOwners
      /\ txs = <<>> \/ \E q \in FirstOwners, h \in named : BothAsked(q, h)
  BY Confirming DEF NotBegun, AboutToSend
<1> DEFINE call == SetTo(run[p].heir)
<1>2. /\ txs \in Seq(Transactions) /\ run[p].heir \in named /\ Naming = {p}
      /\ Call(run[p]) = call /\ \A h \in named : h = run[p].heir
  BY <1>1, Confirming
<1>3. /\ run'[p].pc = "scan-replace" /\ run'[p].old = Holder
      /\ Naming' = {p} /\ named' = named
  BY <1>1, <1>2, TakingMoves DEF TakeIt
<1>4. call.do = "set" /\ call.do # "replace" /\ call.new = run[p].heir
  BY DEF SetTo
<1>5. owners' = FirstOwners
  BY <1>1, <1>2, <1>4 DEF TakeIt
<1>6. CASE txs = <<>>
  <2>1. Place(p) = 1 /\ Len(txs) = 0
    BY <1>1, <1>6 DEF Place
  <2>2. /\ Taken(p) = Append(txs, AskedBy(p, call))
        /\ Taken(p)[Place(p)] = AskedBy(p, call)
    <3>1. Taken(p) = Confirmed(p, Place(p), call)
      BY <1>2 DEF Taken
    <3>2. Place(p) = Len(txs) + 1
      BY <2>1
    <3> HIDE DEF call
    <3> QED
      BY <1>1, <1>2, <3>1, <3>2, Asking
  <2>3. c'.beneficiary = Holder
    <3>1. ~Taken(p)[Place(p)].executed
      BY <2>2, AskedByIs
    <3> QED
      BY <1>1, <3>1 DEF TakeIt
  <2>4. Len(txs') = 1 /\ txs'[1] = AskedBy(p, call)
    <3>1. txs' = Append(<<>>, AskedBy(p, call))
      BY <1>6, <2>2 DEF TakeIt
    <3> HIDE DEF call
    <3> QED
      BY <3>1
  <2> QED
    BY <1>1, <1>2, <1>3, <1>5, <2>3, <2>4 DEF HalfAsked, FirstOwners
<1>7. CASE txs # <<>>
  <2>1. PICK q \in FirstOwners, h \in named : BothAsked(q, h)
    BY <1>1, <1>7
  <2>2. /\ h = run[p].heir /\ Len(txs) = 2
        /\ txs[1] = AskedBy(q, call) /\ txs[2] = AskedBy(q, ReplaceBy(h))
    BY <1>2, <2>1 DEF BothAsked
  <2>3. Place(p) = 1 /\ DOMAIN txs = {1, 2}
    <3>1. Place(p) = 1
      BY <1>1, <1>7 DEF Place
    <3> QED
      BY <1>2, <2>2, <3>1, FewPlaces
  <2>4. p # q
    <3> SUFFICES ASSUME p = q PROVE FALSE
      OBVIOUS
    <3>1. p \in txs[1].by
      BY <2>2, AskedByIs
    <3>2. MayConfirm(p, 1, call, Taken(p))
      BY <1>2, <2>3 DEF MayTake
    <3> QED
      BY <2>3, <3>1, <3>2 DEF MayConfirm
  <2>5. /\ DOMAIN txs' = DOMAIN txs /\ Len(txs') = 2
        /\ Taken(p)[1].executed /\ Taken(p)[1].call = call
        /\ \A j \in DOMAIN txs : j # 1 => txs'[j] = txs[j]
    <3> DEFINE next == Taken(p)
    <3>1. next = Confirmed(p, 1, call) /\ txs' = next
      BY <1>2, <2>3 DEF Taken, TakeIt
    <3>2. 1 \in DOMAIN txs /\ txs[1] = AskedBy(q, call) /\ q \in FirstOwners
      BY <2>2, <2>3
    <3>3. call.do = "replace" => call.old \in owners /\ call.new \notin owners
      BY <1>4
    <3> HIDE DEF call, next
    <3>4. /\ DOMAIN next = DOMAIN txs /\ Len(next) = Len(txs)
          /\ next[1].executed /\ next[1].call = call
          /\ \A j \in DOMAIN txs : j # 1 => next[j] = txs[j]
      BY <1>1, <1>2, <2>4, <3>1, <3>2, <3>3, Agreeing
    <3>5. Taken(p)[1].executed /\ Taken(p)[1].call = call
      BY <3>4 DEF next
    <3> QED
      BY <2>2, <3>1, <3>4, <3>5
  <2>6. c'.beneficiary = run[p].heir
    <3>1. Taken(p)[Place(p)].executed /\ Call(run[p]).do = "set"
      BY <1>2, <1>4, <2>3, <2>5
    <3>2. c' = [c EXCEPT !.beneficiary = run[p].heir]
      BY <1>2, <1>4, <3>1 DEF TakeIt
    <3>3. c \in Contracts
      BY DEF IInv, TypeOK
    <3> QED
      BY <3>2, <3>3 DEF Contracts
  <2>7. /\ txs'[1].executed /\ txs'[1].call = SetTo(c'.beneficiary)
        /\ txs'[2] = AskedBy(q, ReplaceBy(c'.beneficiary))
    <3>1. txs' = Taken(p) /\ 2 \in DOMAIN txs
      BY <2>3 DEF TakeIt
    <3>2. txs'[2] = txs[2]
      BY <2>5, <3>1
    <3>3. txs'[1].executed /\ txs'[1].call = call
      BY <2>5, <3>1
    <3> QED
      BY <2>2, <2>6, <3>2, <3>3
  <2>8. c'.beneficiary \in named'
    BY <1>2, <1>3, <2>6
  <2> QED
    BY <1>1, <1>3, <1>5, <2>4, <2>5, <2>7, <2>8 DEF HalfDone, FirstOwners
<1> QED
  BY <1>6, <1>7

\* The owner who has asked for one asks for the other.
LEMMA TakenFromHalfAsked ==
  ASSUME IInv, NEW p \in People, AboutToSend(p), MayTake(p), TakeIt(p),
         Calm, HalfAsked
  PROVE  NotBegun' /\ Naming' = {}
<1> DEFINE first == AskedBy(p, SetTo(run[p].heir))
           second == AskedBy(p, ReplaceBy(run[p].heir))
<1>1. /\ p \in FirstOwners /\ run[p].pc = "send-replace"
      /\ Taken(p) = Append(txs, second) /\ Taken(p)[Place(p)] = second
      /\ Len(txs) = 1 /\ txs[1] = first
  BY HalfAskedGoesOn
<1>2. /\ txs \in Seq(Transactions) /\ run[p].heir \in named /\ Naming = {p}
  BY Confirming
<1>3. c.beneficiary = Holder /\ owners = FirstOwners
  BY DEF HalfAsked
<1>4. ~Taken(p)[Place(p)].executed
  BY <1>1, AskedByIs
<1>5. c' = c /\ owners' = owners /\ txs' = Append(txs, second) /\ named' = named
  BY <1>1, <1>4 DEF TakeIt
<1>6. Len(txs') = 2 /\ txs'[1] = first /\ txs'[2] = second
  <2> HIDE DEF first, second
  <2>1. txs' = Append(txs, second) /\ Len(txs) = 1 /\ txs[1] = first
    BY <1>1, <1>5
  <2>2. Len(Append(txs, second)) = Len(txs) + 1
    BY <1>2
  <2>3. Append(txs, second)[Len(txs) + 1] = second
    BY <1>2
  <2>4. \A i \in 1 .. Len(txs) : Append(txs, second)[i] = txs[i]
    BY <1>2
  <2> QED
    BY <2>1, <2>2, <2>3, <2>4
<1>7. Naming' = {}
  BY <1>1, <1>2, TakingMoves
<1>8. \E q \in FirstOwners, h \in named' : BothAsked(q, h)'
  BY <1>1, <1>2, <1>5, <1>6 DEF BothAsked
<1> QED
  BY <1>3, <1>5, <1>7, <1>8 DEF NotBegun

\* The owner who has confirmed one confirms the other.
LEMMA TakenFromHalfDone ==
  ASSUME IInv, NEW p \in People, AboutToSend(p), MayTake(p), TakeIt(p),
         Calm, HalfDone
  PROVE  Done' /\ Naming' = {}
<1>1. /\ run[p].pc = "send-replace" /\ Call(run[p]) = ReplaceBy(c.beneficiary)
      /\ DOMAIN Taken(p) = {1, 2} /\ Taken(p)[Place(p)].executed
      /\ Taken(p)[1].call = SetTo(c.beneficiary)
      /\ Taken(p)[2].call = ReplaceBy(c.beneficiary)
  BY HalfDoneGoesOn
<1>2. c.beneficiary \in named /\ Naming = {p}
  BY Confirming DEF HalfDone
<1>3. /\ Call(run[p]).do = "replace" /\ Call(run[p]).new = c.beneficiary
      /\ Call(run[p]).do # "set"
  BY <1>1 DEF ReplaceBy
<1>4. c' = c /\ c.beneficiary \in owners' /\ txs' = Taken(p) /\ named' = named
  BY <1>1, <1>3 DEF TakeIt
<1>5. \A i \in DOMAIN txs' : txs'[i].call.new = c.beneficiary
  <2>1. SetTo(c.beneficiary).new = c.beneficiary
    BY DEF SetTo
  <2>2. ReplaceBy(c.beneficiary).new = c.beneficiary
    BY DEF ReplaceBy
  <2> QED
    BY <1>1, <1>4, <2>1, <2>2
<1>6. Naming' = {}
  BY <1>1, <1>2, TakingMoves
<1> QED
  BY <1>2, <1>4, <1>5, <1>6 DEF Done

\* What is done stays done.
LEMMA TakenFromDone ==
  ASSUME IInv, NEW p \in People, AboutToSend(p), MayTake(p), TakeIt(p),
         Calm, Done
  PROVE  Done'
<1>1. /\ txs \in Seq(Transactions) /\ run[p].heir \in named
      /\ Call(run[p]).new = run[p].heir /\ \A h \in named : h = run[p].heir
      /\ Call(run[p]) \in Calls
  BY Confirming
<1>2. /\ c.beneficiary = run[p].heir /\ c.beneficiary \in owners
      /\ \A i \in DOMAIN txs : txs[i].call.new \in named
  BY <1>1 DEF Done
<1>3. owners' = owners /\ named' = named
  <2>1. ~(Taken(p)[Place(p)].executed /\ Call(run[p]).do = "replace")
    BY <1>1, <1>2 DEF MayTake, MayConfirm
  <2> QED
    BY <2>1 DEF TakeIt
<1>4. c'.beneficiary = run[p].heir
  <2>1. c \in Contracts
    BY DEF IInv, TypeOK
  <2>2. [c EXCEPT !.beneficiary = run[p].heir].beneficiary = run[p].heir
    BY <2>1 DEF Contracts
  <2>3. c' = c \/ c' = [c EXCEPT !.beneficiary = run[p].heir]
    BY <1>1 DEF TakeIt
  <2> QED
    BY <1>2, <2>2, <2>3
<1>5. \A i \in DOMAIN txs' : txs'[i].call.new \in named
  <2> DEFINE i == Place(p)
             call == Call(run[p])
             by == {p} \cup (IF i \in DOMAIN txs THEN txs[i].by ELSE {})
             tx == [call |-> call, by |-> by,
                    executed |-> Cardinality(by \cap owners) >= 2]
  <2>1. txs' = IF i \in DOMAIN txs THEN [txs EXCEPT ![i] = tx] ELSE Append(txs, tx)
    BY DEF TakeIt, Taken, Confirmed
  <2>2. tx.call.new \in named
    BY <1>1
  <2>3. CASE i \in DOMAIN txs
    <3> HIDE DEF tx, i
    <3> QED
      BY <1>2, <2>1, <2>2, <2>3
  <2>4. CASE i \notin DOMAIN txs
    <3> HIDE DEF tx, i
    <3>1. txs' = Append(txs, tx)
      BY <2>1, <2>4
    <3>2. DOMAIN txs = 1 .. Len(txs) /\ Len(txs) \in Nat
      BY <1>1, LenProperties
    <3>3. DOMAIN txs' = 1 .. Len(txs) + 1
      BY <1>1, <3>1
    <3>4. \A j \in 1 .. Len(txs) : txs'[j] = txs[j]
      BY <1>1, <3>1
    <3>5. txs'[Len(txs) + 1] = tx
      BY <1>1, <3>1
    <3> QED
      BY <1>2, <2>2, <3>2, <3>3, <3>4, <3>5
  <2> QED
    BY <2>3, <2>4
<1> QED
  BY <1>1, <1>2, <1>3, <1>4, <1>5 DEF Done

LEMMA TakenKeeps ==
  ASSUME IInv, NEW p \in People, AboutToSend(p), MayTake(p), TakeIt(p)
  PROVE  IInv'
<1>1. run[p].op = "set-beneficiary" /\ named' = named /\ failed' = failed
  BY Confirming DEF TakeIt
<1>2. Calm' = Calm
  BY DEF TakeIt, Calm
<1>3. Handed'
  <2> SUFFICES ASSUME Calm
               PROVE  /\ \A q1, q2 \in Naming' : q1 = q2
                      /\ NotBegun' \/ HalfAsked' \/ HalfDone' \/ Done'
    BY <1>2 DEF Handed
  <2>1. Naming = {p} /\ (NotBegun \/ HalfAsked \/ HalfDone \/ Done)
    BY Confirming
  <2>2. Naming' = {p} \/ Naming' = {}
    BY <2>1, TakingMoves
  <2>3. NotBegun' \/ HalfAsked' \/ HalfDone' \/ Done'
    BY <2>1, TakenFromNotBegun, TakenFromHalfAsked, TakenFromHalfDone, TakenFromDone
  <2> QED
    BY <2>2, <2>3
<1>4. \/ run'[p].op = "none" /\ run'[p].pc = "idle"
      \/ /\ run'[p].op = "set-beneficiary" /\ run'[p].pc = "scan-replace"
         /\ run'[p].heir \in named'
  BY TakingMoves
<1>5. "scan-replace" \in NamingSteps
  BY DEF NamingSteps
<1>6. /\ OnlyAt(p) /\ TypeOK'
      /\ c'.alive = c.alive /\ c'.ended = c.ended /\ c'.dollars = c.dollars
      /\ c'.revoked = c.revoked /\ c'.isAccount = c.isAccount
      /\ c'.signer = c.signer /\ c'.votes = c.votes
      /\ c'.upvoting = c.upvoting /\ c'.balloting = c.balloting
      /\ c'.locked = c.locked /\ c'.pending = c.pending /\ c'.matured = c.matured
  BY TakingMoves
<1> QED
  BY <1>1, <1>3, <1>4, <1>5, <1>6, NamingKeeps

LEMMA ConfirmOrSubmitKeeps ==
  ASSUME IInv, NEW p \in People, ConfirmOrSubmit(p)
  PROVE  IInv'
<1>1. AboutToSend(p)
  BY DEF ConfirmOrSubmit, AboutToSend
<1>2. CASE MayTake(p)
  <2>1. TakeIt(p)
    BY <1>2 DEF ConfirmOrSubmit, MayTake, TakeIt, Place, Taken, Go, End, history
  <2> QED
    BY <1>1, <1>2, <2>1, TakenKeeps
<1>3. CASE ~MayTake(p)
  <2>1. /\ run' = [run EXCEPT ![p] = Idle]
        /\ UNCHANGED <<scenario, c, owners, txs, failed, cut, raced, named>>
    BY <1>3 DEF ConfirmOrSubmit, MayTake, Place, Taken, End, history, multisig
  <2> QED
    BY <1>1, <1>3, <2>1, RefusedKeeps
<1> QED
  BY <1>2, <1>3

-----------------------------------------------------------------------------
(* The theorems.                                                           *)

LEMMA StartSimpleKeeps ==
  ASSUME IInv, NEW p \in People, StartSimple(p)
  PROVE  IInv'
<1>1. PICK op \in SimpleOps : \E value \in Values(op) : Simple(p, op, value)
  BY DEF StartSimple, SimpleOps
<1>2. PICK value \in Values(op) : Simple(p, op, value)
  BY <1>1
<1>3. value \in Nat
  <2>1. Values(op) \subseteq Nat
    BY ReleaseGoldAssumption DEF Values
  <2> QED
    BY <2>1
<1> QED
  BY <1>2, <1>3, SimpleKeeps

LEMMA StutterKeeps ==
  ASSUME IInv, UNCHANGED vars
  PROVE  IInv'
<1>1. /\ scenario' = scenario /\ c' = c /\ owners' = owners /\ txs' = txs
      /\ run' = run /\ failed' = failed
      /\ cut' = cut /\ raced' = raced /\ named' = named
  BY DEF vars, multisig, history
<1>2. TypeOK' /\ Stages' /\ DollarsSeen' /\ Unvoted' /\ NoDollarsLost' /\ TurnedBackAt'
  BY <1>1 DEF IInv, TypeOK, Stages, DollarsSeen, Unvoted, NoDollarsLost, TurnedBackAt
<1>3. Revoking'
  BY <1>1 DEF IInv, Revoking, LockedBalance
<1>4. Handed'
  <2>1. Handed /\ UNCHANGED <<multisig, history>>
    BY <1>1 DEF IInv, multisig, history
  <2> QED
    BY <1>1, <2>1, HandedKept
<1> QED
  BY <1>2, <1>3, <1>4 DEF IInv

LEMMA StepKeeps ==
  ASSUME IInv, [Next]_vars
  PROVE  IInv'
<1>1. CASE StartAdminRevoke
  BY <1>1, StartAdminRevokeKeeps
<1>2. CASE AdminStep
  BY <1>2, AdminStepKeeps
<1>3. ASSUME NEW p \in People,
             \/ StartSimple(p) \/ CheckDollars(p) \/ SendSimple(p)
             \/ \E heir \in Heirs : StartNaming(p, heir)
             \/ ReadCurrent(p) \/ Scan(p) \/ ConfirmOrSubmit(p) \/ Cut(p)
      PROVE  IInv'
  BY <1>3, StartSimpleKeeps, CheckDollarsKeeps, SendSimpleKeeps, StartNamingKeeps,
     ReadCurrentKeeps, ScanKeeps, ConfirmOrSubmitKeeps, CutKeeps
<1>4. CASE Release
  BY <1>4, ReleaseKeeps
<1>5. CASE Mature
  BY <1>5, MatureKeeps
<1>6. CASE Arrive
  BY <1>6, ArriveKeeps
<1>7. CASE Voter
  BY <1>7, VoterKeeps
<1>8. CASE Proposals
  BY <1>8, ProposalsKeeps
<1>9. CASE Standing
  BY <1>9, StandingKeeps
<1>10. CASE UNCHANGED vars
  BY <1>10, StutterKeeps
<1> QED
  BY <1>1, <1>2, <1>3, <1>4, <1>5, <1>6, <1>7, <1>8, <1>9, <1>10 DEF Next

LEMMA Invariance == Spec => []IInv
<1>1. Init => IInv
  BY InitIsInv
<1>2. IInv /\ [Next]_vars => IInv'
  BY StepKeeps
<1> QED
  BY <1>1, <1>2, PTL DEF Spec

\* Every variable of the life cycle keeps its type: in particular no amount of
\* the contract, of its account or of a command becomes negative.
THEOREM TypeCorrect == Spec => []TypeOK
<1>1. IInv => TypeOK
  BY DEF IInv
<1> QED
  BY <1>1, Invariance, PTL

\* releasecelo:withdraw and :admin-revoke destroy no contract that holds cUSD
\* they could have seen: neither the check before the last withdrawal nor the
\* rescue before the refund is overtaken by anything but an arrival.
THEOREM NoVisibleDollarsLost == Spec => []NoDollarsLost
<1>1. IInv => NoDollarsLost
  BY DEF IInv
<1> QED
  BY <1>1, Invariance, PTL

\* Between the steps of releasecelo:admin-revoke the beneficiary, the signers and
\* the chain may do what they can: the transactions that can fail are the
\* revocation, a revocation of votes, the revocation of an upvote, and the
\* unlocking for an account that is a registered validator or group; for any
\* other account all that was read is unlocked.
THEOREM AdminRevokeGoesOn == Spec => []NeverTurnedBack
<1>1. ASSUME IInv, At(Owner, "unlock"), c.standing # "registered"
      PROVE  Accepts(Owner, "unlock", run[Owner].value)
  <2>1. /\ Owner \in People /\ Stages /\ Revoking /\ c.locked \in Nat
        /\ run[Owner].pc = "unlock"
    BY <1>1, FieldsAreTyped DEF IInv, TypeOK, People, At
  <2>2. run[Owner].op = "admin-revoke"
    BY <2>1, StageTells DEF AdminSteps, AfterRevoke, OfAccount, AfterRotate, AfterElection
  <2>3. /\ c.revoked /\ c.isAccount /\ c.votes = <<>> /\ ~c.upvoting /\ ~c.balloting
        /\ run[Owner].value = c.locked
    BY <2>1, <2>2 DEF Revoking, OfAccount, AfterRotate, AfterElection, AfterRevoke
  <2>4. run[Owner].value + Len(c.votes) <= c.locked
    BY <2>1, <2>3
  <2> QED
    BY <1>1, <2>3, <2>4 DEF Accepts, Proper, IsVoting, Spares, Required
<1>2. IInv => NeverTurnedBack
  BY <1>1 DEF IInv, TurnedBackAt, NeverTurnedBack
<1> QED
  BY <1>2, Invariance, PTL

\* After releasecelo:set-beneficiary the beneficiary owns the multisig: two
\* owners in turn, each with two scans and two transactions, change both or
\* neither.
THEOREM OwnershipFollows == Spec => []OwnerFollowsBeneficiary
<1>1. ASSUME IInv, Naming = {}, ~cut, ~raced, Cardinality(named) < 2
      PROVE  c.beneficiary \in owners
  <2>1. NotBegun \/ HalfAsked \/ HalfDone \/ Done
    BY <1>1 DEF IInv, Handed, Calm
  <2>2. ~HalfAsked /\ ~HalfDone
    BY <1>1 DEF HalfAsked, HalfDone
  <2>3. CASE NotBegun
    BY <2>3 DEF NotBegun, FirstOwners
  <2>4. CASE Done
    BY <2>4 DEF Done
  <2> QED
    BY <2>1, <2>2, <2>3, <2>4
<1>2. IInv => OwnerFollowsBeneficiary
  BY <1>1 DEF OwnerFollowsBeneficiary
<1> QED
  BY <1>2, Invariance, PTL
=============================================================================
