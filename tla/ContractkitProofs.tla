------------------------- MODULE ContractkitProofs -------------------------
(***************************************************************************)
(* Two parts of contractkit.                                               *)
(*                                                                         *)
(* Approvals: for any number of owners, confirmations required, proposals, *)
(* wishes of the owners and commands that run at once, Governance approves *)
(* only what enough owners asked for, no call is pending twice on a        *)
(* multisig unless two owners scanned at once, and on a Safe whoever       *)
(* approved last has executed the call.                                    *)
(*                                                                         *)
(* ContractCache: what getContract returns, for any number of overlapping  *)
(* calls, names and addresses.                                             *)
(***************************************************************************)
EXTENDS Approvals, ContractCache, FiniteSetTheorems, TLAPS

-----------------------------------------------------------------------------
(* The inductive invariant.                                                *)

(* Nobody confirms, or signs, anything but the call that he is out for,    *)
(* and what was executed had enough confirmations.                         *)
OwnCalls ==
  /\ \A i \in DOMAIN txs :
       /\ txs[i].by \subseteq Wanting(txs[i].call)
       /\ txs[i].executed => Cardinality(txs[i].by) >= Required
  /\ \A o \in Owners :
       run[o].pc = "confirm"
       => run[o].at \in DOMAIN txs /\ txs[run[o].at].call = goal[o]
  /\ \A o \in Owners :
       run[o].pc \in {"approve", "owners", "execute"}
       => /\ run[o].hash \in Hashes /\ run[o].hash.call = goal[o]
          /\ run[o].hash.nonce <= nonce
  /\ \A s \in signed : s[2].call = goal[s[1]] /\ s[2].nonce <= nonce
  /\ \A o \in Owners : run[o].pc = "execute" => ThresholdMet(run[o].hash)

(* k is the index of a call: where the proposal was dequeued to, for good. *)
IsIndex(call, k) ==
  IF call \in Proposals
    THEN /\ call \notin waiting
         /\ call \in Entries => k \in DOMAIN dequeued /\ dequeued[k] = call
    ELSE k = 0

(* A transaction, or a command that has its index, says k for the call.    *)
Said(call, k) ==
  \/ \E i \in DOMAIN txs : txs[i].call = call /\ txs[i].index = k
  \/ \E o \in Owners :
       /\ run[o].pc \in {"count", "scan", "submit"}
       /\ goal[o] = call /\ run[o].index = k

OneIndexPerCall ==
  /\ \A i, j \in DOMAIN dequeued :
       dequeued[i] = dequeued[j] /\ dequeued[i] # None => i = j
  /\ Entries \cap waiting = {}
  /\ \A o \in Owners :
       run[o].pc \in {"idle", "dequeue", "check", "index"} => run[o].index = 0
  /\ \A call \in Calls : \A k \in Nat : Said(call, k) => IsIndex(call, k)
  /\ \A call \in Calls : \A k, l \in Nat : Said(call, k) /\ Said(call, l) => k = l

(* What a scan has passed is not pending for its call, and it is the only  *)
(* scan for that call, unless the call was raced.                          *)
PendingFor(i, call) == ~txs[i].executed /\ txs[i].call = call

ScanMissesNothing ==
  /\ \A o, p \in Owners :
       /\ run[o].pc \in {"scan", "submit"} /\ run[p].pc \in {"scan", "submit"}
       /\ goal[o] = goal[p] /\ goal[o] \notin raced
       => o = p
  /\ \A o \in Owners : \A i \in DOMAIN txs :
       /\ goal[o] \notin raced
       /\ \/ run[o].pc = "scan" /\ run[o].at < i
          \/ run[o].pc = "submit"
       => ~PendingFor(i, goal[o])

(* A command that is going to execute the call with the current nonce, if  *)
(* the call has its approvals.                                             *)
WillExecute(o, call) ==
  /\ goal[o] = call
  /\ \/ run[o].pc = "rehash"
     \/ /\ run[o].pc \in {"owners", "execute"}
        /\ run[o].hash = [call |-> call, nonce |-> nonce]

Due(call) ==
  /\ Worth(call)
  /\ call = Withdraw => refunds = credits
  /\ ThresholdMet([call |-> call, nonce |-> nonce])

LastApproverExecutes ==
  /\ via = "safe" => \A o \in Owners : goal[o] \notin Proposals
  /\ credits = 0 =>
       /\ \A o \in Owners : goal[o] = Withdraw
                            => run[o].pc \in {"idle", "dequeue", "check"}
       /\ \A s \in signed : s[2].call # Withdraw
  /\ via = "safe" /\ ~cut =>
       \A call \in {Hotfix, Withdraw} :
         Due(call) => \E o \in Owners : WillExecute(o, call)

IInv ==
  /\ TypeOK /\ OwnCalls /\ QuorumAsked
  /\ OneIndexPerCall /\ ScanMissesNothing /\ OnePendingPerCall
  /\ LastApproverExecutes

-----------------------------------------------------------------------------
(* Lemmas about the operators.                                             *)

\* More owners are enough if some of them were.
LEMMA MoreAreEnough ==
  ASSUME NEW S, NEW T \in SUBSET Owners, S \subseteq T,
         Cardinality(S) >= Required
  PROVE  Cardinality(T) >= Required
<1>1. IsFiniteSet(T)
  BY OwnersAssumption, FS_Subset
<1>2. Cardinality(S) <= Cardinality(T) /\ IsFiniteSet(S)
  BY <1>1, FS_Subset
<1>3. Cardinality(S) \in Nat /\ Cardinality(T) \in Nat
  BY <1>1, <1>2, FS_CardinalityType
<1>4. Required \in Nat
  BY OwnersAssumption, FS_CardinalityType, RequiredAssumption
<1> QED BY <1>2, <1>3, <1>4

\* Nobody is never enough.
LEMMA NobodyIsNotEnough == ~(Cardinality({}) >= Required)
<1>1. Cardinality({}) = 0
  BY FS_EmptySet
<1>2. Required \in Nat /\ Required >= 1
  BY OwnersAssumption, FS_CardinalityType, RequiredAssumption
<1> QED BY <1>1, <1>2

\* A proposal that is in a list has a place there.
LEMMA PlaceInList ==
  ASSUME NEW list, NEW p, \E i \in DOMAIN list : list[i] = p
  PROVE  IndexOf(p, list) \in DOMAIN list /\ list[IndexOf(p, list)] = p
BY DEF IndexOf

\* A list with one of its entries replaced.
LEMMA Replaced ==
  ASSUME NEW S, NEW s \in Seq(S), NEW k \in DOMAIN s, NEW e \in S
  PROVE  LET t == [s EXCEPT ![k] = e]
         IN /\ t \in Seq(S) /\ Len(t) = Len(s) /\ DOMAIN t = DOMAIN s
            /\ t[k] = e /\ \A i \in DOMAIN s : i # k => t[i] = s[i]
OBVIOUS

\* What the steps of a command do to its owner and to the others.
LEMMA ToFacts ==
  ASSUME run \in [Owners -> [pc: Places, index: 0 .. Len(dequeued),
                             at: 0 .. Len(txs), hash: Hashes \cup {None}]],
         NEW o \in Owners, NEW place, NEW index, NEW at, NEW hash,
         To(o, place, index, at, hash)
  PROVE  /\ run' = [p \in Owners |-> IF p = o THEN run'[o] ELSE run[p]]
         /\ run'[o] = [pc |-> place, index |-> index, at |-> at, hash |-> hash]
         /\ \A p \in Owners : p # o => run'[p] = run[p]
BY DEF To

\* What a dequeue does: one of the waiting proposals gets a place.
LEMMA DequeueFacts ==
  ASSUME TypeOK, Dequeue
  PROVE  \E p \in waiting : \E k \in 1 .. Len(dequeued) + 1 :
           /\ waiting' = waiting \ {p}
           /\ dequeued' \in Seq(Proposals \cup {None})
           /\ Len(dequeued') >= Len(dequeued) /\ k \in DOMAIN dequeued'
           /\ DOMAIN dequeued' = DOMAIN dequeued \cup {k}
           /\ k \in DOMAIN dequeued => dequeued[k] = None
           /\ dequeued'[k] = p
           /\ \A i \in DOMAIN dequeued : i # k => dequeued'[i] = dequeued[i]
<1>1. PICK p \in waiting :
        /\ waiting' = waiting \ {p}
        /\ IF None \in {dequeued[i] : i \in DOMAIN dequeued}
             THEN dequeued' = [dequeued EXCEPT ![IndexOf(None, dequeued)] = p]
             ELSE dequeued' = Append(dequeued, p)
  BY DEF Dequeue
<1>2. dequeued \in Seq(Proposals \cup {None}) /\ p \in Proposals
  BY DEF TypeOK
<1>3. CASE None \in {dequeued[i] : i \in DOMAIN dequeued}
  <2>1. PICK k \in DOMAIN dequeued : k = IndexOf(None, dequeued) /\ dequeued[k] = None
    BY <1>3, PlaceInList
  <2>2. dequeued' = [dequeued EXCEPT ![k] = p]
    BY <1>1, <1>3, <2>1
  <2>3. k \in 1 .. Len(dequeued) + 1
    BY <1>2, <2>1
  <2>4. p \in Proposals \cup {None}
    BY <1>2
  <2>5. /\ dequeued' \in Seq(Proposals \cup {None})
        /\ Len(dequeued') = Len(dequeued) /\ DOMAIN dequeued' = DOMAIN dequeued
        /\ dequeued'[k] = p
        /\ \A i \in DOMAIN dequeued : i # k => dequeued'[i] = dequeued[i]
    BY <1>2, <2>1, <2>2, <2>4, Replaced
  <2>6. /\ Len(dequeued') >= Len(dequeued) /\ k \in DOMAIN dequeued'
        /\ DOMAIN dequeued' = DOMAIN dequeued \cup {k}
    BY <1>2, <2>1, <2>5
  <2> QED BY <1>1, <2>1, <2>3, <2>5, <2>6
<1>4. CASE None \notin {dequeued[i] : i \in DOMAIN dequeued}
  <2>1. dequeued' = Append(dequeued, p)
    BY <1>1, <1>4
  <2>2. Len(dequeued) + 1 \in 1 .. Len(dequeued) + 1
    BY <1>2
  <2> QED BY <1>1, <1>2, <2>1, <2>2
<1> QED BY <1>3, <1>4

\* What a confirmation of a call that its owner is out for does.
LEMMA ConfirmFacts ==
  ASSUME TypeOK, NEW o \in Owners, NEW list \in Seq(Transactions),
         NEW i \in DOMAIN list, list[i].call = goal[o], Confirm(o, list, i),
         \A j \in DOMAIN list : list[j].by \subseteq Wanting(list[j].call),
         \A j \in DOMAIN list :
            list[j].executed => Cardinality(list[j].by) >= Required
  PROVE  \/ UNCHANGED <<txs, approved, refunds>>
         \/ /\ txs' \in Seq(Transactions) /\ Len(txs') = Len(list)
            /\ \A j \in DOMAIN list :
                 /\ txs'[j].call = list[j].call /\ txs'[j].index = list[j].index
                 /\ list[j].executed => txs'[j].executed
                 /\ txs'[j].by \subseteq Wanting(list[j].call)
                 /\ txs'[j].executed => Cardinality(txs'[j].by) >= Required
            /\ \/ UNCHANGED <<approved, refunds>>
               \/ /\ Perform(goal[o])
                  /\ Cardinality(Wanting(goal[o])) >= Required
<1> DEFINE t == list[i]
           by == t.by \cup {o}
           due == Cardinality(by) >= Required
<1>1. CASE ~(o \notin t.by /\ (due => ~t.executed /\ Performable(t.call, t.index)))
  BY <1>1 DEF Confirm
<1>2. CASE o \notin t.by /\ (due => ~t.executed /\ Performable(t.call, t.index))
  <2>1. /\ txs' = [list EXCEPT ![i] = [call |-> t.call, index |-> t.index,
                                      executed |-> due, by |-> by]]
        /\ IF due THEN Perform(t.call) ELSE UNCHANGED <<approved, refunds>>
    BY <1>2 DEF Confirm
  <2>2. /\ t \in Transactions /\ t.call \in Calls /\ t.index \in Nat
        /\ t.by \in SUBSET Owners
    <3>1. t \in Transactions
      OBVIOUS
    <3> HIDE DEF t
    <3> QED BY <3>1 DEF Transactions
  <2>3. by \subseteq Wanting(goal[o]) /\ Wanting(goal[o]) \in SUBSET Owners
    <3>1. t.by \subseteq Wanting(goal[o])
      OBVIOUS
    <3>2. o \in Wanting(goal[o])
      BY DEF Wanting
    <3>3. Wanting(goal[o]) \in SUBSET Owners
      BY DEF Wanting
    <3> QED BY <3>1, <3>2, <3>3
  <2>4. t.executed => due
    BY <2>2, MoreAreEnough
  <2> DEFINE r == [call |-> t.call, index |-> t.index, executed |-> due, by |-> by]
  <2>5. r \in Transactions
    <3>1. due \in BOOLEAN /\ by \in SUBSET Owners
      BY <2>2
    <3> HIDE DEF due, by
    <3> QED BY <2>2, <3>1 DEF Transactions
  <2>6. /\ txs' \in Seq(Transactions) /\ Len(txs') = Len(list)
        /\ DOMAIN txs' = DOMAIN list
        /\ txs'[i] = r /\ \A j \in DOMAIN list : j # i => txs'[j] = list[j]
    <3> HIDE DEF r
    <3>1. txs' = [list EXCEPT ![i] = r]
      BY <2>1 DEF r
    <3> QED BY <2>5, <3>1, Replaced
  <2>7. /\ r.call = t.call /\ r.index = t.index /\ r.executed = due
        /\ r.by \subseteq Wanting(t.call)
        /\ r.executed => Cardinality(r.by) >= Required
    BY <2>3
  <2>8. ASSUME NEW j \in DOMAIN list
        PROVE  /\ txs'[j].call = list[j].call /\ txs'[j].index = list[j].index
               /\ list[j].executed => txs'[j].executed
               /\ txs'[j].by \subseteq Wanting(list[j].call)
               /\ txs'[j].executed => Cardinality(txs'[j].by) >= Required
    <3>1. CASE j = i
      BY <3>1, <2>4, <2>6, <2>7
    <3>2. CASE j # i
      BY <3>2, <2>6
    <3> QED BY <3>1, <3>2
  <2>9. due => Cardinality(Wanting(goal[o])) >= Required
    BY <2>3, MoreAreEnough
  <2> QED BY <2>1, <2>6, <2>8, <2>9
<1> QED BY <1>1, <1>2

-----------------------------------------------------------------------------
(* The variables keep their types.                                         *)

LEMMA GoalIsCall ==
  ASSUME TypeOK, NEW o \in Owners
  PROVE  goal[o] \in Calls
BY GoalsAssumption DEF TypeOK, Calls

\* The type of run, with the lists as long as they are.
LEMMA RunTyped ==
  ASSUME TypeOK, NEW o \in Owners,
         NEW place \in Places, NEW index \in 0 .. Len(dequeued'),
         NEW at \in 0 .. Len(txs'), NEW hash \in Hashes \cup {None},
         Len(dequeued) <= Len(dequeued'), Len(dequeued') \in Nat,
         Len(txs) <= Len(txs'), Len(txs') \in Nat,
         To(o, place, index, at, hash)
  PROVE  run' \in [Owners -> [pc: Places, index: 0 .. Len(dequeued'),
                            at: 0 .. Len(txs'), hash: Hashes \cup {None}]]
<1> DEFINE Kept == [pc: Places, index: 0 .. Len(dequeued), at: 0 .. Len(txs),
                    hash: Hashes \cup {None}]
           Allowed == [pc: Places, index: 0 .. Len(dequeued'),
                       at: 0 .. Len(txs'), hash: Hashes \cup {None}]
           r == [pc |-> place, index |-> index, at |-> at, hash |-> hash]
<1>1. Len(dequeued) \in Nat /\ Len(txs) \in Nat
  BY DEF TypeOK
<1>2. 0 .. Len(dequeued) \subseteq 0 .. Len(dequeued')
  BY <1>1
<1>3. 0 .. Len(txs) \subseteq 0 .. Len(txs')
  BY <1>1
<1>4. Kept \subseteq Allowed
  BY <1>2, <1>3
<1>5. r \in Allowed
  OBVIOUS
<1>6. run \in [Owners -> Kept] /\ run' = [run EXCEPT ![o] = r]
  BY DEF TypeOK, To
<1> HIDE DEF Kept, Allowed, r
<1>7. run' \in [Owners -> Allowed]
  BY <1>4, <1>5, <1>6
<1> QED BY <1>7 DEF Allowed

\* A step that leaves the lists as they are, and moves a command.
LEMMA MoveTyped ==
  ASSUME TypeOK, NEW o \in Owners, NEW place \in Places,
         NEW index \in 0 .. Len(dequeued), NEW at \in 0 .. Len(txs),
         NEW hash \in Hashes \cup {None}, To(o, place, index, at, hash),
         UNCHANGED <<via, goal, dequeued, waiting, approved, refunds, credits,
                     txs, nonce>>,
         signed' \in SUBSET (Owners \X Hashes), raced' \in SUBSET Calls,
         cut' \in BOOLEAN
  PROVE  TypeOK'
<1>1. /\ Len(dequeued') = Len(dequeued) /\ Len(txs') = Len(txs)
      /\ Len(dequeued) \in Nat /\ Len(txs) \in Nat
  BY DEF TypeOK
<1>2. /\ index \in 0 .. Len(dequeued') /\ at \in 0 .. Len(txs')
      /\ Len(dequeued) <= Len(dequeued') /\ Len(txs) <= Len(txs')
      /\ Len(dequeued') \in Nat /\ Len(txs') \in Nat
  BY <1>1
<1>3. run' \in [Owners -> [pc: Places, index: 0 .. Len(dequeued'),
                          at: 0 .. Len(txs'), hash: Hashes \cup {None}]]
  BY <1>2, RunTyped
<1> QED BY <1>3 DEF TypeOK

-----------------------------------------------------------------------------
(* What a confirmation and a submission do to the chain.                   *)

\* Transaction number j may get confirmations and be executed by them.
Advances(j) ==
  /\ txs'[j].call = txs[j].call /\ txs'[j].index = txs[j].index
  /\ txs[j].executed => txs'[j].executed
  /\ txs'[j].by \subseteq Wanting(txs[j].call)
  /\ txs'[j].executed => Cardinality(txs'[j].by) >= Required

\* Governance may perform a call that enough owners are out for.
MayPerform(call) ==
  \/ UNCHANGED <<approved, refunds>>
  \/ Perform(call) /\ Cardinality(Wanting(call)) >= Required

LEMMA ConfirmStep ==
  ASSUME TypeOK, OwnCalls, NEW o \in Owners, ConfirmTransaction(o)
  PROVE  /\ txs' \in Seq(Transactions) /\ Len(txs') = Len(txs)
         /\ \A j \in DOMAIN txs : Advances(j)
         /\ MayPerform(goal[o])
<1>1. PICK i \in DOMAIN txs : i = run[o].at /\ txs[i].call = goal[o]
  BY DEF ConfirmTransaction, OwnCalls
<1>2. PICK list : list = txs
  OBVIOUS
<1>3. list \in Seq(Transactions) /\ i \in DOMAIN list /\ list[i].call = goal[o]
  BY <1>1, <1>2 DEF TypeOK
<1>4. /\ \A j \in DOMAIN list : list[j].by \subseteq Wanting(list[j].call)
      /\ \A j \in DOMAIN list :
            list[j].executed => Cardinality(list[j].by) >= Required
  BY <1>2 DEF OwnCalls
<1>5. Confirm(o, list, i)
  BY <1>1, <1>2 DEF ConfirmTransaction
<1>6. CASE UNCHANGED <<txs, approved, refunds>>
  <2>1. \A j \in DOMAIN txs : Advances(j)
    BY <1>6 DEF OwnCalls, Advances
  <2> QED BY <1>6, <2>1 DEF MayPerform, TypeOK
<1>7. CASE ~UNCHANGED <<txs, approved, refunds>>
  <2>1. /\ txs' \in Seq(Transactions) /\ Len(txs') = Len(list)
        /\ \A j \in DOMAIN list :
             /\ txs'[j].call = list[j].call /\ txs'[j].index = list[j].index
             /\ list[j].executed => txs'[j].executed
             /\ txs'[j].by \subseteq Wanting(list[j].call)
             /\ txs'[j].executed => Cardinality(txs'[j].by) >= Required
        /\ \/ UNCHANGED <<approved, refunds>>
           \/ Perform(goal[o]) /\ Cardinality(Wanting(goal[o])) >= Required
    BY <1>3, <1>4, <1>5, <1>7, ConfirmFacts
  <2> QED BY <1>2, <2>1 DEF Advances, MayPerform
<1> QED BY <1>6, <1>7

LEMMA SubmitStep ==
  ASSUME TypeOK, OwnCalls, NEW o \in Owners, SubmitTransaction(o)
  PROVE  /\ txs' \in Seq(Transactions)
         /\ \A j \in DOMAIN txs : Advances(j)
         /\ \/ Len(txs') = Len(txs)
            \/ /\ Len(txs') = Len(txs) + 1
               /\ txs'[Len(txs')].call = goal[o]
               /\ txs'[Len(txs')].index = run[o].index
               /\ txs'[Len(txs')].by \subseteq Wanting(goal[o])
               /\ txs'[Len(txs')].executed
                    => Cardinality(txs'[Len(txs')].by) >= Required
         /\ MayPerform(goal[o])
<1> DEFINE t == [call |-> goal[o], index |-> run[o].index, executed |-> FALSE,
                 by |-> {}]
<1>1. txs \in Seq(Transactions) /\ Len(txs) \in Nat
  BY DEF TypeOK
<1>2. t \in Transactions
  <2>1. goal[o] \in Calls /\ run[o].index \in Nat
    BY GoalIsCall DEF TypeOK
  <2> QED BY <2>1 DEF Transactions
<1>3. /\ t.call = goal[o] /\ t.index = run[o].index /\ t.by = {}
      /\ t.executed = FALSE
  OBVIOUS
<1>4. Confirm(o, Append(txs, t), Len(txs) + 1)
  BY DEF SubmitTransaction
<1> HIDE DEF t
<1>5. PICK list : list = Append(txs, t)
  OBVIOUS
<1>6. PICK i : i = Len(txs) + 1
  OBVIOUS
<1>7. /\ list \in Seq(Transactions) /\ Len(list) = Len(txs) + 1
      /\ DOMAIN list = DOMAIN txs \cup {i} /\ i \notin DOMAIN txs
      /\ i \in DOMAIN list /\ list[i] = t
      /\ \A j \in DOMAIN txs : list[j] = txs[j]
  BY <1>1, <1>2, <1>5, <1>6
<1>8. list[i].call = goal[o]
  BY <1>3, <1>7
<1>9. \A j \in DOMAIN list : list[j].by \subseteq Wanting(list[j].call)
  BY <1>3, <1>7 DEF OwnCalls
<1>10. \A j \in DOMAIN list :
          list[j].executed => Cardinality(list[j].by) >= Required
  BY <1>3, <1>7 DEF OwnCalls
<1>11. Confirm(o, list, i)
  BY <1>4, <1>5, <1>6
<1>12. CASE UNCHANGED <<txs, approved, refunds>>
  <2>1. \A j \in DOMAIN txs : Advances(j)
    BY <1>12 DEF OwnCalls, Advances
  <2> QED BY <1>1, <1>12, <2>1 DEF MayPerform
<1>13. CASE ~UNCHANGED <<txs, approved, refunds>>
  <2>1. /\ txs' \in Seq(Transactions) /\ Len(txs') = Len(list)
        /\ \A j \in DOMAIN list :
             /\ txs'[j].call = list[j].call /\ txs'[j].index = list[j].index
             /\ list[j].executed => txs'[j].executed
             /\ txs'[j].by \subseteq Wanting(list[j].call)
             /\ txs'[j].executed => Cardinality(txs'[j].by) >= Required
        /\ \/ UNCHANGED <<approved, refunds>>
           \/ Perform(goal[o]) /\ Cardinality(Wanting(goal[o])) >= Required
    BY <1>7, <1>8, <1>9, <1>10, <1>11, <1>13, ConfirmFacts
  <2>2. \A j \in DOMAIN txs : Advances(j)
    BY <1>7, <2>1 DEF Advances
  <2>3. Len(txs') = i
    BY <1>6, <1>7, <2>1
  <2>4. /\ txs'[i].call = goal[o] /\ txs'[i].index = run[o].index
        /\ txs'[i].by \subseteq Wanting(goal[o])
        /\ txs'[i].executed => Cardinality(txs'[i].by) >= Required
    BY <1>3, <1>7, <2>1
  <2> QED BY <1>6, <2>1, <2>2, <2>3, <2>4 DEF MayPerform
<1> QED BY <1>12, <1>13

\* Governance keeps its types.
LEMMA PerformTyped ==
  ASSUME TypeOK, NEW o \in Owners, MayPerform(goal[o])
  PROVE  /\ approved' \subseteq Proposals \cup {Hotfix}
         /\ refunds' \in {0, refunds}
         /\ \A call \in approved' \ approved : Cardinality(Wanting(call)) >= Required
         /\ approved \subseteq approved'
BY GoalIsCall DEF TypeOK, MayPerform, Perform, Calls

-----------------------------------------------------------------------------
(* Every step keeps the types.                                             *)

LEMMA CommandFields ==
  ASSUME TypeOK, NEW o \in Owners
  PROVE  /\ run[o].pc \in Places /\ run[o].index \in 0 .. Len(dequeued)
         /\ run[o].at \in 0 .. Len(txs) /\ run[o].hash \in Hashes \cup {None}
         /\ 0 \in 0 .. Len(dequeued) /\ 0 \in 0 .. Len(txs)
         /\ Len(txs) \in 0 .. Len(txs)
BY DEF TypeOK

LEMMA EndIsTo ==
  ASSUME NEW o \in Owners, End(o)
  PROVE  To(o, "idle", 0, 0, None)
BY DEF End, To, Idle

\* The types that a step of a command on the multisig leaves.
LEMMA MultiSigTyped ==
  ASSUME TypeOK, NEW o \in Owners, End(o), MayPerform(goal[o]),
         txs' \in Seq(Transactions), Len(txs) <= Len(txs'),
         UNCHANGED <<via, goal, dequeued, waiting, credits, nonce, signed,
                     raced, cut>>
  PROVE  TypeOK'
<1>1. /\ Len(txs) \in Nat /\ Len(txs') \in Nat /\ Len(dequeued) \in Nat
      /\ Len(dequeued') = Len(dequeued)
  BY DEF TypeOK
<1>2. To(o, "idle", 0, 0, None) /\ "idle" \in Places
  BY EndIsTo DEF Places
<1>3. 0 \in 0 .. Len(dequeued') /\ 0 \in 0 .. Len(txs')
  BY <1>1
<1>4. Len(dequeued) <= Len(dequeued') /\ Len(dequeued') \in Nat
  BY <1>1
<1>5. run' \in [Owners -> [pc: Places, index: 0 .. Len(dequeued'),
                          at: 0 .. Len(txs'), hash: Hashes \cup {None}]]
  BY <1>1, <1>2, <1>3, <1>4, RunTyped
<1>6. approved' \subseteq Proposals \cup {Hotfix} /\ refunds' \in 0 .. credits
  BY PerformTyped DEF TypeOK
<1> QED BY <1>5, <1>6 DEF TypeOK

\* The types that a dequeue leaves.
LEMMA DequeueTyped ==
  ASSUME TypeOK, Dequeue,
         UNCHANGED <<via, goal, approved, refunds, credits, txs, nonce, signed,
                     raced, cut>>,
         \/ UNCHANGED run
         \/ \E o \in Owners : Go(o, "check")
  PROVE  TypeOK'
<1>1. /\ waiting' \subseteq waiting /\ dequeued' \in Seq(Proposals \cup {None})
      /\ Len(dequeued) <= Len(dequeued') /\ Len(dequeued') \in Nat
      /\ Len(dequeued) \in Nat
  <2>1. dequeued \in Seq(Proposals \cup {None})
    BY DEF TypeOK
  <2>2. PICK p \in waiting : \E k \in 1 .. Len(dequeued) + 1 :
           /\ waiting' = waiting \ {p}
           /\ dequeued' \in Seq(Proposals \cup {None})
           /\ Len(dequeued') >= Len(dequeued)
    BY DequeueFacts
  <2> QED BY <2>1, <2>2
<1>2. Len(txs) <= Len(txs') /\ Len(txs') \in Nat /\ Len(txs') = Len(txs)
  BY DEF TypeOK
<1>3. run' \in [Owners -> [pc: Places, index: 0 .. Len(dequeued'),
                          at: 0 .. Len(txs'), hash: Hashes \cup {None}]]
  <2>1. CASE UNCHANGED run
    <3>1. 0 .. Len(dequeued) \subseteq 0 .. Len(dequeued')
      BY <1>1
    <3> QED BY <2>1, <3>1, <1>2 DEF TypeOK
  <2>2. CASE \E o \in Owners : Go(o, "check")
    <3>1. PICK o \in Owners : Go(o, "check")
      BY <2>2
    <3>2. "check" \in Places
      BY DEF Places
    <3>3. To(o, "check", run[o].index, run[o].at, run[o].hash)
      BY <3>1 DEF Go
    <3>4. /\ run[o].index \in 0 .. Len(dequeued') /\ run[o].at \in 0 .. Len(txs')
          /\ run[o].hash \in Hashes \cup {None}
      BY CommandFields, <1>1, <1>2
    <3> QED BY <1>1, <1>2, <3>2, <3>3, <3>4, RunTyped
  <2> QED BY <2>1, <2>2
<1> QED BY <1>1, <1>3 DEF TypeOK

LEMMA StartTyped ==
  ASSUME TypeOK, NEW o \in Owners, Start(o)
  PROVE  TypeOK'
<1>1. PICK place \in {"dequeue", "check"} : Go(o, place)
  BY DEF Start
<1>2. To(o, place, run[o].index, run[o].at, run[o].hash) /\ place \in Places
  BY <1>1 DEF Go, Places
<1>3. UNCHANGED <<via, goal, contracts, credits, raced, cut>>
  BY DEF Start
<1> QED BY <1>2, <1>3, CommandFields, MoveTyped DEF TypeOK, contracts, governance

LEMMA ChecksTyped ==
  ASSUME TypeOK, NEW o \in Owners, RunChecks(o) \/ GetDequeueIndex(o)
  PROVE  TypeOK'
<1>1. UNCHANGED <<via, goal, contracts, credits, raced, cut>>
  BY DEF RunChecks, GetDequeueIndex
<1>2. CASE End(o)
  <2>1. To(o, "idle", 0, 0, None) /\ "idle" \in Places
    BY <1>2, EndIsTo DEF Places
  <2> QED BY <1>1, <2>1, CommandFields, MoveTyped DEF TypeOK, contracts, governance
<1>3. CASE RunChecks(o) /\ ~End(o)
  <2>1. PICK place \in {"index", "hash", "count"} : Go(o, place)
    BY <1>3 DEF RunChecks
  <2>2. To(o, place, run[o].index, run[o].at, run[o].hash) /\ place \in Places
    BY <2>1 DEF Go, Places
  <2> QED BY <1>1, <2>2, CommandFields, MoveTyped DEF TypeOK, contracts, governance
<1>4. CASE GetDequeueIndex(o) /\ ~End(o)
  <2>1. /\ goal[o] \in Entries
        /\ To(o, "count", DequeueIndex(goal[o]), run[o].at, run[o].hash)
    BY <1>4 DEF GetDequeueIndex
  <2>2. DequeueIndex(goal[o]) \in DOMAIN dequeued
    BY <2>1, PlaceInList DEF Entries, DequeueIndex
  <2>3. DequeueIndex(goal[o]) \in 0 .. Len(dequeued) /\ "count" \in Places
    BY <2>2 DEF TypeOK, Places
  <2> QED BY <1>1, <2>1, <2>3, CommandFields, MoveTyped DEF TypeOK, contracts, governance
<1> QED BY <1>2, <1>3, <1>4

LEMMA ScanTyped ==
  ASSUME TypeOK, NEW o \in Owners, CountTransactions(o) \/ ScanTransaction(o)
  PROVE  TypeOK'
<1>1. UNCHANGED <<via, goal, contracts, credits, cut>>
  BY DEF CountTransactions, ScanTransaction
<1>2. PICK place \in Places, at \in 0 .. Len(txs) :
        To(o, place, run[o].index, at, run[o].hash)
  <2>1. CASE CountTransactions(o)
    BY <2>1, CommandFields DEF CountTransactions, LatestTransaction, Places
  <2>2. CASE ScanTransaction(o) /\ run[o].at = 0
    BY <2>2, CommandFields DEF ScanTransaction, Go, Places
  <2>3. CASE ScanTransaction(o) /\ run[o].at # 0 /\ Matches(txs[run[o].at], o)
    BY <2>3, CommandFields DEF ScanTransaction, Go, Places
  <2>4. CASE ScanTransaction(o) /\ run[o].at # 0 /\ ~Matches(txs[run[o].at], o)
    <3>1. To(o, "scan", run[o].index, run[o].at - 1, run[o].hash)
      BY <2>4 DEF ScanTransaction
    <3>2. run[o].at - 1 \in 0 .. Len(txs) /\ "scan" \in Places
      BY <2>4, CommandFields DEF TypeOK, Places
    <3> QED BY <3>1, <3>2
  <2> QED BY <2>1, <2>2, <2>3, <2>4
<1>3. raced' \in SUBSET Calls
  BY GoalIsCall DEF CountTransactions, ScanTransaction, TypeOK
<1> QED BY <1>1, <1>2, <1>3, CommandFields, MoveTyped DEF TypeOK, contracts, governance

LEMMA SafeTyped ==
  ASSUME TypeOK, OwnCalls, NEW o \in Owners,
         \/ HashForApproval(o) \/ ApproveTransactionHash(o)
         \/ HashForExecution(o) \/ CountApprovals(o)
  PROVE  TypeOK'
<1>1. UNCHANGED <<via, goal, governance, credits, txs, nonce, raced, cut>>
  BY DEF HashForApproval, ApproveTransactionHash, HashForExecution,
         CountApprovals, contracts
<1>2. [call |-> goal[o], nonce |-> nonce] \in Hashes
  BY GoalIsCall DEF TypeOK, Hashes
<1>3. signed' \in SUBSET (Owners \X Hashes)
  BY DEF HashForApproval, ApproveTransactionHash, HashForExecution,
         CountApprovals, contracts, TypeOK, OwnCalls
<1>4. PICK place \in Places, index \in 0 .. Len(dequeued), at \in 0 .. Len(txs),
           hash \in Hashes \cup {None} : To(o, place, index, at, hash)
  <2>1. CASE HashForApproval(o)
    BY <1>2, <2>1, CommandFields DEF HashForApproval, Go, Places
  <2>2. CASE ApproveTransactionHash(o)
    BY <2>2, CommandFields DEF ApproveTransactionHash, Go, Places
  <2>3. CASE HashForExecution(o)
    BY <1>2, <2>3, CommandFields DEF HashForExecution, Places
  <2>4. CASE CountApprovals(o) /\ ~End(o)
    BY <2>4, CommandFields DEF CountApprovals, Go, Places
  <2>5. CASE End(o)
    BY <2>5, EndIsTo, CommandFields DEF Places
  <2> QED BY <2>1, <2>2, <2>3, <2>4, <2>5 
<1> QED BY <1>1, <1>3, <1>4, MoveTyped DEF TypeOK, governance

\* An execution of a call that has its approvals.
LEMMA ExecuteStep ==
  ASSUME TypeOK, OwnCalls, NEW o \in Owners, ExecuteTransaction(o)
  PROVE  /\ \/ UNCHANGED <<nonce, approved, refunds>>
            \/ nonce' = nonce + 1 /\ Perform(goal[o])
         /\ MayPerform(goal[o])
<1>1. /\ run[o].hash.call = goal[o]
      /\ Cardinality(OwnersWhoApproved(run[o].hash)) >= Required
  BY DEF ExecuteTransaction, OwnCalls, ThresholdMet
<1>2. OwnersWhoApproved(run[o].hash) \subseteq Wanting(goal[o])
  <2> SUFFICES ASSUME NEW p \in OwnersWhoApproved(run[o].hash)
               PROVE  p \in Wanting(goal[o])
    OBVIOUS
  <2>1. p \in Owners /\ <<p, run[o].hash>> \in signed
    BY DEF OwnersWhoApproved
  <2>2. run[o].hash.call = goal[p]
    BY <2>1 DEF OwnCalls
  <2> QED BY <1>1, <2>1, <2>2 DEF Wanting
<1>3. Wanting(goal[o]) \in SUBSET Owners
  BY DEF Wanting
<1>4. Cardinality(Wanting(goal[o])) >= Required
  BY <1>1, <1>2, <1>3, MoreAreEnough
<1> QED BY <1>1, <1>4 DEF ExecuteTransaction, MayPerform

LEMMA ExecuteTyped ==
  ASSUME TypeOK, OwnCalls, NEW o \in Owners, ExecuteTransaction(o)
  PROVE  TypeOK'
<1>1. /\ UNCHANGED <<via, goal, dequeued, waiting, credits, txs, signed, raced,
                     cut>>
      /\ End(o)
  BY DEF ExecuteTransaction
<1>2. nonce' \in Nat
  BY ExecuteStep DEF TypeOK
<1>3. approved' \subseteq Proposals \cup {Hotfix} /\ refunds' \in 0 .. credits
  BY ExecuteStep, PerformTyped DEF TypeOK
<1>4. run' \in [Owners -> [pc: Places, index: 0 .. Len(dequeued'),
                          at: 0 .. Len(txs'), hash: Hashes \cup {None}]]
  <2>1. To(o, "idle", 0, 0, None) /\ "idle" \in Places
    BY <1>1, EndIsTo DEF Places
  <2>2. /\ Len(dequeued') = Len(dequeued) /\ Len(dequeued) \in Nat
        /\ Len(txs') = Len(txs) /\ Len(txs) \in Nat
    BY <1>1 DEF TypeOK
  <2>3. /\ Len(dequeued) <= Len(dequeued') /\ Len(dequeued') \in Nat
        /\ Len(txs) <= Len(txs') /\ Len(txs') \in Nat
        /\ 0 \in 0 .. Len(dequeued') /\ 0 \in 0 .. Len(txs')
    BY <2>2
  <2> QED BY <2>1, <2>3, RunTyped
<1> QED BY <1>1, <1>2, <1>3, <1>4 DEF TypeOK

LEMMA FreeStep ==
  ASSUME TypeOK, Free
  PROVE  /\ \E k \in DOMAIN dequeued :
              /\ dequeued[k] # None /\ dequeued'[k] = None
              /\ \A i \in DOMAIN dequeued : i # k => dequeued'[i] = dequeued[i]
         /\ dequeued' \in Seq(Proposals \cup {None})
         /\ Len(dequeued') = Len(dequeued) /\ DOMAIN dequeued' = DOMAIN dequeued
<1>1. PICK k \in DOMAIN dequeued :
        dequeued[k] # None /\ dequeued' = [dequeued EXCEPT ![k] = None]
  BY DEF Free
<1>2. dequeued \in Seq(Proposals \cup {None}) /\ None \in Proposals \cup {None}
  BY DEF TypeOK
<1>3. /\ dequeued' \in Seq(Proposals \cup {None})
      /\ Len(dequeued') = Len(dequeued) /\ DOMAIN dequeued' = DOMAIN dequeued
      /\ dequeued'[k] = None
      /\ \A i \in DOMAIN dequeued : i # k => dequeued'[i] = dequeued[i]
  BY <1>1, <1>2, Replaced
<1> QED BY <1>1, <1>3

LEMMA OthersTyped ==
  ASSUME TypeOK, Free \/ Refund \/ OtherSafeTx \/ OtherDequeue
  PROVE  TypeOK'
<1>1. CASE Free
  <2>1. /\ dequeued' \in Seq(Proposals \cup {None})
        /\ Len(dequeued') = Len(dequeued)
    BY <1>1, FreeStep
  <2> QED BY <1>1, <2>1 DEF Free, TypeOK
<1>2. CASE Refund
  <2>1. credits' \in 0 .. MaxRefunds /\ refunds' \in 0 .. credits'
    BY <1>2, BoundsAssumption DEF Refund, TypeOK
  <2> QED BY <1>2, <2>1 DEF Refund, TypeOK
<1>3. CASE OtherSafeTx
  BY <1>3 DEF OtherSafeTx, TypeOK, governance
<1>4. CASE OtherDequeue
  BY <1>4, DequeueTyped DEF OtherDequeue
<1> QED BY <1>1, <1>2, <1>3, <1>4

LEMMA DequeueOrNotTyped ==
  ASSUME TypeOK, NEW o \in Owners, SendDequeue(o)
  PROVE  TypeOK'
<1>1. CASE Dequeue
  BY <1>1, DequeueTyped DEF SendDequeue
<1>2. CASE UNCHANGED <<waiting, dequeued>>
  <2>1. To(o, "check", run[o].index, run[o].at, run[o].hash) /\ "check" \in Places
    BY DEF SendDequeue, Go, Places
  <2> QED BY <1>2, <2>1, CommandFields, MoveTyped DEF SendDequeue, TypeOK
<1> QED BY <1>1, <1>2 DEF SendDequeue

LEMMA TypeNext ==
  ASSUME TypeOK, OwnCalls, [Next]_vars
  PROVE  TypeOK'
<1>1. CASE UNCHANGED vars
  BY <1>1 DEF vars, contracts, governance, TypeOK
<1>2. ASSUME NEW o \in Owners, Start(o) \/ Command(o) \/ Cut(o)
      PROVE  TypeOK'
  <2>1. CASE Start(o)
    BY <2>1, StartTyped
  <2>2. CASE SendDequeue(o)
    BY <2>2, DequeueOrNotTyped
  <2>3. CASE RunChecks(o) \/ GetDequeueIndex(o)
    BY <2>3, ChecksTyped
  <2>4. CASE CountTransactions(o) \/ ScanTransaction(o)
    BY <2>4, ScanTyped
  <2>5. CASE ConfirmTransaction(o)
    <3>1. Len(txs) <= Len(txs')
      BY <2>5, ConfirmStep DEF TypeOK
    <3> QED BY <2>5, <3>1, ConfirmStep, MultiSigTyped DEF ConfirmTransaction
  <2>6. CASE SubmitTransaction(o)
    <3>1. Len(txs) <= Len(txs')
      BY <2>6, SubmitStep DEF TypeOK
    <3> QED BY <2>6, <3>1, SubmitStep, MultiSigTyped DEF SubmitTransaction
  <2>7. CASE \/ HashForApproval(o) \/ ApproveTransactionHash(o)
             \/ HashForExecution(o) \/ CountApprovals(o)
    BY <2>7, SafeTyped
  <2>8. CASE ExecuteTransaction(o)
    BY <2>8, ExecuteTyped
  <2>9. CASE Cut(o)
    <3>1. To(o, "idle", 0, 0, None) /\ "idle" \in Places
      BY <2>9, EndIsTo DEF Cut, Places
    <3> QED BY <2>9, <3>1, CommandFields, MoveTyped
            DEF Cut, TypeOK, contracts, governance
  <2> QED BY <1>2, <2>1, <2>2, <2>3, <2>4, <2>5, <2>6, <2>7, <2>8, <2>9 DEF Command
<1>3. CASE Free \/ Refund \/ OtherSafeTx \/ OtherDequeue
  BY <1>3, OthersTyped
<1> QED BY <1>1, <1>2, <1>3 DEF Next

-----------------------------------------------------------------------------
(* Nobody lends his confirmation to a call that he did not ask for.        *)

\* A command that moves to a place where it says nothing of a call.
Quiet(o) ==
  /\ run' = [p \in Owners |-> IF p = o THEN run'[o] ELSE run[p]]
  /\ run'[o].pc \notin {"confirm", "approve", "owners", "execute"}

LEMMA QuietTo ==
  ASSUME TypeOK, NEW o \in Owners, NEW place, NEW index, NEW at, NEW hash,
         To(o, place, index, at, hash),
         place \notin {"confirm", "approve", "owners", "execute"}
  PROVE  Quiet(o)
<1>1. run \in [Owners -> [pc: Places, index: 0 .. Len(dequeued),
                         at: 0 .. Len(txs), hash: Hashes \cup {None}]]
  BY DEF TypeOK
<1>2. /\ run' = [p \in Owners |-> IF p = o THEN run'[o] ELSE run[p]]
      /\ run'[o] = [pc |-> place, index |-> index, at |-> at, hash |-> hash]
  BY <1>1, ToFacts
<1>3. run'[o].pc = place
  BY <1>2
<1> QED BY <1>2, <1>3 DEF Quiet

LEMMA QuietEnd ==
  ASSUME TypeOK, NEW o \in Owners, End(o)
  PROVE  Quiet(o)
BY QuietTo, EndIsTo

\* What a quiet step must leave for OwnCalls to hold.
LEMMA QuietKeeps ==
  ASSUME TypeOK, TypeOK', OwnCalls, NEW o \in Owners, Quiet(o) \/ UNCHANGED run,
         UNCHANGED goal, nonce <= nonce', DOMAIN txs \subseteq DOMAIN txs',
         \A j \in DOMAIN txs : Advances(j),
         \A j \in DOMAIN txs' \ DOMAIN txs :
            /\ txs'[j].by \subseteq Wanting(txs'[j].call)
            /\ txs'[j].executed => Cardinality(txs'[j].by) >= Required,
         \/ UNCHANGED signed
         \/ signed' = signed \cup {<<o, run[o].hash>>} /\ run[o].pc = "approve"
  PROVE  OwnCalls'
<1>1. \A call : Wanting(call)' = Wanting(call)
  BY DEF Wanting
<1>2. /\ \A p \in Owners :
           run'[p].pc \in {"confirm", "approve", "owners", "execute"}
           => run'[p] = run[p]
      /\ goal' = goal
  BY DEF Quiet
<1>3. nonce \in Nat /\ nonce' \in Nat
  BY DEF TypeOK
<1>4. \A i \in DOMAIN txs' :
        /\ txs'[i].by \subseteq Wanting(txs'[i].call)
        /\ txs'[i].executed => Cardinality(txs'[i].by) >= Required
  BY DEF Advances
<1>5. \A p \in Owners :
        run'[p].pc = "confirm"
        => run'[p].at \in DOMAIN txs' /\ txs'[run'[p].at].call = goal'[p]
  BY <1>2 DEF OwnCalls, Advances
<1>6. \A p \in Owners :
        run[p].pc \in {"approve", "owners", "execute"}
        => /\ run[p].hash \in Hashes /\ run[p].hash.call = goal[p]
           /\ run[p].hash.nonce <= nonce'
  <2> SUFFICES ASSUME NEW p \in Owners,
                      run[p].pc \in {"approve", "owners", "execute"}
               PROVE  /\ run[p].hash \in Hashes /\ run[p].hash.call = goal[p]
                      /\ run[p].hash.nonce <= nonce'
    OBVIOUS
  <2>1. /\ run[p].hash \in Hashes /\ run[p].hash.call = goal[p]
        /\ run[p].hash.nonce <= nonce
    BY DEF OwnCalls
  <2>2. run[p].hash.nonce \in Nat
    BY <2>1 DEF Hashes
  <2> QED BY <1>3, <2>1, <2>2
<1>7. \A p \in Owners :
        run'[p].pc \in {"approve", "owners", "execute"}
        => /\ run'[p].hash \in Hashes /\ run'[p].hash.call = goal'[p]
           /\ run'[p].hash.nonce <= nonce'
  BY <1>2, <1>6
<1>8. \A s \in signed : s[2].call = goal[s[1]] /\ s[2].nonce <= nonce'
  <2> SUFFICES ASSUME NEW s \in signed
               PROVE  s[2].call = goal[s[1]] /\ s[2].nonce <= nonce'
    OBVIOUS
  <2>1. s[2].call = goal[s[1]] /\ s[2].nonce <= nonce
    BY DEF OwnCalls
  <2>2. s[2] \in Hashes
    BY DEF TypeOK
  <2>3. s[2].nonce \in Nat
    BY <2>2 DEF Hashes
  <2> QED BY <1>3, <2>1, <2>3
<1>9. \A s \in signed' : s[2].call = goal'[s[1]] /\ s[2].nonce <= nonce'
  <2>1. CASE UNCHANGED signed
    BY <1>2, <1>8, <2>1
  <2>2. CASE signed' = signed \cup {<<o, run[o].hash>>} /\ run[o].pc = "approve"
    <3>1. run[o].hash.call = goal[o] /\ run[o].hash.nonce <= nonce'
      BY <1>6, <2>2
    <3> QED BY <1>2, <1>8, <2>2, <3>1
  <2> QED BY <2>1, <2>2
<1>10. \A h : ThresholdMet(h) => ThresholdMet(h)'
  <2> SUFFICES ASSUME NEW h, ThresholdMet(h)
               PROVE  ThresholdMet(h)'
    OBVIOUS
  <2>1. OwnersWhoApproved(h) \subseteq OwnersWhoApproved(h)'
    BY DEF OwnersWhoApproved
  <2>2. OwnersWhoApproved(h)' \in SUBSET Owners
    BY DEF OwnersWhoApproved
  <2> QED BY <2>1, <2>2, MoreAreEnough DEF ThresholdMet
<1>11. \A p \in Owners :
         (run[p].pc = "execute")' => ThresholdMet(run[p].hash)'
  <2> SUFFICES ASSUME NEW p \in Owners, run'[p].pc = "execute"
               PROVE  ThresholdMet(run[p].hash)'
    OBVIOUS
  <2>1. run'[p] = run[p] /\ ThresholdMet(run[p].hash)
    BY <1>2 DEF OwnCalls
  <2>2. PICK h : h = run[p].hash
    OBVIOUS
  <2>3. ThresholdMet(h)'
    BY <1>10, <2>1, <2>2
  <2>4. Cardinality(OwnersWhoApproved(h)') >= Required
    BY <2>3 DEF ThresholdMet
  <2>5. h = run'[p].hash
    BY <2>1, <2>2
  <2> QED BY <2>4, <2>5 DEF ThresholdMet, OwnersWhoApproved
<1>12. \A i \in DOMAIN txs' : (txs[i].by \subseteq Wanting(txs[i].call))'
  BY <1>4, <1>2 DEF Wanting
<1> QED BY <1>4, <1>5, <1>7, <1>9, <1>11, <1>12 DEF OwnCalls

\* A command that moves on with its call.
LEMMA MoveKeeps ==
  ASSUME TypeOK, OwnCalls, NEW o \in Owners, NEW place, NEW index, NEW at, NEW hash,
         To(o, place, index, at, hash), UNCHANGED <<goal, txs, nonce, signed>>,
         place = "confirm" => at \in DOMAIN txs /\ txs[at].call = goal[o],
         place \in {"approve", "owners", "execute"}
         => hash \in Hashes /\ hash.call = goal[o] /\ hash.nonce <= nonce,
         place = "execute" => ThresholdMet(hash)
  PROVE  OwnCalls'
<1>1. run \in [Owners -> [pc: Places, index: 0 .. Len(dequeued),
                         at: 0 .. Len(txs), hash: Hashes \cup {None}]]
  BY DEF TypeOK
<1>2. /\ run'[o] = [pc |-> place, index |-> index, at |-> at, hash |-> hash]
      /\ \A p \in Owners : p # o => run'[p] = run[p]
  BY <1>1, ToFacts
<1>3. run'[o].pc = place /\ run'[o].at = at /\ run'[o].hash = hash
  BY <1>2
<1>4. /\ goal' = goal /\ txs' = txs /\ nonce' = nonce /\ signed' = signed
      /\ \A call : Wanting(call)' = Wanting(call)
      /\ \A h : ThresholdMet(h)' <=> ThresholdMet(h)
  BY DEF Wanting, ThresholdMet, OwnersWhoApproved
<1>5. (\A i \in DOMAIN txs :
         /\ txs[i].by \subseteq Wanting(txs[i].call)
         /\ txs[i].executed => Cardinality(txs[i].by) >= Required)'
  BY <1>4 DEF OwnCalls, Wanting
<1>6. (\A p \in Owners :
         run[p].pc = "confirm"
         => run[p].at \in DOMAIN txs /\ txs[run[p].at].call = goal[p])'
  BY <1>2, <1>3, <1>4 DEF OwnCalls
<1>7. (\A p \in Owners :
         run[p].pc \in {"approve", "owners", "execute"}
         => /\ run[p].hash \in Hashes /\ run[p].hash.call = goal[p]
            /\ run[p].hash.nonce <= nonce)'
  BY <1>2, <1>3, <1>4 DEF OwnCalls, Hashes, Calls
<1>8. (\A s \in signed : s[2].call = goal[s[1]] /\ s[2].nonce <= nonce)'
  BY <1>4 DEF OwnCalls
<1>9. ASSUME NEW p \in Owners, run'[p].pc = "execute"
      PROVE  ThresholdMet(run[p].hash)'
  <2>1. PICK h : h = run'[p].hash
    OBVIOUS
  <2>2. ThresholdMet(h)
    BY <1>2, <1>3, <1>9, <2>1 DEF OwnCalls
  <2>3. Cardinality(OwnersWhoApproved(h)') >= Required
    BY <1>4, <2>2 DEF ThresholdMet
  <2> QED BY <2>1, <2>3 DEF ThresholdMet, OwnersWhoApproved
<1> QED BY <1>5, <1>6, <1>7, <1>8, <1>9 DEF OwnCalls

\* The hash that is made with the nonce of this moment.
LEMMA HashOfNow ==
  ASSUME TypeOK, NEW o \in Owners
  PROVE  LET hash == [call |-> goal[o], nonce |-> nonce]
         IN hash \in Hashes /\ hash.call = goal[o] /\ hash.nonce <= nonce
<1> DEFINE hash == [call |-> goal[o], nonce |-> nonce]
<1>1. nonce \in Nat
  BY DEF TypeOK
<1>2. hash \in Hashes
  BY <1>1, GoalIsCall DEF Hashes
<1>3. hash.call = goal[o] /\ hash.nonce = nonce /\ nonce <= nonce
  BY <1>1
<1> HIDE DEF hash
<1>4. hash \in Hashes /\ hash.call = goal[o] /\ hash.nonce <= nonce
  BY <1>2, <1>3
<1> QED BY <1>4 DEF hash

\* Transactions that stay as they are.
LEMMA TxsStay ==
  ASSUME OwnCalls, UNCHANGED txs
  PROVE  \A j \in DOMAIN txs : Advances(j)
BY DEF OwnCalls, Advances

LEMMA CommandKeeps ==
  ASSUME TypeOK, TypeOK', OwnCalls, NEW o \in Owners,
         Start(o) \/ Command(o) \/ Cut(o)
  PROVE  OwnCalls'
<1>1. ASSUME UNCHANGED <<goal, txs, nonce, signed>>, End(o)
      PROVE  OwnCalls'
  BY <1>1, EndIsTo, MoveKeeps
<1>2. CASE Start(o)
  <2>1. PICK place \in {"dequeue", "check"} : Go(o, place)
    BY <1>2 DEF Start
  <2> QED BY <1>2, <2>1, MoveKeeps DEF Start, Go, contracts
<1>3. CASE SendDequeue(o)
  BY <1>3, MoveKeeps DEF SendDequeue, Go
<1>4. CASE RunChecks(o)
  <2>1. CASE ~End(o)
    <3>1. PICK place \in {"index", "hash", "count"} : Go(o, place)
      BY <1>4, <2>1 DEF RunChecks
    <3> QED BY <1>4, <3>1, MoveKeeps DEF RunChecks, Go, contracts
  <2> QED BY <1>1, <1>4, <2>1 DEF RunChecks, contracts
<1>5. CASE GetDequeueIndex(o)
  <2>1. CASE ~End(o)
    BY <1>5, <2>1, MoveKeeps DEF GetDequeueIndex, contracts
  <2> QED BY <1>1, <1>5, <2>1 DEF GetDequeueIndex, contracts
<1>6. CASE CountTransactions(o)
  BY <1>6, MoveKeeps DEF CountTransactions, contracts
<1>7. CASE ScanTransaction(o)
  <2>1. UNCHANGED <<goal, txs, nonce, signed>>
    BY <1>7 DEF ScanTransaction, contracts
  <2>2. CASE run[o].at = 0
    BY <1>7, <2>1, <2>2, MoveKeeps DEF ScanTransaction, Go
  <2>3. CASE run[o].at # 0 /\ Matches(txs[run[o].at], o)
    <3>1. To(o, "confirm", run[o].index, run[o].at, run[o].hash)
      BY <1>7, <2>3 DEF ScanTransaction, Go
    <3>2. run[o].at \in DOMAIN txs
      BY <2>3, CommandFields DEF TypeOK
    <3> QED BY <2>1, <2>3, <3>1, <3>2, MoveKeeps DEF Matches
  <2>4. CASE run[o].at # 0 /\ ~Matches(txs[run[o].at], o)
    BY <1>7, <2>1, <2>4, MoveKeeps DEF ScanTransaction
  <2> QED BY <2>2, <2>3, <2>4
<1>8. CASE ConfirmTransaction(o)
  <2>1. DOMAIN txs' = DOMAIN txs
    <3>1. txs \in Seq(Transactions) /\ txs' \in Seq(Transactions)
      BY DEF TypeOK
    <3>2. Len(txs') = Len(txs)
      BY <1>8, ConfirmStep
    <3> QED BY <3>1, <3>2
  <2>2. Quiet(o) /\ UNCHANGED <<goal, nonce, signed>>
    BY <1>8, QuietEnd DEF ConfirmTransaction
  <2>3. nonce <= nonce'
    BY <2>2 DEF TypeOK
  <2> QED BY <1>8, <2>1, <2>2, <2>3, ConfirmStep, QuietKeeps
<1>9. CASE SubmitTransaction(o)
  <2>1. Quiet(o) /\ UNCHANGED <<goal, nonce, signed>>
    BY <1>9, QuietEnd DEF SubmitTransaction
  <2>2. nonce <= nonce'
    BY <2>1 DEF TypeOK
  <2>3. /\ txs \in Seq(Transactions) /\ txs' \in Seq(Transactions)
        /\ Len(txs') \in {Len(txs), Len(txs) + 1}
    BY <1>9, SubmitStep DEF TypeOK
  <2>4. DOMAIN txs \subseteq DOMAIN txs'
    BY <2>3
  <2>5. ASSUME NEW j \in DOMAIN txs' \ DOMAIN txs
        PROVE  /\ txs'[j].by \subseteq Wanting(txs'[j].call)
               /\ txs'[j].executed => Cardinality(txs'[j].by) >= Required
    <3>1. j \in 1 .. Len(txs') /\ j \notin 1 .. Len(txs)
      BY <2>3
    <3>2. Len(txs') = Len(txs) + 1 /\ j = Len(txs') /\ Len(txs') # Len(txs)
      BY <2>3, <3>1
    <3> QED BY <1>9, <3>2, SubmitStep
  <2> QED BY <1>9, <2>1, <2>2, <2>4, <2>5, SubmitStep, QuietKeeps
<1>10. CASE HashForApproval(o)
  <2> DEFINE hash == [call |-> goal[o], nonce |-> nonce]
  <2>1. UNCHANGED <<goal, txs, nonce, signed>>
    BY <1>10 DEF HashForApproval, contracts
  <2>2. hash \in Hashes /\ hash.call = goal[o] /\ hash.nonce <= nonce
    BY HashOfNow
  <2>3. \/ Go(o, "rehash")
        \/ To(o, "approve", run[o].index, run[o].at, hash)
    BY <1>10 DEF HashForApproval
  <2> HIDE DEF hash
  <2> QED BY <2>1, <2>2, <2>3, MoveKeeps DEF Go
<1>11. CASE ApproveTransactionHash(o)
  <2>1. Quiet(o)
    BY <1>11, QuietTo DEF ApproveTransactionHash, Go
  <2>2. /\ signed' = signed \cup {<<o, run[o].hash>>} /\ run[o].pc = "approve"
        /\ UNCHANGED <<goal, txs, nonce>>
    BY <1>11 DEF ApproveTransactionHash
  <2>3. nonce <= nonce' /\ DOMAIN txs' = DOMAIN txs
    BY <2>2 DEF TypeOK
  <2> QED BY <2>1, <2>2, <2>3, TxsStay, QuietKeeps
<1>12. CASE HashForExecution(o)
  <2> DEFINE hash == [call |-> goal[o], nonce |-> nonce]
  <2>1. UNCHANGED <<goal, txs, nonce, signed>>
    BY <1>12 DEF HashForExecution, contracts
  <2>2. hash \in Hashes /\ hash.call = goal[o] /\ hash.nonce <= nonce
    BY HashOfNow
  <2>3. To(o, "owners", run[o].index, run[o].at, hash)
    BY <1>12 DEF HashForExecution
  <2> HIDE DEF hash
  <2> QED BY <2>1, <2>2, <2>3, MoveKeeps
<1>13. CASE CountApprovals(o)
  <2>1. UNCHANGED <<goal, txs, nonce, signed>>
    BY <1>13 DEF CountApprovals, contracts
  <2>2. CASE ~End(o)
    <3>1. Go(o, "execute") /\ ThresholdMet(run[o].hash) /\ run[o].pc = "owners"
      BY <1>13, <2>2 DEF CountApprovals
    <3>2. /\ run[o].hash \in Hashes /\ run[o].hash.call = goal[o]
          /\ run[o].hash.nonce <= nonce
      BY <3>1 DEF OwnCalls
    <3> QED BY <2>1, <3>1, <3>2, MoveKeeps DEF Go
  <2> QED BY <1>1, <2>1, <2>2
<1>14. CASE ExecuteTransaction(o)
  <2>1. Quiet(o) /\ UNCHANGED <<goal, txs, signed>>
    BY <1>14, QuietEnd DEF ExecuteTransaction
  <2>2. nonce <= nonce' /\ DOMAIN txs' = DOMAIN txs
    BY <1>14, <2>1, ExecuteStep DEF TypeOK
  <2> QED BY <2>1, <2>2, TxsStay, QuietKeeps
<1>15. CASE Cut(o)
  BY <1>1, <1>15 DEF Cut, contracts
<1> QED BY <1>2, <1>3, <1>4, <1>5, <1>6, <1>7, <1>8, <1>9, <1>10, <1>11, <1>12,
           <1>13, <1>14, <1>15 DEF Command

LEMMA OthersKeep ==
  ASSUME TypeOK, TypeOK', OwnCalls,
         Free \/ Refund \/ OtherSafeTx \/ OtherDequeue \/ UNCHANGED vars
  PROVE  OwnCalls'
<1>1. UNCHANGED <<goal, run, txs, signed>>
  BY DEF Free, Refund, OtherSafeTx, OtherDequeue, vars, contracts
<1>2. nonce <= nonce'
  BY DEF Free, Refund, OtherSafeTx, OtherDequeue, vars, contracts, TypeOK
<1>3. CASE Owners = {}
  BY <1>3, FS_EmptySet, RequiredAssumption
<1>4. CASE Owners # {}
  <2>1. PICK o \in Owners : TRUE
    BY <1>4
  <2> QED BY <1>1, <1>2, TxsStay, QuietKeeps
<1> QED BY <1>3, <1>4

LEMMA OwnCallsNext ==
  ASSUME TypeOK, TypeOK', OwnCalls, [Next]_vars
  PROVE  OwnCalls'
BY CommandKeeps, OthersKeep DEF Next

\* Only commands make Governance approve anything, and what they want.
LEMMA WhoPerforms ==
  ASSUME TypeOK, OwnCalls, [Next]_vars
  PROVE  \/ UNCHANGED approved
         \/ \E o \in Owners : MayPerform(goal[o])
<1>1. CASE UNCHANGED vars
  BY <1>1 DEF vars, contracts, governance
<1>2. ASSUME NEW o \in Owners, Start(o) \/ Command(o) \/ Cut(o)
      PROVE  UNCHANGED approved \/ MayPerform(goal[o])
  <2>1. CASE ConfirmTransaction(o)
    BY <2>1, ConfirmStep
  <2>2. CASE SubmitTransaction(o)
    BY <2>2, SubmitStep
  <2>3. CASE ExecuteTransaction(o)
    BY <2>3, ExecuteStep
  <2> QED BY <1>2, <2>1, <2>2, <2>3
          DEF Command, Start, Cut, SendDequeue, RunChecks, GetDequeueIndex,
              CountTransactions, ScanTransaction, HashForApproval,
              ApproveTransactionHash, HashForExecution, CountApprovals,
              contracts, governance
<1>3. CASE Free \/ Refund \/ OtherSafeTx \/ OtherDequeue
  BY <1>3 DEF Free, Refund, OtherSafeTx, OtherDequeue, governance
<1> QED BY <1>1, <1>2, <1>3 DEF Next

LEMMA GoalsStay ==
  ASSUME [Next]_vars
  PROVE  goal' = goal /\ via' = via
BY DEF Next, vars, Start, Command, Cut, Free, Refund, OtherSafeTx, OtherDequeue,
       SendDequeue, RunChecks, GetDequeueIndex, CountTransactions,
       ScanTransaction, ConfirmTransaction, SubmitTransaction, HashForApproval,
       ApproveTransactionHash, HashForExecution, CountApprovals,
       ExecuteTransaction

LEMMA QuorumNext ==
  ASSUME TypeOK, OwnCalls, QuorumAsked, [Next]_vars
  PROVE  QuorumAsked'
<1>1. \A call : Wanting(call)' = Wanting(call)
  BY GoalsStay DEF Wanting
<1>2. \A call \in approved' : Cardinality(Wanting(call)) >= Required
  BY WhoPerforms, PerformTyped DEF QuorumAsked
<1> QED BY <1>1, <1>2 DEF QuorumAsked

-----------------------------------------------------------------------------
(* Every call has one index.                                               *)

Early == {"idle", "dequeue", "check", "index"}
Placed == {"count", "scan", "submit"}

\* The two parts of OneIndexPerCall that speak of the list and of commands.
ListKept ==
  /\ \A i, j \in DOMAIN dequeued :
       dequeued[i] = dequeued[j] /\ dequeued[i] # None => i = j
  /\ Entries \cap waiting = {}
IndexesUnset == \A o \in Owners : run[o].pc \in Early => run[o].index = 0

\* What a command that moves on says of its call.
LEMMA SaidAfterMove ==
  ASSUME TypeOK, NEW o \in Owners, NEW place, NEW index, NEW at, NEW hash,
         To(o, place, index, at, hash), UNCHANGED goal,
         OneIndexPerCall, place \in Early => index = 0,
         \A i \in DOMAIN txs' :
           \/ i \in DOMAIN txs /\ Advances(i)
           \/ /\ txs'[i].call = goal[o] /\ txs'[i].index = run[o].index
              /\ run[o].pc \in Placed
  PROVE  /\ \A call, k : Said(call, k)'
           => Said(call, k) \/ (place \in Placed /\ call = goal[o] /\ k = index)
         /\ IndexesUnset'
<1>1. run \in [Owners -> [pc: Places, index: 0 .. Len(dequeued),
                         at: 0 .. Len(txs), hash: Hashes \cup {None}]]
  BY DEF TypeOK
<1>2. /\ run'[o] = [pc |-> place, index |-> index, at |-> at, hash |-> hash]
      /\ \A p \in Owners : p # o => run'[p] = run[p]
  BY <1>1, ToFacts
<1>3. run'[o].pc = place /\ run'[o].index = index
  BY <1>2
<1>4. IndexesUnset'
  BY <1>2, <1>3 DEF IndexesUnset, OneIndexPerCall, Early
<1>5. ASSUME NEW call, NEW k, Said(call, k)'
      PROVE  Said(call, k) \/ (place \in Placed /\ call = goal[o] /\ k = index)
  <2>1. CASE \E i \in DOMAIN txs' : txs'[i].call = call /\ txs'[i].index = k
    BY <2>1 DEF Said, Advances, Placed
  <2>2. CASE \E p \in Owners :
               run'[p].pc \in Placed /\ goal[p] = call /\ run'[p].index = k
    BY <1>2, <1>3, <2>2 DEF Said, Placed
  <2> QED BY <1>5, <2>1, <2>2 DEF Said, Placed
<1> QED BY <1>4, <1>5

\* A step after which a call has, at most, the index m said once more.
LEMMA IndexKept ==
  ASSUME TypeOK, OneIndexPerCall, NEW c \in Calls, NEW m \in Nat,
         UNCHANGED <<waiting, dequeued>>, IndexesUnset',
         \A call, k : Said(call, k)' => Said(call, k) \/ (call = c /\ k = m),
         IsIndex(c, m), \A l \in Nat : Said(c, l) => l = m
  PROVE  OneIndexPerCall'
<1>1. \A call, k : IsIndex(call, k)' <=> IsIndex(call, k)
  BY DEF IsIndex, Entries
<1>2. \A call \in Calls : \A k \in Nat : Said(call, k)' => IsIndex(call, k)'
  BY <1>1 DEF OneIndexPerCall
<1>3. \A call \in Calls : \A k, l \in Nat : Said(call, k)' /\ Said(call, l)' => k = l
  BY DEF OneIndexPerCall
<1>4. ListKept /\ ListKept' = ListKept
  BY DEF ListKept, Entries, OneIndexPerCall
<1> QED BY <1>2, <1>3, <1>4 DEF OneIndexPerCall, ListKept, IndexesUnset, Early

\* A step after which nothing new is said.
LEMMA NothingSaid ==
  ASSUME TypeOK, OneIndexPerCall, UNCHANGED <<waiting, dequeued>>, IndexesUnset',
         \A call, k : Said(call, k)' => Said(call, k)
  PROVE  OneIndexPerCall'
<1>1. \A call, k : IsIndex(call, k)' <=> IsIndex(call, k)
  BY DEF IsIndex, Entries
<1>2. \A call \in Calls : \A k \in Nat : Said(call, k)' => IsIndex(call, k)'
  BY <1>1 DEF OneIndexPerCall
<1>3. \A call \in Calls : \A k, l \in Nat : Said(call, k)' /\ Said(call, l)' => k = l
  BY DEF OneIndexPerCall
<1>4. ListKept /\ ListKept' = ListKept
  BY DEF ListKept, Entries, OneIndexPerCall
<1> QED BY <1>2, <1>3, <1>4 DEF OneIndexPerCall, ListKept, IndexesUnset, Early

\* A step of a command that does not touch the queue and says nothing new.
LEMMA MoveKeepsIndex ==
  ASSUME TypeOK, OwnCalls, OneIndexPerCall, NEW o \in Owners,
         NEW place, NEW index, NEW at, NEW hash,
         To(o, place, index, at, hash), UNCHANGED <<goal, waiting, dequeued, txs>>,
         place \in Early => index = 0,
         place \in Placed => run[o].pc \in Placed /\ index = run[o].index
  PROVE  OneIndexPerCall'
<1>1. \A i \in DOMAIN txs' : i \in DOMAIN txs /\ Advances(i)
  BY TxsStay
<1>2. /\ \A call, k : Said(call, k)'
           => Said(call, k) \/ (place \in Placed /\ call = goal[o] /\ k = index)
      /\ IndexesUnset'
  BY <1>1, SaidAfterMove
<1>3. place \in Placed => Said(goal[o], index)
  BY DEF Said, Placed
<1> QED BY <1>2, <1>3, NothingSaid

\* The end of a command, with whatever it did to the transactions.
LEMMA EndKeepsIndex ==
  ASSUME TypeOK, OneIndexPerCall, NEW o \in Owners, End(o),
         UNCHANGED <<goal, waiting, dequeued>>,
         \A i \in DOMAIN txs' :
           \/ i \in DOMAIN txs /\ Advances(i)
           \/ /\ txs'[i].call = goal[o] /\ txs'[i].index = run[o].index
              /\ run[o].pc \in Placed
  PROVE  OneIndexPerCall'
<1>1. To(o, "idle", 0, 0, None) /\ "idle" \notin Placed
  BY EndIsTo DEF Placed
<1>2. (\A call, k : Said(call, k)' => Said(call, k)) /\ IndexesUnset'
  BY <1>1, SaidAfterMove
<1> QED BY <1>2, NothingSaid

LEMMA ChecksKeepIndex ==
  ASSUME TypeOK, OwnCalls, OneIndexPerCall, NEW o \in Owners,
         RunChecks(o) \/ GetDequeueIndex(o)
  PROVE  OneIndexPerCall'
<1>1. /\ UNCHANGED <<goal, waiting, dequeued, txs>>
      /\ run[o].pc \in Early /\ run[o].index = 0
  BY DEF RunChecks, GetDequeueIndex, contracts, governance, OneIndexPerCall, Early
<1>2. \A i \in DOMAIN txs' : i \in DOMAIN txs /\ Advances(i)
  BY <1>1, TxsStay
<1>3. CASE End(o)
  BY <1>1, <1>2, <1>3, EndKeepsIndex
<1>4. CASE Go(o, "index")
  BY <1>1, <1>4, MoveKeepsIndex DEF Go, Early, Placed
<1>5. CASE Go(o, "hash")
  BY <1>1, <1>5, MoveKeepsIndex DEF Go, Early, Placed
<1>6. CASE goal[o] \notin Proposals /\ Go(o, "count")
  <2>1. /\ \A call, k : Said(call, k)'
              => Said(call, k) \/ (call = goal[o] /\ k = 0)
        /\ IndexesUnset'
    BY <1>1, <1>2, <1>6, SaidAfterMove DEF Go, Early
  <2>2. IsIndex(goal[o], 0) /\ \A l : IsIndex(goal[o], l) => l = 0
    BY <1>6 DEF IsIndex
  <2>3. goal[o] \in Calls /\ 0 \in Nat
    BY GoalIsCall
  <2> QED BY <1>1, <2>1, <2>2, <2>3, IndexKept DEF OneIndexPerCall
<1>7. CASE GetDequeueIndex(o) /\ ~End(o)
  <2>1. /\ goal[o] \in Entries
        /\ To(o, "count", DequeueIndex(goal[o]), run[o].at, run[o].hash)
    BY <1>7 DEF GetDequeueIndex
  <2>2. PICK m : m = DequeueIndex(goal[o])
    OBVIOUS
  <2>3. m \in DOMAIN dequeued /\ dequeued[m] = goal[o] /\ goal[o] # None
    BY <2>1, <2>2, PlaceInList DEF Entries, DequeueIndex
  <2>4. m \in Nat /\ goal[o] \in Proposals
    BY <2>3 DEF TypeOK
  <2>5. /\ \A call, k : Said(call, k)'
              => Said(call, k) \/ (call = goal[o] /\ k = m)
        /\ IndexesUnset'
    BY <1>1, <1>2, <2>1, <2>2, SaidAfterMove DEF Early
  <2>6. IsIndex(goal[o], m)
    <3>1. goal[o] \notin waiting
      BY <2>1 DEF OneIndexPerCall
    <3> QED BY <2>3, <2>4, <3>1 DEF IsIndex
  <2>7. \A l \in Nat : Said(goal[o], l) => l = m
    <3> SUFFICES ASSUME NEW l \in Nat, Said(goal[o], l)
                 PROVE  l = m
      OBVIOUS
    <3>1. IsIndex(goal[o], l)
      BY GoalIsCall DEF OneIndexPerCall
    <3>2. l \in DOMAIN dequeued /\ dequeued[l] = goal[o]
      BY <2>1, <2>4, <3>1 DEF IsIndex
    <3> QED BY <2>3, <3>2 DEF OneIndexPerCall
  <2> QED BY <1>1, <2>4, <2>5, <2>6, <2>7, GoalIsCall, IndexKept
<1> QED BY <1>3, <1>4, <1>5, <1>6, <1>7 DEF RunChecks

LEMMA CommandKeepsIndex ==
  ASSUME TypeOK, OwnCalls, OneIndexPerCall, NEW o \in Owners,
         Start(o) \/ (Command(o) /\ ~SendDequeue(o)) \/ Cut(o)
  PROVE  OneIndexPerCall'
<1>1. ASSUME UNCHANGED <<goal, waiting, dequeued, txs>>, End(o)
      PROVE  OneIndexPerCall'
  BY <1>1, TxsStay, EndKeepsIndex
<1>2. CASE Start(o)
  <2>1. PICK place \in {"dequeue", "check"} : Go(o, place)
    BY <1>2 DEF Start
  <2>2. run[o].index = 0
    BY <1>2 DEF Start, OneIndexPerCall
  <2> QED BY <1>2, <2>1, <2>2, MoveKeepsIndex
          DEF Start, Go, contracts, governance, Early, Placed
<1>3. CASE RunChecks(o) \/ GetDequeueIndex(o)
  BY <1>3, ChecksKeepIndex
<1>4. CASE CountTransactions(o)
  BY <1>4, MoveKeepsIndex
     DEF CountTransactions, contracts, governance, Early, Placed
<1>5. CASE ScanTransaction(o)
  <2>1. PICK place, at : /\ place \in {"submit", "confirm", "scan"}
                       /\ To(o, place, run[o].index, at, run[o].hash)
    BY <1>5 DEF ScanTransaction, Go
  <2>2. UNCHANGED <<goal, waiting, dequeued, txs>> /\ run[o].pc = "scan"
    BY <1>5 DEF ScanTransaction, contracts, governance
  <2> QED BY <2>1, <2>2, MoveKeepsIndex DEF Early, Placed
<1>6. CASE ConfirmTransaction(o)
  <2>1. txs \in Seq(Transactions) /\ txs' \in Seq(Transactions) /\ Len(txs') = Len(txs)
    BY <1>6, ConfirmStep DEF TypeOK
  <2>2. \A i \in DOMAIN txs' : i \in DOMAIN txs /\ Advances(i)
    BY <1>6, <2>1, ConfirmStep
  <2> QED BY <1>6, <2>2, EndKeepsIndex DEF ConfirmTransaction
<1>7. CASE SubmitTransaction(o)
  <2>1. txs \in Seq(Transactions) /\ txs' \in Seq(Transactions)
    BY <1>7, SubmitStep DEF TypeOK
  <2>2. run[o].pc \in Placed
    BY <1>7 DEF SubmitTransaction, Placed
  <2>3. ASSUME NEW i \in DOMAIN txs'
        PROVE  \/ i \in DOMAIN txs /\ Advances(i)
               \/ /\ txs'[i].call = goal[o] /\ txs'[i].index = run[o].index
                  /\ run[o].pc \in Placed
    <3>1. CASE i \in DOMAIN txs
      BY <1>7, <3>1, SubmitStep
    <3>2. CASE i \notin DOMAIN txs
      <4>1. i \in 1 .. Len(txs') /\ i \notin 1 .. Len(txs)
        BY <2>1, <3>2
      <4>2. Len(txs') = Len(txs) + 1 \/ Len(txs') = Len(txs)
        BY <1>7, SubmitStep
      <4>3. i = Len(txs') /\ Len(txs') # Len(txs)
        BY <2>1, <4>1, <4>2
      <4> QED BY <1>7, <2>2, <4>3, SubmitStep
    <3> QED BY <3>1, <3>2
  <2> QED BY <1>7, <2>3, EndKeepsIndex DEF SubmitTransaction
<1>8. CASE \/ HashForApproval(o) \/ ApproveTransactionHash(o)
           \/ HashForExecution(o) \/ CountApprovals(o)
  <2>1. UNCHANGED <<goal, waiting, dequeued, txs>>
    BY <1>8 DEF HashForApproval, ApproveTransactionHash, HashForExecution,
                CountApprovals, contracts, governance
  <2>2. CASE ~End(o)
    <3>1. PICK place, hash : /\ place \in {"rehash", "approve", "owners", "execute"}
                          /\ To(o, place, run[o].index, run[o].at, hash)
      BY <1>8, <2>2 DEF HashForApproval, ApproveTransactionHash,
                        HashForExecution, CountApprovals, Go
    <3> QED BY <2>1, <3>1, MoveKeepsIndex DEF Early, Placed
  <2> QED BY <1>1, <2>1, <2>2
<1>9. CASE ExecuteTransaction(o)
  BY <1>1, <1>9 DEF ExecuteTransaction
<1>10. CASE Cut(o)
  BY <1>1, <1>10 DEF Cut, contracts, governance
<1> QED BY <1>2, <1>3, <1>4, <1>5, <1>6, <1>7, <1>8, <1>9, <1>10 DEF Command

\* A step that changes the queue, and what is said of no call.
LEMMA QueueKeepsIndex ==
  ASSUME TypeOK, OneIndexPerCall, ListKept', UNCHANGED <<goal, txs>>,
         \A call \in Calls : \A k \in Nat :
            Said(call, k) /\ IsIndex(call, k) => IsIndex(call, k)',
         \/ UNCHANGED run
         \/ \E o \in Owners : run[o].pc = "dequeue" /\ Go(o, "check")
  PROVE  OneIndexPerCall'
<1>1. (\A call, k : Said(call, k)' => Said(call, k)) /\ IndexesUnset'
  <2>1. CASE UNCHANGED run
    BY <2>1 DEF Said, IndexesUnset, OneIndexPerCall, Early
  <2>2. CASE \E o \in Owners : run[o].pc = "dequeue" /\ Go(o, "check")
    <3>1. PICK o \in Owners : run[o].pc = "dequeue" /\ Go(o, "check")
      BY <2>2
    <3>2. run \in [Owners -> [pc: Places, index: 0 .. Len(dequeued),
                             at: 0 .. Len(txs), hash: Hashes \cup {None}]]
      BY DEF TypeOK
    <3>3. To(o, "check", run[o].index, run[o].at, run[o].hash)
      BY <3>1 DEF Go
    <3>4. /\ run'[o] = [pc |-> "check", index |-> run[o].index,
                       at |-> run[o].at, hash |-> run[o].hash]
          /\ \A p \in Owners : p # o => run'[p] = run[p]
      BY <3>2, <3>3, ToFacts
    <3>5. run'[o].pc = "check" /\ run'[o].index = run[o].index
      BY <3>4
    <3>6. run[o].index = 0
      BY <3>1 DEF OneIndexPerCall
    <3>7. IndexesUnset'
      BY <3>4, <3>5, <3>6 DEF IndexesUnset, OneIndexPerCall, Early
    <3>8. \A call, k : Said(call, k)' => Said(call, k)
      BY <3>4, <3>5 DEF Said
    <3> QED BY <3>7, <3>8
  <2> QED BY <2>1, <2>2
<1>2. \A call \in Calls : \A k \in Nat : Said(call, k)' => IsIndex(call, k)'
  BY <1>1 DEF OneIndexPerCall
<1>3. \A call \in Calls : \A k, l \in Nat : Said(call, k)' /\ Said(call, l)' => k = l
  BY <1>1 DEF OneIndexPerCall
<1> QED BY <1>1, <1>2, <1>3 DEF OneIndexPerCall, ListKept, IndexesUnset, Early

\* An entry that is freed takes an index from its call only.
LEMMA FreeKeepsIndex ==
  ASSUME TypeOK, OneIndexPerCall, Free
  PROVE  OneIndexPerCall'
<1>1. PICK m \in DOMAIN dequeued :
        /\ dequeued[m] # None /\ dequeued'[m] = None
        /\ \A i \in DOMAIN dequeued : i # m => dequeued'[i] = dequeued[i]
  BY FreeStep
<1>2. /\ DOMAIN dequeued' = DOMAIN dequeued
      /\ UNCHANGED <<goal, waiting, txs, run>>
  BY FreeStep DEF Free
<1>3. /\ \A i \in DOMAIN dequeued' :
           dequeued'[i] # None => dequeued'[i] = dequeued[i] /\ i # m
      /\ Entries' \subseteq Entries
  BY <1>1, <1>2 DEF Entries
<1>4. ListKept'
  BY <1>2, <1>3 DEF ListKept, OneIndexPerCall
<1>5. ASSUME NEW call \in Calls, NEW k \in Nat, IsIndex(call, k)
      PROVE  IsIndex(call, k)'
  <2>1. CASE call \in Entries'
    <3>1. PICK i \in DOMAIN dequeued' : dequeued'[i] = call /\ call # None
      BY <2>1 DEF Entries
    <3>2. dequeued[i] = call /\ i # m /\ call \in Entries /\ call \in Proposals
      BY <1>2, <1>3, <2>1, <3>1 DEF TypeOK
    <3>3. k \in DOMAIN dequeued /\ dequeued[k] = call
      BY <1>5, <3>2 DEF IsIndex
    <3>4. k = i
      BY <1>2, <3>1, <3>2, <3>3 DEF OneIndexPerCall
    <3> QED BY <1>2, <1>5, <3>1, <3>2, <3>4 DEF IsIndex
  <2>2. CASE call \notin Entries'
    BY <1>2, <1>5, <2>2 DEF IsIndex
  <2> QED BY <2>1, <2>2
<1> QED BY <1>2, <1>4, <1>5, QueueKeepsIndex

\* A proposal that is dequeued had no index yet.
LEMMA DequeueKeepsIndex ==
  ASSUME TypeOK, OneIndexPerCall, Dequeue, UNCHANGED <<goal, txs>>,
         \/ UNCHANGED run
         \/ \E o \in Owners : run[o].pc = "dequeue" /\ Go(o, "check")
  PROVE  OneIndexPerCall'
<1>1. PICK p \in waiting : \E m \in 1 .. Len(dequeued) + 1 :
        /\ waiting' = waiting \ {p}
        /\ m \in DOMAIN dequeued'
        /\ DOMAIN dequeued' = DOMAIN dequeued \cup {m}
        /\ m \in DOMAIN dequeued => dequeued[m] = None
        /\ dequeued'[m] = p
        /\ \A i \in DOMAIN dequeued : i # m => dequeued'[i] = dequeued[i]
  BY DequeueFacts
<1>2. PICK m \in 1 .. Len(dequeued) + 1 :
        /\ waiting' = waiting \ {p}
        /\ m \in DOMAIN dequeued'
        /\ DOMAIN dequeued' = DOMAIN dequeued \cup {m}
        /\ m \in DOMAIN dequeued => dequeued[m] = None
        /\ dequeued'[m] = p
        /\ \A i \in DOMAIN dequeued : i # m => dequeued'[i] = dequeued[i]
  BY <1>1
<1>3. p \in Proposals /\ p # None /\ p \notin Entries
  BY CallsAssumption DEF TypeOK, OneIndexPerCall
<1>4. \A i \in DOMAIN dequeued : dequeued[i] # p
  BY <1>3 DEF Entries
<1>5. Entries' = Entries \cup {p}
  <2>1. Entries' \subseteq Entries \cup {p}
    BY <1>2 DEF Entries
  <2>2. Entries \subseteq Entries'
    BY <1>2 DEF Entries
  <2>3. p \in Entries'
    BY <1>2, <1>3 DEF Entries
  <2> QED BY <2>1, <2>2, <2>3
<1>6. ListKept'
  <2>1. ASSUME NEW i \in DOMAIN dequeued', NEW j \in DOMAIN dequeued',
               dequeued'[i] = dequeued'[j], dequeued'[i] # None
        PROVE  i = j
    <3>1. CASE i # m /\ j # m
      BY <1>2, <2>1, <3>1 DEF OneIndexPerCall
    <3>2. CASE i = m \/ j = m
      BY <1>2, <1>4, <2>1, <3>2
    <3> QED BY <3>1, <3>2
  <2>2. Entries' \cap waiting' = {}
    BY <1>2, <1>5 DEF OneIndexPerCall
  <2> QED BY <2>1, <2>2 DEF ListKept
<1>7. ASSUME NEW call \in Calls, NEW k \in Nat, IsIndex(call, k)
      PROVE  IsIndex(call, k)'
  <2>1. CASE call \in Proposals
    <3>1. call \notin waiting /\ call # p /\ call # None
      BY <1>7, <2>1, CallsAssumption DEF IsIndex
    <3>2. CASE call \in Entries
      <4>1. k \in DOMAIN dequeued /\ dequeued[k] = call
        BY <1>7, <2>1, <3>2 DEF IsIndex
      <4>2. k \in DOMAIN dequeued' /\ dequeued'[k] = call
        BY <1>2, <3>1, <4>1
      <4> QED BY <1>2, <2>1, <3>1, <4>2 DEF IsIndex
    <3>3. CASE call \notin Entries
      BY <1>2, <1>5, <2>1, <3>1, <3>3 DEF IsIndex
    <3> QED BY <3>2, <3>3
  <2>2. CASE call \notin Proposals
    BY <1>7, <2>2 DEF IsIndex
  <2> QED BY <2>1, <2>2
<1> QED BY <1>6, <1>7, QueueKeepsIndex

LEMMA OneIndexNext ==
  ASSUME TypeOK, OwnCalls, OneIndexPerCall, [Next]_vars
  PROVE  OneIndexPerCall'
<1>1. ASSUME UNCHANGED <<goal, waiting, dequeued, txs, run>>
      PROVE  OneIndexPerCall'
  <2>1. (\A call, k : Said(call, k)' => Said(call, k)) /\ IndexesUnset'
    BY <1>1 DEF Said, IndexesUnset, OneIndexPerCall, Early
  <2> QED BY <1>1, <2>1, NothingSaid
<1>2. CASE Refund \/ OtherSafeTx \/ UNCHANGED vars
  BY <1>1, <1>2 DEF Refund, OtherSafeTx, vars, contracts, governance
<1>3. CASE Free
  BY <1>3, FreeKeepsIndex
<1>4. CASE OtherDequeue
  BY <1>4, DequeueKeepsIndex DEF OtherDequeue
<1>5. ASSUME NEW o \in Owners, Start(o) \/ Command(o) \/ Cut(o)
      PROVE  OneIndexPerCall'
  <2>1. CASE SendDequeue(o) /\ Dequeue
    BY <2>1, DequeueKeepsIndex DEF SendDequeue
  <2>2. CASE SendDequeue(o) /\ UNCHANGED <<waiting, dequeued>>
    <3>1. run[o].index = 0
      BY <2>2 DEF SendDequeue, OneIndexPerCall
    <3> QED BY <2>2, <3>1, MoveKeepsIndex DEF SendDequeue, Go, Early, Placed
  <2>3. CASE ~SendDequeue(o)
    BY <1>5, <2>3, CommandKeepsIndex
  <2> QED BY <2>1, <2>2, <2>3 DEF SendDequeue
<1> QED BY <1>2, <1>3, <1>4, <1>5 DEF Next

-----------------------------------------------------------------------------
(* No call is pending twice.                                               *)

Scanning == {"scan", "submit"}
OneScan ==
  \A o, p \in Owners :
    /\ run[o].pc \in Scanning /\ run[p].pc \in Scanning
    /\ goal[o] = goal[p] /\ goal[o] \notin raced
    => o = p
Passed(o, i) ==
  \/ run[o].pc = "scan" /\ run[o].at < i
  \/ run[o].pc = "submit"
NonePassed ==
  \A o \in Owners : \A i \in DOMAIN txs :
    goal[o] \notin raced /\ Passed(o, i) => ~PendingFor(i, goal[o])

LEMMA ScanParts == ScanMissesNothing <=> OneScan /\ NonePassed
BY DEF ScanMissesNothing, OneScan, NonePassed, Scanning, Passed

\* A step at which nobody scans on, and transactions may be executed.
LEMMA ScansRest ==
  ASSUME ScanMissesNothing, OnePendingPerCall, UNCHANGED goal, raced' = raced,
         \A o \in Owners : run'[o].pc \in Scanning => run'[o] = run[o],
         \A i \in DOMAIN txs' : i \in DOMAIN txs /\ Advances(i)
  PROVE  ScanMissesNothing' /\ OnePendingPerCall'
<1>1. OneScan /\ NonePassed
  BY ScanParts
<1>2. OneScan'
  BY <1>1 DEF OneScan
<1>3. \A i \in DOMAIN txs' : \A call : PendingFor(i, call)' => PendingFor(i, call)
  BY DEF PendingFor, Advances
<1>4. NonePassed'
  BY <1>1, <1>3 DEF NonePassed, Passed, Scanning
<1>5. OnePendingPerCall'
  BY DEF OnePendingPerCall, Advances
<1>6. ScanMissesNothing' <=> OneScan' /\ NonePassed'
  BY DEF ScanMissesNothing, OneScan, NonePassed, Scanning, Passed
<1> QED BY <1>2, <1>4, <1>5, <1>6

\* Two owners that count at once race.
LEMMA CountScans ==
  ASSUME TypeOK, ScanMissesNothing, OnePendingPerCall, NEW o \in Owners,
         CountTransactions(o)
  PROVE  ScanMissesNothing' /\ OnePendingPerCall'
<1>1. OneScan /\ NonePassed
  BY ScanParts
<1>2. UNCHANGED <<goal, txs>> /\ raced \subseteq raced'
  BY DEF CountTransactions, contracts
<1>3. run \in [Owners -> [pc: Places, index: 0 .. Len(dequeued),
                         at: 0 .. Len(txs), hash: Hashes \cup {None}]]
  BY DEF TypeOK
<1>4. To(o, "scan", run[o].index, LatestTransaction, run[o].hash)
  BY DEF CountTransactions
<1>5. /\ run'[o] = [pc |-> "scan", index |-> run[o].index,
                   at |-> LatestTransaction, hash |-> run[o].hash]
      /\ \A p \in Owners : p # o => run'[p] = run[p]
  BY <1>3, <1>4, ToFacts
<1>6. run'[o].pc = "scan" /\ run'[o].at = Len(txs)
  BY <1>5 DEF LatestTransaction
<1>7. \A p \in Owners \ {o} :
        run[p].pc \in Scanning /\ goal[p] = goal[o] => goal[o] \in raced'
  BY DEF CountTransactions, Scanning
<1>8. OneScan'
  BY <1>1, <1>2, <1>5, <1>7 DEF OneScan
<1>9. ASSUME NEW p \in Owners, NEW i \in DOMAIN txs, goal[p] \notin raced',
             Passed(p, i)'
      PROVE  ~PendingFor(i, goal[p])
  <2>1. CASE p = o
    <3>1. Len(txs) < i
      BY <1>6, <1>9, <2>1 DEF Passed
    <3> QED BY <3>1 DEF TypeOK
  <2>2. CASE p # o
    BY <1>1, <1>2, <1>5, <1>9, <2>2 DEF Passed, NonePassed
  <2> QED BY <2>1, <2>2
<1>10. NonePassed'
  BY <1>2, <1>9 DEF NonePassed, PendingFor
<1>11. OnePendingPerCall'
  BY <1>2 DEF OnePendingPerCall
<1>12. ScanMissesNothing' <=> OneScan' /\ NonePassed'
  BY DEF ScanMissesNothing, OneScan, NonePassed, Scanning, Passed
<1> QED BY <1>8, <1>10, <1>11, <1>12

\* A transaction that does not match is not pending for the call.
LEMMA NoMatchNotPending ==
  ASSUME TypeOK, OneIndexPerCall, NEW o \in Owners, run[o].pc = "scan",
         NEW i \in DOMAIN txs, ~Matches(txs[i], o)
  PROVE  ~PendingFor(i, goal[o])
<1> SUFFICES ASSUME PendingFor(i, goal[o])
             PROVE  FALSE
  OBVIOUS
<1>1. txs[i].call = goal[o] /\ ~txs[i].executed /\ txs[i].index # run[o].index
  BY DEF PendingFor, Matches
<1>2. Said(goal[o], txs[i].index) /\ Said(goal[o], run[o].index)
  BY <1>1 DEF Said
<1>3. txs[i] \in Transactions
  BY DEF TypeOK
<1>4. txs[i].index \in Nat /\ run[o].index \in Nat /\ goal[o] \in Calls
  BY <1>3, CommandFields, GoalIsCall DEF Transactions, TypeOK
<1> QED BY <1>1, <1>2, <1>4 DEF OneIndexPerCall

LEMMA ScanScans ==
  ASSUME TypeOK, OneIndexPerCall, ScanMissesNothing, OnePendingPerCall,
         NEW o \in Owners, ScanTransaction(o)
  PROVE  ScanMissesNothing' /\ OnePendingPerCall'
<1>1. OneScan /\ NonePassed
  BY ScanParts
<1>2. UNCHANGED <<goal, txs, raced>> /\ run[o].pc = "scan"
  BY DEF ScanTransaction, contracts
<1>3. run \in [Owners -> [pc: Places, index: 0 .. Len(dequeued),
                         at: 0 .. Len(txs), hash: Hashes \cup {None}]]
  BY DEF TypeOK
<1>4. PICK place \in {"submit", "confirm", "scan"}, at \in 0 .. Len(txs) :
        /\ To(o, place, run[o].index, at, run[o].hash)
        /\ place = "submit" => run[o].at = 0
        /\ place = "scan" => /\ run[o].at # 0 /\ at = run[o].at - 1
                          /\ ~Matches(txs[run[o].at], o)
  <2>1. CASE run[o].at = 0
    BY <2>1, CommandFields DEF ScanTransaction, Go
  <2>2. CASE run[o].at # 0 /\ Matches(txs[run[o].at], o)
    BY <2>2, CommandFields DEF ScanTransaction, Go
  <2>3. CASE run[o].at # 0 /\ ~Matches(txs[run[o].at], o)
    <3>1. run[o].at - 1 \in 0 .. Len(txs)
      BY <2>3, CommandFields DEF TypeOK
    <3> QED BY <2>3, <3>1 DEF ScanTransaction
  <2> QED BY <2>1, <2>2, <2>3
<1>5. /\ run'[o] = [pc |-> place, index |-> run[o].index, at |-> at,
                   hash |-> run[o].hash]
      /\ \A p \in Owners : p # o => run'[p] = run[p]
  BY <1>3, <1>4, ToFacts
<1>6. run'[o].pc = place /\ run'[o].at = at
  BY <1>5
<1>7. OneScan'
  BY <1>1, <1>2, <1>5 DEF OneScan, Scanning
<1>8. ASSUME NEW p \in Owners, NEW i \in DOMAIN txs, goal[p] \notin raced,
             Passed(p, i)'
      PROVE  ~PendingFor(i, goal[p])
  <2>1. CASE p # o
    BY <1>1, <1>5, <1>8, <2>1 DEF Passed, NonePassed
  <2>2. CASE p = o /\ run[o].at < i
    BY <1>1, <1>2, <1>8, <2>2 DEF Passed, NonePassed
  <2>3. CASE p = o /\ ~(run[o].at < i)
    <3>1. i \in 1 .. Len(txs) /\ run[o].at \in Nat /\ Len(txs) \in Nat
      BY CommandFields DEF TypeOK
    <3>2. place = "scan" /\ at < i
      BY <1>4, <1>6, <1>8, <2>3, <3>1 DEF Passed
    <3>3. i = run[o].at
      BY <1>4, <2>3, <3>1, <3>2
    <3> QED BY <1>2, <1>4, <2>3, <3>2, <3>3, NoMatchNotPending
  <2> QED BY <2>1, <2>2, <2>3
<1>9. NonePassed'
  BY <1>2, <1>8 DEF NonePassed, PendingFor
<1>10. OnePendingPerCall'
  BY <1>2 DEF OnePendingPerCall
<1>11. ScanMissesNothing' <=> OneScan' /\ NonePassed'
  BY DEF ScanMissesNothing, OneScan, NonePassed, Scanning, Passed
<1> QED BY <1>7, <1>9, <1>10, <1>11

\* Where the other commands are after one of them moved.
LEMMA OthersStay ==
  ASSUME TypeOK, NEW o \in Owners, NEW place, NEW index, NEW at, NEW hash,
         To(o, place, index, at, hash), place \notin Scanning
  PROVE  \A p \in Owners : run'[p].pc \in Scanning => p # o /\ run'[p] = run[p]
<1>1. run \in [Owners -> [pc: Places, index: 0 .. Len(dequeued),
                         at: 0 .. Len(txs), hash: Hashes \cup {None}]]
  BY DEF TypeOK
<1>2. /\ run'[o] = [pc |-> place, index |-> index, at |-> at, hash |-> hash]
      /\ \A p \in Owners : p # o => run'[p] = run[p]
  BY <1>1, ToFacts
<1>3. run'[o].pc = place
  BY <1>2
<1> QED BY <1>2, <1>3

\* What is submitted was not pending.
LEMMA SubmitScans ==
  ASSUME TypeOK, OwnCalls, ScanMissesNothing, OnePendingPerCall,
         NEW o \in Owners, SubmitTransaction(o)
  PROVE  ScanMissesNothing' /\ OnePendingPerCall'
<1>1. OneScan /\ NonePassed
  BY ScanParts
<1>2. UNCHANGED <<goal, raced>> /\ run[o].pc = "submit" /\ End(o)
  BY DEF SubmitTransaction
<1>3. \A p \in Owners : run'[p].pc \in Scanning => p # o /\ run'[p] = run[p]
  BY <1>2, EndIsTo, OthersStay DEF Scanning
<1>4. txs \in Seq(Transactions) /\ txs' \in Seq(Transactions)
  BY SubmitStep DEF TypeOK
<1>5. \A i \in DOMAIN txs' :
        \/ i \in DOMAIN txs /\ Advances(i)
        \/ i = Len(txs) + 1 /\ txs'[i].call = goal[o]
  <2> SUFFICES ASSUME NEW i \in DOMAIN txs'
               PROVE  \/ i \in DOMAIN txs /\ Advances(i)
                      \/ i = Len(txs) + 1 /\ txs'[i].call = goal[o]
    OBVIOUS
  <2>1. CASE i \in DOMAIN txs
    BY <2>1, SubmitStep
  <2>2. CASE i \notin DOMAIN txs
    <3>1. i \in 1 .. Len(txs') /\ i \notin 1 .. Len(txs)
      BY <1>4, <2>2
    <3>2. Len(txs') = Len(txs) + 1 \/ Len(txs') = Len(txs)
      BY SubmitStep
    <3>3. i = Len(txs') /\ Len(txs') # Len(txs)
      BY <1>4, <3>1, <3>2
    <3> QED BY <3>2, <3>3, SubmitStep
  <2> QED BY <2>1, <2>2
<1>6. OneScan'
  BY <1>1, <1>2, <1>3 DEF OneScan
<1>7. \A i \in DOMAIN txs : goal[o] \notin raced => ~PendingFor(i, goal[o])
  BY <1>1, <1>2 DEF NonePassed, Passed
<1>8. \A i \in DOMAIN txs' : \A call :
        PendingFor(i, call)' => \/ i \in DOMAIN txs /\ PendingFor(i, call)
                                \/ i = Len(txs) + 1 /\ call = goal[o]
  BY <1>5 DEF PendingFor, Advances
<1>9. ASSUME NEW p \in Owners, NEW i \in DOMAIN txs', goal[p] \notin raced,
             Passed(p, i)', PendingFor(i, goal[p])'
      PROVE  FALSE
  <2>1. p # o /\ run'[p] = run[p] /\ run[p].pc \in Scanning
    BY <1>3, <1>9 DEF Passed, Scanning
  <2>2. goal[p] # goal[o]
    BY <1>1, <1>2, <1>9, <2>1 DEF OneScan, Scanning
  <2>3. i \in DOMAIN txs /\ PendingFor(i, goal[p])
    BY <1>2, <1>8, <1>9, <2>2 DEF PendingFor
  <2> QED BY <1>1, <1>9, <2>1, <2>3 DEF NonePassed, Passed
<1>10. NonePassed'
  BY <1>2, <1>9 DEF NonePassed, PendingFor
<1>11. ASSUME NEW i \in DOMAIN txs', NEW j \in DOMAIN txs', NEW call,
              PendingFor(i, call)', PendingFor(j, call)', call \notin raced
       PROVE  i = j
  <2>1. CASE i \in DOMAIN txs /\ PendingFor(i, call)
    <3>1. CASE j \in DOMAIN txs /\ PendingFor(j, call)
      BY <1>11, <2>1, <3>1 DEF OnePendingPerCall, PendingFor
    <3>2. CASE j = Len(txs) + 1 /\ call = goal[o]
      BY <1>7, <1>11, <2>1, <3>2
    <3> QED BY <1>8, <1>11, <3>1, <3>2
  <2>2. CASE i = Len(txs) + 1 /\ call = goal[o]
    <3>1. CASE j \in DOMAIN txs /\ PendingFor(j, call)
      BY <1>7, <1>11, <2>2, <3>1
    <3>2. CASE j = Len(txs) + 1
      BY <2>2, <3>2
    <3> QED BY <1>8, <1>11, <3>1, <3>2
  <2> QED BY <1>8, <1>11, <2>1, <2>2
<1>12. OnePendingPerCall'
  BY <1>2, <1>11 DEF OnePendingPerCall, PendingFor
<1>13. ScanMissesNothing' <=> OneScan' /\ NonePassed'
  BY DEF ScanMissesNothing, OneScan, NonePassed, Scanning, Passed
<1> QED BY <1>6, <1>10, <1>12, <1>13

LEMMA OnePendingNext ==
  ASSUME TypeOK, OwnCalls, OneIndexPerCall, ScanMissesNothing, OnePendingPerCall,
         [Next]_vars
  PROVE  ScanMissesNothing' /\ OnePendingPerCall'
<1>1. ASSUME UNCHANGED <<goal, txs, raced>>,
             \A o \in Owners : run'[o].pc \in Scanning => run'[o] = run[o]
      PROVE  ScanMissesNothing' /\ OnePendingPerCall'
  BY <1>1, TxsStay, ScansRest
<1>2. CASE Free \/ Refund \/ OtherSafeTx \/ OtherDequeue \/ UNCHANGED vars
  BY <1>1, <1>2 DEF Free, Refund, OtherSafeTx, OtherDequeue, vars, contracts
<1>3. ASSUME NEW o \in Owners, Start(o) \/ Command(o) \/ Cut(o)
      PROVE  ScanMissesNothing' /\ OnePendingPerCall'
  <2>1. CASE CountTransactions(o)
    BY <2>1, CountScans
  <2>2. CASE ScanTransaction(o)
    BY <2>2, ScanScans
  <2>3. CASE SubmitTransaction(o)
    BY <2>3, SubmitScans
  <2>4. CASE ConfirmTransaction(o)
    <3>1. \A p \in Owners : run'[p].pc \in Scanning => run'[p] = run[p]
      BY <2>4, EndIsTo, OthersStay DEF ConfirmTransaction, Scanning
    <3>2. txs \in Seq(Transactions) /\ txs' \in Seq(Transactions) /\ Len(txs') = Len(txs)
      BY <2>4, ConfirmStep DEF TypeOK
    <3>3. \A i \in DOMAIN txs' : i \in DOMAIN txs /\ Advances(i)
      BY <2>4, <3>2, ConfirmStep
    <3> QED BY <2>4, <3>1, <3>3, ScansRest DEF ConfirmTransaction
  <2>5. CASE Start(o) \/ SendDequeue(o) \/ RunChecks(o) \/ GetDequeueIndex(o)
    <3>1. PICK place, index, at, hash : To(o, place, index, at, hash) /\ place \notin Scanning
      BY <2>5, EndIsTo DEF Start, SendDequeue, RunChecks, GetDequeueIndex, Go,
                           Scanning
    <3>2. UNCHANGED <<goal, txs, raced>>
      BY <2>5 DEF Start, SendDequeue, RunChecks, GetDequeueIndex, contracts
    <3> QED BY <1>1, <3>1, <3>2, OthersStay
  <2>6. CASE \/ HashForApproval(o) \/ ApproveTransactionHash(o)
             \/ HashForExecution(o) \/ CountApprovals(o)
             \/ ExecuteTransaction(o) \/ Cut(o)
    <3>1. PICK place, index, at, hash : To(o, place, index, at, hash) /\ place \notin Scanning
      BY <2>6, EndIsTo DEF HashForApproval, ApproveTransactionHash,
           HashForExecution, CountApprovals, ExecuteTransaction, Cut, Go, Scanning
    <3>2. UNCHANGED <<goal, txs, raced>>
      BY <2>6 DEF HashForApproval, ApproveTransactionHash, HashForExecution,
           CountApprovals, ExecuteTransaction, Cut, contracts
    <3> QED BY <1>1, <3>1, <3>2, OthersStay
  <2> QED BY <1>3, <2>1, <2>2, <2>3, <2>4, <2>5, <2>6 DEF Command
<1> QED BY <1>2, <1>3 DEF Next

-----------------------------------------------------------------------------
(* On a Safe, whoever approved last executes.                              *)

BeforeRefund ==
  credits = 0 =>
    /\ \A o \in Owners : goal[o] = Withdraw
                         => run[o].pc \in {"idle", "dequeue", "check"}
    /\ \A s \in signed : s[2].call # Withdraw
Claimed ==
  via = "safe" /\ ~cut =>
    \A call \in {Hotfix, Withdraw} :
      Due(call) => \E o \in Owners : WillExecute(o, call)

LEMMA LastParts ==
  LastApproverExecutes <=>
    /\ via = "safe" => \A o \in Owners : goal[o] \notin Proposals
    /\ BeforeRefund /\ Claimed
BY DEF LastApproverExecutes, BeforeRefund, Claimed

LEMMA LastPartsNext ==
  LastApproverExecutes' <=>
    /\ via' = "safe" => \A o \in Owners : goal'[o] \notin Proposals
    /\ BeforeRefund' /\ Claimed'
BY DEF LastApproverExecutes, BeforeRefund, Claimed

\* A step after which a command is where it was, or before its check.
LEMMA RefundlessMove ==
  ASSUME TypeOK, BeforeRefund, NEW o \in Owners,
         NEW place, NEW index, NEW at, NEW hash, To(o, place, index, at, hash),
         UNCHANGED <<goal, credits, signed>>,
         \/ run[o].pc \notin {"idle", "dequeue", "check"}
         \/ place \in {"idle", "dequeue", "check"}
         \/ ~(credits = 0 /\ goal[o] = Withdraw)
  PROVE  BeforeRefund'
<1>1. run \in [Owners -> [pc: Places, index: 0 .. Len(dequeued),
                         at: 0 .. Len(txs), hash: Hashes \cup {None}]]
  BY DEF TypeOK
<1>2. /\ run'[o] = [pc |-> place, index |-> index, at |-> at, hash |-> hash]
      /\ \A p \in Owners : p # o => run'[p] = run[p]
  BY <1>1, ToFacts
<1>3. run'[o].pc = place
  BY <1>2
<1> QED BY <1>2, <1>3 DEF BeforeRefund

LEMMA BeforeRefundNext ==
  ASSUME TypeOK, OwnCalls, BeforeRefund, [Next]_vars
  PROVE  BeforeRefund'
<1>1. CASE Free \/ OtherSafeTx \/ OtherDequeue \/ UNCHANGED vars
  BY <1>1 DEF Free, OtherSafeTx, OtherDequeue, vars, contracts, BeforeRefund
<1>2. CASE Refund
  <2>1. credits' # 0
    BY <1>2 DEF Refund, TypeOK
  <2> QED BY <2>1 DEF BeforeRefund
<1>3. ASSUME NEW o \in Owners, Start(o) \/ Command(o) \/ Cut(o)
      PROVE  BeforeRefund'
  <2>1. CASE End(o) /\ UNCHANGED <<goal, credits, signed>>
    BY <2>1, EndIsTo, RefundlessMove
  <2>2. CASE Start(o) \/ SendDequeue(o)
    <3>1. PICK place \in {"dequeue", "check"} : Go(o, place)
      BY <2>2 DEF Start, SendDequeue
    <3> QED BY <2>2, <3>1, RefundlessMove DEF Start, SendDequeue, Go, contracts
  <2>3. CASE RunChecks(o) /\ ~End(o)
    <3>1. PICK place : Go(o, place)
      BY <2>3 DEF RunChecks
    <3>2. Worth(goal[o]) /\ UNCHANGED <<goal, credits, signed>>
      BY <2>3 DEF RunChecks, contracts
    <3>3. ~(credits = 0 /\ goal[o] = Withdraw)
      BY <3>2, CallsAssumption DEF Worth, TypeOK
    <3> QED BY <3>1, <3>2, <3>3, RefundlessMove DEF Go
  <2>4. CASE \/ GetDequeueIndex(o) \/ CountTransactions(o) \/ ScanTransaction(o)
             \/ HashForApproval(o) \/ HashForExecution(o) \/ CountApprovals(o)
    <3>1. /\ UNCHANGED <<goal, credits, signed>>
          /\ run[o].pc \notin {"idle", "dequeue", "check"}
      BY <2>4 DEF GetDequeueIndex, CountTransactions, ScanTransaction,
           HashForApproval, HashForExecution, CountApprovals, contracts
    <3>2. PICK place, index, at, hash : To(o, place, index, at, hash)
      BY <2>4, EndIsTo DEF GetDequeueIndex, CountTransactions, ScanTransaction,
           HashForApproval, HashForExecution, CountApprovals, Go
    <3> QED BY <3>1, <3>2, RefundlessMove
  <2>5. CASE ApproveTransactionHash(o)
    <3>1. /\ UNCHANGED <<goal, credits>> /\ run[o].pc = "approve"
          /\ signed' = signed \cup {<<o, run[o].hash>>}
          /\ To(o, "rehash", run[o].index, run[o].at, run[o].hash)
      BY <2>5 DEF ApproveTransactionHash, Go
    <3>2. run \in [Owners -> [pc: Places, index: 0 .. Len(dequeued),
                             at: 0 .. Len(txs), hash: Hashes \cup {None}]]
      BY DEF TypeOK
    <3>3. \A p \in Owners : p # o => run'[p] = run[p]
      BY <3>1, <3>2, ToFacts
    <3>4. credits = 0 => goal[o] # Withdraw
      BY <3>1 DEF BeforeRefund
    <3>5. run[o].hash.call = goal[o]
      BY <3>1 DEF OwnCalls
    <3> QED BY <3>1, <3>3, <3>4, <3>5 DEF BeforeRefund
  <2>6. CASE \/ ConfirmTransaction(o) \/ SubmitTransaction(o)
             \/ ExecuteTransaction(o) \/ Cut(o)
    BY <2>1, <2>6 DEF ConfirmTransaction, SubmitTransaction, ExecuteTransaction,
         Cut, contracts
  <2>7. CASE GetDequeueIndex(o) \/ RunChecks(o)
    BY <2>1, <2>3, <2>4, <2>7 DEF RunChecks, contracts
  <2> QED BY <1>3, <2>2, <2>4, <2>5, <2>6, <2>7 DEF Command
<1> QED BY <1>1, <1>2, <1>3 DEF Next

\* Nobody has approved anything for a nonce that is still to come.
LEMMA NothingForLater ==
  ASSUME TypeOK, OwnCalls, NEW call, NEW n \in Nat, nonce < n
  PROVE  ~ThresholdMet([call |-> call, nonce |-> n])
<1> DEFINE hash == [call |-> call, nonce |-> n]
<1>1. hash.nonce = n
  OBVIOUS
<1> HIDE DEF hash
<1>2. ASSUME NEW p \in OwnersWhoApproved(hash)
      PROVE  FALSE
  <2>1. <<p, hash>> \in signed
    BY <1>2 DEF OwnersWhoApproved
  <2>2. hash.nonce <= nonce
    BY <2>1 DEF OwnCalls
  <2> QED BY <1>1, <2>2 DEF TypeOK
<1>3. OwnersWhoApproved(hash) = {}
  BY <1>2
<1>4. ~ThresholdMet(hash)
  BY <1>3, NobodyIsNotEnough DEF ThresholdMet
<1> QED BY <1>4 DEF hash

\* A call that is due after a step that only performs calls was due before.
LEMMA DueBefore ==
  ASSUME TypeOK, NEW call \in {Hotfix, Withdraw},
         UNCHANGED <<credits, nonce, signed>>, approved \subseteq approved',
         refunds' \in {0, refunds}, Due(call)'
  PROVE  Due(call)
<1>1. Worth(call)
  BY CallsAssumption DEF Due, Worth, TypeOK
<1>2. call = Withdraw => refunds = credits
  BY CallsAssumption DEF Due, Worth, TypeOK
<1>3. ThresholdMet([call |-> call, nonce |-> nonce])
  BY DEF Due, ThresholdMet, OwnersWhoApproved
<1> QED BY <1>1, <1>2, <1>3 DEF Due

\* The steps of a command that is not about to execute.
LEMMA ClaimKept ==
  ASSUME TypeOK, Claimed, NEW o \in Owners,
         NEW place, NEW index, NEW at, NEW hash, To(o, place, index, at, hash),
         UNCHANGED <<via, goal, credits, nonce, signed, cut>>,
         approved \subseteq approved', refunds' \in {0, refunds},
         run[o].pc \notin {"rehash", "owners", "execute"}
  PROVE  Claimed'
<1> SUFFICES ASSUME via = "safe", ~cut, NEW call \in {Hotfix, Withdraw}, Due(call)'
             PROVE  \E p \in Owners : WillExecute(p, call)'
  BY DEF Claimed
<1>1. run \in [Owners -> [pc: Places, index: 0 .. Len(dequeued),
                         at: 0 .. Len(txs), hash: Hashes \cup {None}]]
  BY DEF TypeOK
<1>2. \A p \in Owners : p # o => run'[p] = run[p]
  BY <1>1, ToFacts
<1>3. PICK p \in Owners : WillExecute(p, call)
  BY DueBefore DEF Claimed
<1>4. p # o
  BY <1>3 DEF WillExecute
<1> QED BY <1>2, <1>3, <1>4 DEF WillExecute

\* The last steps of a command: it keeps its claim until it executes.
LEMMA ClaimMoves ==
  ASSUME TypeOK, OwnCalls, Claimed, NEW o \in Owners,
         HashForExecution(o) \/ CountApprovals(o)
  PROVE  Claimed'
<1> SUFFICES ASSUME via' = "safe", ~cut', NEW call \in {Hotfix, Withdraw}, Due(call)'
             PROVE  \E p \in Owners : WillExecute(p, call)'
  BY DEF Claimed
<1>1. run \in [Owners -> [pc: Places, index: 0 .. Len(dequeued),
                         at: 0 .. Len(txs), hash: Hashes \cup {None}]]
  BY DEF TypeOK
<1>2. UNCHANGED <<via, goal, contracts, credits, cut>>
  BY DEF HashForExecution, CountApprovals
<1>3. Due(call)
  BY <1>2, DueBefore DEF contracts, governance
<1>4. PICK p \in Owners : WillExecute(p, call)
  BY <1>2, <1>3 DEF Claimed
<1>5. CASE HashForExecution(o)
  <2> DEFINE hash == [call |-> goal[o], nonce |-> nonce]
  <2>1. To(o, "owners", run[o].index, run[o].at, hash)
    BY <1>5 DEF HashForExecution
  <2> HIDE DEF hash
  <2>2. /\ run'[o] = [pc |-> "owners", index |-> run[o].index,
                     at |-> run[o].at, hash |-> hash]
        /\ \A q \in Owners : q # o => run'[q] = run[q]
    BY <1>1, <2>1, ToFacts
  <2>3. run'[o].pc = "owners" /\ run'[o].hash = hash
    BY <2>2
  <2>4. WillExecute(p, call)'
    <3>1. CASE p = o
      BY <1>2, <1>4, <2>3, <3>1 DEF WillExecute, hash, contracts
    <3>2. CASE p # o
      BY <1>2, <1>4, <2>2, <3>2 DEF WillExecute, contracts
    <3> QED BY <3>1, <3>2
  <2> QED BY <2>4
<1>6. CASE CountApprovals(o)
  <2>1. CASE p # o
    <3>1. run'[p] = run[p]
      BY <1>1, <1>6, <2>1, EndIsTo, ToFacts DEF CountApprovals, Go
    <3> QED BY <1>2, <1>4, <3>1 DEF WillExecute, contracts
  <2>2. CASE p = o
    <3>1. run[o].hash = [call |-> call, nonce |-> nonce]
      BY <1>4, <1>6, <2>2 DEF WillExecute, CountApprovals
    <3>2. ThresholdMet(run[o].hash)
      BY <1>3, <3>1 DEF Due
    <3>3. To(o, "execute", run[o].index, run[o].at, run[o].hash)
      BY <1>6, <3>2 DEF CountApprovals, Go
    <3>4. run'[o] = [pc |-> "execute", index |-> run[o].index,
                     at |-> run[o].at, hash |-> run[o].hash]
      BY <1>1, <3>3, ToFacts
    <3>5. run'[o].pc = "execute" /\ run'[o].hash = run[o].hash
      BY <3>4
    <3> QED BY <1>2, <1>4, <2>2, <3>1, <3>5 DEF WillExecute, contracts
  <2> QED BY <2>1, <2>2
<1> QED BY <1>5, <1>6

\* Who approves last has the claim.
LEMMA ClaimMade ==
  ASSUME TypeOK, OwnCalls, Claimed, NEW o \in Owners, ApproveTransactionHash(o)
  PROVE  Claimed'
<1> SUFFICES ASSUME via' = "safe", ~cut', NEW call \in {Hotfix, Withdraw}, Due(call)'
             PROVE  \E p \in Owners : WillExecute(p, call)'
  BY DEF Claimed
<1> DEFINE now == [call |-> call, nonce |-> nonce]
<1>1. run \in [Owners -> [pc: Places, index: 0 .. Len(dequeued),
                         at: 0 .. Len(txs), hash: Hashes \cup {None}]]
  BY DEF TypeOK
<1>2. /\ UNCHANGED <<via, goal, governance, credits, nonce, cut>>
      /\ signed' = signed \cup {<<o, run[o].hash>>} /\ run[o].pc = "approve"
      /\ To(o, "rehash", run[o].index, run[o].at, run[o].hash)
  BY DEF ApproveTransactionHash, Go
<1>3. /\ run'[o] = [pc |-> "rehash", index |-> run[o].index,
                   at |-> run[o].at, hash |-> run[o].hash]
      /\ \A q \in Owners : q # o => run'[q] = run[q]
  BY <1>1, <1>2, ToFacts
<1>4. run'[o].pc = "rehash"
  BY <1>3
<1>5. CASE goal[o] = call
  BY <1>2, <1>4, <1>5 DEF WillExecute
<1>6. CASE goal[o] # call
  <2>1. run[o].hash # now
    <3>1. run[o].hash.call = goal[o] /\ now.call = call
      BY <1>2 DEF OwnCalls
    <3> HIDE DEF now
    <3> QED BY <1>6, <3>1
  <2> HIDE DEF now
  <2>2. OwnersWhoApproved(now)' = OwnersWhoApproved(now)
    BY <1>2, <2>1 DEF OwnersWhoApproved, now
  <2>3. Due(call)
    BY <1>2, <2>2 DEF Due, Worth, Entries, ThresholdMet, governance, now
  <2>4. PICK p \in Owners : WillExecute(p, call)
    BY <1>2, <2>3 DEF Claimed
  <2>5. p # o
    BY <1>2, <2>4 DEF WillExecute
  <2> QED BY <1>2, <1>3, <2>4, <2>5 DEF WillExecute
<1> QED BY <1>5, <1>6

\* Once the nonce has grown, no call has its approvals.
LEMMA NothingDue ==
  ASSUME TypeOK, OwnCalls, nonce' = nonce + 1, UNCHANGED signed, NEW call
  PROVE  ~Due(call)'
<1>1. nonce' \in Nat /\ nonce < nonce'
  BY DEF TypeOK
<1>2. PICK n \in Nat : n = nonce' /\ nonce < n
  BY <1>1
<1>3. ~ThresholdMet([call |-> call, nonce |-> n])
  BY <1>2, NothingForLater
<1>4. ~ThresholdMet([call |-> call, nonce |-> nonce])'
  BY <1>2, <1>3 DEF ThresholdMet, OwnersWhoApproved
<1> QED BY <1>4 DEF Due

\* What is due, and is executed with the current nonce, succeeds.
LEMMA ClaimExecuted ==
  ASSUME TypeOK, OwnCalls, Claimed, NEW o \in Owners, ExecuteTransaction(o)
  PROVE  Claimed'
<1> SUFFICES ASSUME via' = "safe", ~cut', NEW call \in {Hotfix, Withdraw}, Due(call)'
             PROVE  \E p \in Owners : WillExecute(p, call)'
  BY DEF Claimed
<1>1. run \in [Owners -> [pc: Places, index: 0 .. Len(dequeued),
                         at: 0 .. Len(txs), hash: Hashes \cup {None}]]
  BY DEF TypeOK
<1>2. /\ UNCHANGED <<via, goal, credits, signed, cut>> /\ run[o].pc = "execute"
      /\ End(o)
      /\ IF run[o].hash.nonce = nonce /\ Performable(run[o].hash.call, 0)
           THEN nonce' = nonce + 1
           ELSE UNCHANGED <<nonce, approved, refunds>>
  BY DEF ExecuteTransaction
<1>3. \A q \in Owners : q # o => run'[q] = run[q]
  BY <1>1, <1>2, EndIsTo, ToFacts
<1>4. nonce' # nonce + 1
  BY <1>2, NothingDue
<1>5. UNCHANGED <<nonce, approved, refunds>>
  BY <1>2, <1>4
<1>6. Due(call)
  BY <1>2, <1>5, DueBefore
<1>7. PICK p \in Owners : WillExecute(p, call)
  BY <1>2, <1>6 DEF Claimed
<1>8. p # o
  <2> SUFFICES ASSUME p = o
               PROVE  FALSE
    OBVIOUS
  <2>1. run[o].hash = [call |-> call, nonce |-> nonce]
    BY <1>2, <1>7 DEF WillExecute
  <2>2. run[o].hash.nonce = nonce /\ run[o].hash.call = call
    BY <2>1
  <2>3. Performable(call, 0)
    BY <1>6, CallsAssumption DEF Due, Worth, Performable
  <2> QED BY <1>2, <1>4, <2>2, <2>3
<1> QED BY <1>2, <1>3, <1>5, <1>7, <1>8 DEF WillExecute

\* A refund is due only to commands that were there before it.
LEMMA ClaimRefunded ==
  ASSUME TypeOK, BeforeRefund, Claimed, Refund
  PROVE  Claimed'
<1> SUFFICES ASSUME via' = "safe", ~cut', NEW call \in {Hotfix, Withdraw}, Due(call)'
             PROVE  \E p \in Owners : WillExecute(p, call)'
  BY DEF Claimed
<1>1. /\ UNCHANGED <<via, goal, approved, nonce, signed, run, cut>>
      /\ credits' = credits + 1 /\ refunds' = refunds + 1
      /\ credits \in Nat /\ refunds \in Nat
  BY DEF Refund, TypeOK
<1>2. ThresholdMet([call |-> call, nonce |-> nonce])
  BY <1>1 DEF Due, ThresholdMet, OwnersWhoApproved
<1>3. Due(call)
  <2>1. CASE call = Hotfix
    BY <1>1, <1>2, <2>1, CallsAssumption DEF Due, Worth
  <2>2. CASE call = Withdraw
    <3>1. refunds = credits
      BY <1>1, <2>2 DEF Due
    <3>2. credits # 0
      <4> SUFFICES ASSUME credits = 0
                   PROVE  FALSE
        OBVIOUS
      <4> DEFINE now == [call |-> call, nonce |-> nonce]
      <4>1. now.call = Withdraw
        BY <2>2
      <4> HIDE DEF now
      <4>2. ASSUME NEW p \in OwnersWhoApproved(now)
            PROVE  FALSE
        <5>1. <<p, now>> \in signed
          BY <4>2 DEF OwnersWhoApproved
        <5> QED BY <4>1, <5>1 DEF BeforeRefund
      <4>3. OwnersWhoApproved(now) = {}
        BY <4>2
      <4> QED BY <1>2, <4>3, NobodyIsNotEnough DEF ThresholdMet, now
    <3> QED BY <1>1, <1>2, <2>2, <3>1, <3>2 DEF Due, Worth
  <2> QED BY <2>1, <2>2
<1>4. PICK p \in Owners : WillExecute(p, call)
  BY <1>1, <1>3 DEF Claimed
<1> QED BY <1>1, <1>4 DEF WillExecute

\* A step of everyone else that leaves what is due, or makes it less.
LEMMA ClaimStays ==
  ASSUME TypeOK, Claimed,
         UNCHANGED <<via, goal, approved, refunds, credits, nonce, signed, run,
                     cut>>
  PROVE  Claimed'
<1> SUFFICES ASSUME via = "safe", ~cut, NEW call \in {Hotfix, Withdraw}, Due(call)'
             PROVE  \E p \in Owners : WillExecute(p, call)'
  BY DEF Claimed
<1>1. PICK p \in Owners : WillExecute(p, call)
  BY DueBefore DEF Claimed
<1> QED BY <1>1 DEF WillExecute

LEMMA ClaimedNext ==
  ASSUME TypeOK, OwnCalls, BeforeRefund, Claimed, [Next]_vars
  PROVE  Claimed'
<1>1. CASE Free \/ OtherDequeue \/ UNCHANGED vars
  BY <1>1, ClaimStays DEF Free, OtherDequeue, vars, contracts, governance
<1>2. CASE Refund
  BY <1>2, ClaimRefunded
<1>3. CASE OtherSafeTx
  BY <1>3, NothingDue DEF OtherSafeTx, Claimed
<1>4. ASSUME NEW o \in Owners, Start(o) \/ Command(o) \/ Cut(o)
      PROVE  Claimed'
  <2>1. CASE HashForExecution(o) \/ CountApprovals(o)
    BY <2>1, ClaimMoves
  <2>2. CASE ApproveTransactionHash(o)
    BY <2>2, ClaimMade
  <2>3. CASE ExecuteTransaction(o)
    BY <2>3, ClaimExecuted
  <2>4. CASE Cut(o)
    BY <2>4 DEF Cut, Claimed
  <2>5. CASE ConfirmTransaction(o) \/ SubmitTransaction(o)
    <3>1. MayPerform(goal[o])
      BY <2>5, ConfirmStep, SubmitStep
    <3>2. approved \subseteq approved' /\ refunds' \in {0, refunds}
      BY <3>1, PerformTyped
    <3>3. /\ UNCHANGED <<via, goal, credits, nonce, signed, cut>>
          /\ run[o].pc \notin {"rehash", "owners", "execute"}
          /\ To(o, "idle", 0, 0, None)
      BY <2>5, EndIsTo DEF ConfirmTransaction, SubmitTransaction
    <3> QED BY <3>2, <3>3, ClaimKept
  <2>6. CASE \/ Start(o) \/ SendDequeue(o) \/ RunChecks(o) \/ GetDequeueIndex(o)
             \/ CountTransactions(o) \/ ScanTransaction(o) \/ HashForApproval(o)
    <3>1. /\ UNCHANGED <<via, goal, approved, refunds, credits, nonce, signed, cut>>
          /\ run[o].pc \notin {"rehash", "owners", "execute"}
      BY <2>6 DEF Start, SendDequeue, RunChecks, GetDequeueIndex,
           CountTransactions, ScanTransaction, HashForApproval, contracts, governance
    <3>2. PICK place, index, at, hash : To(o, place, index, at, hash)
      BY <2>6, EndIsTo DEF Start, SendDequeue, RunChecks, GetDequeueIndex,
           CountTransactions, ScanTransaction, HashForApproval, Go
    <3> QED BY <3>1, <3>2, ClaimKept
  <2> QED BY <1>4, <2>1, <2>2, <2>3, <2>4, <2>5, <2>6 DEF Command
<1> QED BY <1>1, <1>2, <1>3, <1>4 DEF Next

LEMMA LastNext ==
  ASSUME TypeOK, OwnCalls, LastApproverExecutes, [Next]_vars
  PROVE  LastApproverExecutes'
BY LastParts, LastPartsNext, GoalsStay, BeforeRefundNext, ClaimedNext

-----------------------------------------------------------------------------
(* The invariants.                                                         *)

LEMMA InitIInv ==
  ASSUME Init
  PROVE  IInv
<1>1. TypeOK
  <2>1. run \in [Owners -> [pc: Places, index: 0 .. Len(dequeued),
                           at: 0 .. Len(txs), hash: Hashes \cup {None}]]
    BY DEF Init, Idle, Places
  <2>2. dequeued \in Seq(Proposals \cup {None}) /\ txs \in Seq(Transactions)
    BY DEF Init
  <2>3. credits \in 0 .. MaxRefunds /\ refunds \in 0 .. credits
    BY BoundsAssumption DEF Init
  <2>4. /\ via \in {"multisig", "safe"} /\ goal \in Goals
        /\ waiting \subseteq Proposals /\ approved \subseteq Proposals \cup {Hotfix}
        /\ nonce \in Nat /\ signed \subseteq Owners \X Hashes
        /\ raced \subseteq Calls /\ cut \in BOOLEAN
    BY DEF Init
  <2> QED BY <2>1, <2>2, <2>3, <2>4 DEF TypeOK
<1>2. /\ \A o \in Owners : run[o].pc = "idle" /\ run[o].index = 0
      /\ txs = <<>> /\ dequeued = <<>> /\ signed = {} /\ approved = {}
      /\ DOMAIN txs = {} /\ DOMAIN dequeued = {}
  BY DEF Init, Idle
<1>3. OwnCalls /\ QuorumAsked
  BY <1>2 DEF OwnCalls, QuorumAsked
<1>4. OneIndexPerCall
  BY <1>2 DEF OneIndexPerCall, Said, Entries
<1>5. ScanMissesNothing /\ OnePendingPerCall
  BY <1>2 DEF ScanMissesNothing, OnePendingPerCall
<1>6. LastApproverExecutes
  <2>1. \A call : OwnersWhoApproved([call |-> call, nonce |-> nonce]) = {}
    BY <1>2 DEF OwnersWhoApproved
  <2>2. \A call : ~Due(call)
    BY <2>1, NobodyIsNotEnough DEF Due, ThresholdMet
  <2> QED BY <1>2, <2>2 DEF Init, LastApproverExecutes
<1> QED BY <1>1, <1>3, <1>4, <1>5, <1>6 DEF IInv

LEMMA NextIInv ==
  ASSUME IInv, [Next]_vars
  PROVE  IInv'
<1>1. /\ TypeOK /\ OwnCalls /\ QuorumAsked /\ OneIndexPerCall
      /\ ScanMissesNothing /\ OnePendingPerCall /\ LastApproverExecutes
  BY DEF IInv
<1>2. TypeOK'
  BY <1>1, TypeNext
<1>3. OwnCalls'
  BY <1>1, <1>2, OwnCallsNext
<1>4. QuorumAsked'
  BY <1>1, QuorumNext
<1>5. OneIndexPerCall'
  BY <1>1, OneIndexNext
<1>6. ScanMissesNothing' /\ OnePendingPerCall'
  BY <1>1, OnePendingNext
<1>7. LastApproverExecutes'
  BY <1>1, LastNext
<1> QED BY <1>2, <1>3, <1>4, <1>5, <1>6, <1>7 DEF IInv

LEMMA AlwaysIInv == Spec => []IInv
<1>1. Init => IInv
  BY InitIInv
<1>2. IInv /\ [Next]_vars => IInv'
  BY NextIInv
<1> QED BY <1>1, <1>2, PTL DEF Spec

(* The queue, the transactions, the approvals and the commands have their  *)
(* types in every state.                                                   *)
THEOREM TypeCorrect == Spec => []TypeOK
<1>1. IInv => TypeOK
  BY DEF IInv
<1> QED BY <1>1, AlwaysIInv, PTL

(* Governance never approves a proposal or a hotfix unless as many owners  *)
(* as are required ran the command for it: submitOrConfirmTransaction and  *)
(* performSafeTransaction lend no confirmation to another call.            *)
THEOREM ApprovedWasAsked == Spec => []QuorumAsked
<1>1. IInv => QuorumAsked
  BY DEF IInv
<1> QED BY <1>1, AlwaysIInv, PTL

(* The scan of submitOrConfirmTransaction finds the pending transaction of *)
(* its call: a second one is submitted only when two scans overlapped.     *)
THEOREM ScanFindsPending == Spec => []OnePendingPerCall
<1>1. IInv => OnePendingPerCall
  BY DEF IInv
<1> QED BY <1>1, AlwaysIInv, PTL

(* With all commands on a Safe over, and none cut off, no call that is     *)
(* still worth doing is left with all its approvals.                       *)
THEOREM LastApprovalExecutes == Spec => []SafeSettled
<1>1. ASSUME IInv, via = "safe", ~cut, \A o \in Owners : run[o].pc = "idle",
             NEW call \in Calls, Worth(call), call = Withdraw => refunds = credits
      PROVE  Cardinality(OwnersWhoApproved([call |-> call, nonce |-> nonce]))
               < Required
  <2> DEFINE now == [call |-> call, nonce |-> nonce]
  <2>1. ~ThresholdMet(now)
    <3>1. CASE call \in {Hotfix, Withdraw}
      BY <1>1, <3>1 DEF IInv, LastApproverExecutes, Due, WillExecute
    <3>2. CASE call \in Proposals
      <4>1. now.call = call
        OBVIOUS
      <4> HIDE DEF now
      <4>2. ASSUME NEW p \in OwnersWhoApproved(now)
            PROVE  FALSE
        <5>1. <<p, now>> \in signed /\ p \in Owners
          BY <4>2 DEF OwnersWhoApproved
        <5>2. goal[p] = call
          BY <1>1, <4>1, <5>1 DEF IInv, OwnCalls
        <5> QED BY <1>1, <3>2, <5>1, <5>2 DEF IInv, LastApproverExecutes
      <4>3. OwnersWhoApproved(now) = {}
        BY <4>2
      <4> QED BY <4>3, NobodyIsNotEnough DEF ThresholdMet
    <3> QED BY <3>1, <3>2 DEF Calls
  <2>2. Cardinality(OwnersWhoApproved(now)) \in Nat /\ Required \in Nat
    <3>1. OwnersWhoApproved(now) \subseteq Owners
      BY DEF OwnersWhoApproved
    <3> QED BY <3>1, OwnersAssumption, RequiredAssumption, FS_Subset,
               FS_CardinalityType
  <2> QED BY <2>1, <2>2 DEF ThresholdMet
<1>2. IInv => SafeSettled
  BY <1>1 DEF SafeSettled
<1> QED BY <1>2, AlwaysIInv, PTL

-----------------------------------------------------------------------------
(* The contract caches.                                                    *)

CacheLabels == {"idle", "fetching", "addressed", "wrapping", "rereading", "done", "failed"}

\* Where a wrapper of a contract may come from, so far.
Good(name) == passed[name] \cup {Core(name)}
Maybe(name) == Good(name) \cup {Undefined}

Typing ==
  /\ pc \in [Callers -> CacheLabels]
  /\ asked \in [Callers -> Asks \cup {NoCall}]
  /\ got = [c \in Callers |-> got[c]]
  /\ passed \in [Contracts -> SUBSET Addresses]
  /\ addresses = [name \in Contracts |-> addresses[name]]
  /\ instances = [name \in Contracts |-> instances[name]]
  /\ wrappers = [kind \in Kinds |-> [name \in Contracts |-> wrappers[kind][name]]]

\* The caches hold what the Registry or a caller gave for the contract.
CachesGood ==
  \A name \in Contracts :
    /\ addresses[name] \in {Undefined, Core(name)}
    /\ instances[name] \in Maybe(name)
    /\ \A kind \in Kinds : wrappers[kind][name] \in Maybe(name)

(* What a call has found is for the contract it asked for, and once a call   *)
(* of the full kit is past the caches it carries the address that was        *)
(* passed, which no other call can touch.                                    *)
CallGood(c) ==
  /\ pc[c] # "idle" => asked[c] \in Asks
  /\ pc[c] \in {"fetching", "addressed"} => asked[c].address = Undefined
  /\ pc[c] \in {"addressed", "wrapping"} => got[c] \in Good(asked[c].name)
  /\ pc[c] = "wrapping" => asked[c].kind = "full"
  /\ pc[c] = "rereading" => asked[c].kind = "mini"
  /\ pc[c] \in {"wrapping", "done"} /\ asked[c].kind = "full" /\ asked[c].address # Undefined
       => got[c] = asked[c].address
  /\ pc[c] = "done" => got[c] \in Good(asked[c].name)
                                  \cup {x \in {Undefined} : asked[c].kind = "mini"}

CacheIInv == Typing /\ CachesGood /\ \A c \in Callers : CallGood(c)

-----------------------------------------------------------------------------
(* Every cache is empty and nobody has called.                               *)
LEMMA InitCacheIInv == CacheInit => CacheIInv
<1> SUFFICES ASSUME CacheInit PROVE CacheIInv
  OBVIOUS
<1>1. Typing
  BY DEF CacheInit, Typing, CacheLabels
<1>2. CachesGood
  BY DEF CacheInit, CachesGood, Good, Maybe
<1>3. \A c \in Callers : CallGood(c)
  BY DEF CacheInit, CallGood
<1> QED
  BY <1>1, <1>2, <1>3 DEF CacheIInv

(* A call that stands still stays good while addresses are only added.       *)
LEMMA CallStays ==
  ASSUME Typing, NEW c \in Callers, CallGood(c),
         pc'[c] = pc[c], asked'[c] = asked[c], got'[c] = got[c],
         \A name \in Contracts : passed[name] \subseteq passed'[name]
  PROVE  CallGood(c)'
<1>1. pc[c] # "idle" => asked[c].name \in Contracts
  BY DEF CallGood, Asks
<1>2. pc[c] # "idle" => Good(asked[c].name) \subseteq Good(asked[c].name)'
  BY <1>1 DEF Good
<1> QED
  BY <1>2 DEF CallGood

(* What is kept in the caches is good when it was good for its contract.     *)
LEMMA MaybeGrows ==
  ASSUME \A name \in Contracts : passed[name] \subseteq passed'[name],
         NEW name \in Contracts
  PROVE  Good(name) \subseteq Good(name)' /\ Maybe(name) \subseteq Maybe(name)'
  BY DEF Good, Maybe

(* Each step of a call moves one caller; the others stay as they are.        *)
LEMMA OtherCallsStay ==
  ASSUME CacheIInv, NEW c \in Callers, NEW l \in CacheLabels, NEW g,
         NEW r \in Asks \cup {NoCall},
         pc' = [pc EXCEPT ![c] = l], asked' = [asked EXCEPT ![c] = r],
         got' = [got EXCEPT ![c] = g],
         \A name \in Contracts : passed[name] \subseteq passed'[name]
  PROVE  /\ pc' \in [Callers -> CacheLabels] /\ pc'[c] = l
         /\ asked' \in [Callers -> Asks \cup {NoCall}] /\ asked'[c] = r
         /\ got' = [d \in Callers |-> got'[d]] /\ got'[c] = g
         /\ \A d \in Callers : d # c => CallGood(d)'
<1>1. pc' \in [Callers -> CacheLabels] /\ pc'[c] = l
  BY DEF CacheIInv, Typing
<1>2. asked' \in [Callers -> Asks \cup {NoCall}] /\ asked'[c] = r
  BY DEF CacheIInv, Typing
<1>3. got' = [d \in Callers |-> got'[d]] /\ got'[c] = g
  BY DEF CacheIInv, Typing
<1>4. ASSUME NEW d \in Callers, d # c PROVE CallGood(d)'
  <2>1. pc'[d] = pc[d] /\ asked'[d] = asked[d]
    BY <1>4 DEF CacheIInv, Typing
  <2>2. got'[d] = got[d]
    BY <1>4 DEF CacheIInv, Typing
  <2> QED
    BY <2>1, <2>2, CallStays DEF CacheIInv
<1> QED
  BY <1>1, <1>2, <1>3, <1>4

(* A cache after one entry was set to what is good for its contract.         *)
LEMMA InstanceHeld ==
  ASSUME Typing, CachesGood, NEW name \in Contracts, NEW x \in Maybe(name)',
         instances' = [instances EXCEPT ![name] = x],
         \A n \in Contracts : passed[n] \subseteq passed'[n]
  PROVE  /\ instances' = [n \in Contracts |-> instances'[n]]
         /\ \A n \in Contracts : instances'[n] \in Maybe(n)'
<1>1. instances' = [n \in Contracts |-> instances'[n]]
  BY DEF Typing
<1>2. ASSUME NEW n \in Contracts PROVE instances'[n] \in Maybe(n)'
  <2>1. instances[n] \in Maybe(n)'
    BY MaybeGrows DEF CachesGood
  <2> QED
    BY <2>1 DEF Typing
<1> QED
  BY <1>1, <1>2

LEMMA WrapperHeld ==
  ASSUME Typing, CachesGood, NEW name \in Contracts, NEW kind \in Kinds,
         NEW x \in Maybe(name)',
         wrappers' = [wrappers EXCEPT ![kind][name] = x],
         \A n \in Contracts : passed[n] \subseteq passed'[n]
  PROVE  /\ wrappers' = [k \in Kinds |-> [n \in Contracts |-> wrappers'[k][n]]]
         /\ \A n \in Contracts, k \in Kinds : wrappers'[k][n] \in Maybe(n)'
<1>1. wrappers' = [k \in Kinds |-> [n \in Contracts |-> wrappers'[k][n]]]
  BY DEF Typing
<1>2. ASSUME NEW n \in Contracts, NEW k \in Kinds PROVE wrappers'[k][n] \in Maybe(n)'
  <2>1. wrappers[k][n] \in Maybe(n)'
    BY MaybeGrows DEF CachesGood
  <2> QED
    BY <2>1 DEF Typing
<1> QED
  BY <1>1, <1>2

(* What nobody touches stays good.                                           *)
LEMMA CachesStay ==
  ASSUME CachesGood, \A n \in Contracts : passed[n] \subseteq passed'[n],
         NEW n \in Contracts
  PROVE  /\ addresses[n] \in {Undefined, Core(n)}
         /\ instances[n] \in Maybe(n)'
         /\ \A k \in Kinds : wrappers[k][n] \in Maybe(n)'
  BY MaybeGrows DEF CachesGood

(* Hold keeps a good address, and the call goes on with it.                  *)
LEMMA HoldKeeps ==
  ASSUME CacheIInv, NEW c \in Callers, NEW ask \in Asks, NEW address \in Good(ask.name)',
         Hold(c, ask, address), addresses' = addresses,
         \A n \in Contracts : passed[n] \subseteq passed'[n]
  PROVE  /\ CachesGood'
         /\ instances' = [n \in Contracts |-> instances'[n]]
         /\ wrappers' = [k \in Kinds |-> [n \in Contracts |-> wrappers'[k][n]]]
         /\ ask.kind = "full" => /\ pc' = [pc EXCEPT ![c] = "wrapping"]
                                 /\ got' = [got EXCEPT ![c] = address]
         /\ ask.kind # "full" => /\ pc' = [pc EXCEPT ![c] = "rereading"]
                                 /\ got' = [got EXCEPT ![c] = got[c]]
<1>1. ask.name \in Contracts /\ ask.kind \in {"full", "mini"}
  BY DEF Asks, Kinds
<1>2. address \in Maybe(ask.name)'
  BY DEF Maybe
<1>3. \A n \in Contracts :
        /\ addresses[n] \in {Undefined, Core(n)} /\ instances[n] \in Maybe(n)'
        /\ \A k \in Kinds : wrappers[k][n] \in Maybe(n)'
  BY CachesStay DEF CacheIInv
<1>4. CASE ask.kind = "full"
  <2>1. instances' = [instances EXCEPT ![ask.name] = address] /\ wrappers' = wrappers
    BY <1>4 DEF Hold
  <2>2. /\ instances' = [n \in Contracts |-> instances'[n]]
        /\ \A n \in Contracts : instances'[n] \in Maybe(n)'
    BY <1>1, <1>2, <2>1, InstanceHeld DEF CacheIInv
  <2>3. CachesGood'
    BY <1>3, <2>1, <2>2 DEF CachesGood
  <2>4. pc' = [pc EXCEPT ![c] = "wrapping"] /\ got' = [got EXCEPT ![c] = address]
    BY <1>4 DEF Hold, Found, Goto
  <2> QED
    BY <1>4, <2>1, <2>2, <2>3, <2>4 DEF CacheIInv, Typing
<1>5. CASE ask.kind = "mini"
  <2>1. wrappers' = [wrappers EXCEPT !["mini"][ask.name] = address]
        /\ instances' = instances /\ got' = got
    BY <1>5 DEF Hold
  <2>2. /\ wrappers' = [k \in Kinds |-> [n \in Contracts |-> wrappers'[k][n]]]
        /\ \A n \in Contracts, k \in Kinds : wrappers'[k][n] \in Maybe(n)'
    BY <1>1, <1>2, <2>1, WrapperHeld DEF CacheIInv, Kinds
  <2>3. CachesGood'
    BY <1>3, <2>1, <2>2 DEF CachesGood
  <2>4. pc' = [pc EXCEPT ![c] = "rereading"]
    BY <1>5 DEF Hold, Goto
  <2>5. got' = [got EXCEPT ![c] = got[c]]
    BY <2>1 DEF CacheIInv, Typing
  <2> QED
    BY <1>5, <2>1, <2>2, <2>3, <2>4, <2>5 DEF CacheIInv, Typing
<1> QED
  BY <1>1, <1>4, <1>5

(* All that an action has to show when one caller moves.                     *)
LEMMA Moved ==
  ASSUME CacheIInv, NEW c \in Callers, NEW l \in CacheLabels, NEW g,
         NEW r \in Asks \cup {NoCall},
         pc' = [pc EXCEPT ![c] = l], asked' = [asked EXCEPT ![c] = r],
         got' = [got EXCEPT ![c] = g],
         passed' \in [Contracts -> SUBSET Addresses],
         \A n \in Contracts : passed[n] \subseteq passed'[n],
         addresses' = [n \in Contracts |-> addresses'[n]],
         instances' = [n \in Contracts |-> instances'[n]],
         wrappers' = [k \in Kinds |-> [n \in Contracts |-> wrappers'[k][n]]],
         CachesGood',
         pc'[c] = l /\ asked'[c] = r /\ got'[c] = g => CallGood(c)'
  PROVE  CacheIInv'
<1>1. /\ pc' \in [Callers -> CacheLabels] /\ pc'[c] = l
      /\ asked' \in [Callers -> Asks \cup {NoCall}] /\ asked'[c] = r
      /\ got' = [d \in Callers |-> got'[d]] /\ got'[c] = g
      /\ \A d \in Callers : d # c => CallGood(d)'
  BY OtherCallsStay
<1>2. \A d \in Callers : CallGood(d)'
  BY <1>1
<1>3. Typing'
  BY <1>1 DEF Typing
<1> QED
  BY <1>2, <1>3 DEF CacheIInv

(* The caches when nobody writes to them.                                    *)
LEMMA Untouched ==
  ASSUME CacheIInv, UNCHANGED <<addresses, instances, wrappers>>,
         \A n \in Contracts : passed[n] \subseteq passed'[n]
  PROVE  /\ CachesGood'
         /\ addresses' = [n \in Contracts |-> addresses'[n]]
         /\ instances' = [n \in Contracts |-> instances'[n]]
         /\ wrappers' = [k \in Kinds |-> [n \in Contracts |-> wrappers'[k][n]]]
<1>1. CachesGood'
  BY CachesStay DEF CacheIInv, CachesGood
<1> QED
  BY <1>1 DEF CacheIInv, Typing

-----------------------------------------------------------------------------
(* The actions, one by one.                                                  *)
LEMMA GetContractKeeps ==
  ASSUME CacheIInv, NEW c \in Callers, NEW ask \in Asks, GetContract(c, ask)
  PROVE  CacheIInv'
<1> DEFINE name == ask.name
<1>1. name \in Contracts /\ ask.kind \in Kinds /\ ask.address \in Addresses \cup {Undefined}
  BY DEF Asks
<1>2. /\ passed' \in [Contracts -> SUBSET Addresses]
      /\ \A n \in Contracts : passed[n] \subseteq passed'[n]
      /\ ask.address # Undefined => ask.address \in passed'[name]
  BY <1>1 DEF GetContract, CacheIInv, Typing
<1>3. asked' = [asked EXCEPT ![c] = ask] /\ addresses' = addresses
  BY DEF GetContract
<1>4. CASE Known(ask) /\ Return(c, wrappers[ask.kind][name])
           /\ UNCHANGED <<instances, wrappers>>
  <2>1. /\ pc' = [pc EXCEPT ![c] = "done"]
        /\ got' = [got EXCEPT ![c] = wrappers[ask.kind][name]]
    BY <1>4 DEF Return, Found, Goto
  <2>2. wrappers[ask.kind][name] \in Good(name)' /\ ask.address = Undefined
    BY <1>1, <1>2, <1>4, CachesStay DEF Known, CacheIInv, Maybe
  <2>3. pc'[c] = "done" /\ asked'[c] = ask /\ got'[c] = wrappers[ask.kind][name]
          => CallGood(c)'
    BY <2>2 DEF CallGood
  <2> QED
    BY <1>2, <1>3, <1>4, <2>1, <2>3, Untouched, Moved DEF CacheLabels
<1>5. CASE KnownInstance(ask) /\ Found(c, instances[name]) /\ Goto(c, "wrapping")
           /\ UNCHANGED <<instances, wrappers>>
  <2>1. pc' = [pc EXCEPT ![c] = "wrapping"] /\ got' = [got EXCEPT ![c] = instances[name]]
    BY <1>5 DEF Found, Goto
  <2>2. instances[name] \in Good(name)' /\ ask.address = Undefined /\ ask.kind = "full"
    BY <1>1, <1>2, <1>5, CachesStay DEF KnownInstance, CacheIInv, Maybe
  <2>3. pc'[c] = "wrapping" /\ asked'[c] = ask /\ got'[c] = instances[name]
          => CallGood(c)'
    BY <2>2 DEF CallGood
  <2> QED
    BY <1>2, <1>3, <1>5, <2>1, <2>3, Untouched, Moved DEF CacheLabels
<1>6. CASE ask.address # Undefined /\ Hold(c, ask, ask.address)
  <2>1. ask.address \in Good(name)'
    BY <1>2, <1>6 DEF Good
  <2>2. /\ CachesGood'
        /\ addresses' = [n \in Contracts |-> addresses'[n]]
        /\ instances' = [n \in Contracts |-> instances'[n]]
        /\ wrappers' = [k \in Kinds |-> [n \in Contracts |-> wrappers'[k][n]]]
        /\ ask.kind = "full" => /\ pc' = [pc EXCEPT ![c] = "wrapping"]
                                /\ got' = [got EXCEPT ![c] = ask.address]
        /\ ask.kind # "full" => /\ pc' = [pc EXCEPT ![c] = "rereading"]
                                /\ got' = [got EXCEPT ![c] = got[c]]
    <3>1. addresses' = [n \in Contracts |-> addresses'[n]]
      BY <1>3 DEF CacheIInv, Typing
    <3> QED
      BY <1>2, <1>3, <1>6, <2>1, <3>1, HoldKeeps
  <2>3. CASE ask.kind = "full"
    <3>1. pc'[c] = "wrapping" /\ asked'[c] = ask /\ got'[c] = ask.address => CallGood(c)'
      BY <2>1, <2>3 DEF CallGood
    <3> QED
      BY <1>2, <1>3, <2>2, <2>3, <3>1, Moved DEF CacheLabels
  <2>4. CASE ask.kind = "mini"
    <3>1. pc'[c] = "rereading" /\ asked'[c] = ask /\ got'[c] = got[c] => CallGood(c)'
      BY <2>4 DEF CallGood
    <3> QED
      BY <1>2, <1>3, <2>2, <2>4, <3>1, Moved DEF CacheLabels
  <2> QED
    BY <1>1, <2>3, <2>4 DEF Kinds
<1>7. CASE ask.address = Undefined /\ LookUp(c, name) /\ UNCHANGED <<instances, wrappers>>
  <2>1. CASE addresses[name] # Undefined
    <3>1. pc' = [pc EXCEPT ![c] = "addressed"] /\ got' = [got EXCEPT ![c] = addresses[name]]
      BY <1>7, <2>1 DEF LookUp, Found, Goto
    <3>2. addresses[name] \in Good(name)'
      BY <1>1, <1>2, <2>1, CachesStay DEF CacheIInv, Good
    <3>3. pc'[c] = "addressed" /\ asked'[c] = ask /\ got'[c] = addresses[name]
            => CallGood(c)'
      BY <1>7, <3>2 DEF CallGood
    <3> QED
      BY <1>2, <1>3, <1>7, <3>1, <3>3, Untouched, Moved DEF CacheLabels
  <2>2. CASE addresses[name] = Undefined
    <3>1. pc' = [pc EXCEPT ![c] = "fetching"] /\ got' = got
      BY <1>7, <2>2 DEF LookUp, Goto
    <3>2. got' = [got EXCEPT ![c] = got[c]]
      BY <3>1 DEF CacheIInv, Typing
    <3>3. pc'[c] = "fetching" /\ asked'[c] = ask /\ got'[c] = got[c] => CallGood(c)'
      BY <1>7 DEF CallGood
    <3> QED
      BY <1>2, <1>3, <1>7, <3>1, <3>2, <3>3, Untouched, Moved DEF CacheLabels
  <2> QED
    BY <2>1, <2>2
<1> QED
  BY <1>4, <1>5, <1>6, <1>7 DEF GetContract

(* A later step of a call: what it asked for stays, and nobody passes an     *)
(* address.                                                                  *)
LEMMA Steady ==
  ASSUME CacheIInv, NEW c \in Callers, asked' = asked, passed' = passed
  PROVE  /\ asked' = [asked EXCEPT ![c] = asked[c]]
         /\ asked[c] \in Asks \cup {NoCall}
         /\ passed' \in [Contracts -> SUBSET Addresses]
         /\ \A n \in Contracts : passed[n] \subseteq passed'[n]
         /\ CallGood(c)
         /\ pc[c] # "idle" => asked[c] \in Asks /\ asked[c].name \in Contracts
         /\ asked[c] \in Asks => Good(asked[c].name)' = Good(asked[c].name)
<1>1. CallGood(c)
  BY DEF CacheIInv
<1>2. pc[c] # "idle" => asked[c] \in Asks /\ asked[c].name \in Contracts
  BY <1>1 DEF CallGood, Asks
<1>3. Good(asked[c].name)' = Good(asked[c].name)
  BY DEF Good
<1> QED
  BY <1>1, <1>2, <1>3 DEF CacheIInv, Typing

LEMMA FetchKeeps ==
  ASSUME CacheIInv, NEW c \in Callers, Fetch(c)
  PROVE  CacheIInv'
<1> DEFINE name == asked[c].name
<1>1. /\ pc[c] = "fetching" /\ asked' = asked /\ passed' = passed
      /\ UNCHANGED <<instances, wrappers>>
  BY DEF Fetch
<1>s. /\ asked' = [asked EXCEPT ![c] = asked[c]] /\ asked[c] \in Asks \cup {NoCall}
      /\ passed' \in [Contracts -> SUBSET Addresses]
      /\ \A n \in Contracts : passed[n] \subseteq passed'[n]
  BY <1>1, Steady
<1>2. name \in Contracts /\ asked[c] \in Asks /\ asked[c].address = Undefined
  BY <1>1, Steady DEF CallGood
<1>3. CASE /\ addresses' = [addresses EXCEPT ![name] = Core(name)]
           /\ Found(c, Core(name)) /\ Goto(c, "addressed")
  <2>1. pc' = [pc EXCEPT ![c] = "addressed"] /\ got' = [got EXCEPT ![c] = Core(name)]
    BY <1>3 DEF Found, Goto
  <2>2. addresses' = [n \in Contracts |-> addresses'[n]]
    BY <1>3 DEF CacheIInv, Typing
  <2>3. \A n \in Contracts : addresses'[n] \in {Undefined, Core(n)}
    BY <1>3, <1>2 DEF CacheIInv, Typing, CachesGood
  <2>4. CachesGood'
    BY <1>1, <2>3, CachesStay DEF CacheIInv, CachesGood
  <2>5. pc'[c] = "addressed" /\ asked'[c] = asked[c] /\ got'[c] = Core(name)
          => CallGood(c)'
    BY <1>1, <1>2 DEF CallGood, Good
  <2>6. /\ instances' = [n \in Contracts |-> instances'[n]]
        /\ wrappers' = [k \in Kinds |-> [n \in Contracts |-> wrappers'[k][n]]]
    BY <1>1 DEF CacheIInv, Typing
  <2> QED
    BY <1>1, <2>1, <2>2, <2>4, <2>5, <2>6, <1>s, Moved DEF CacheLabels
<1>4. CASE Goto(c, "failed") /\ UNCHANGED <<addresses, got>>
  <2>1. pc' = [pc EXCEPT ![c] = "failed"]
    BY <1>4 DEF Goto
  <2>2. got' = [got EXCEPT ![c] = got[c]]
    BY <1>4 DEF CacheIInv, Typing
  <2>3. pc'[c] = "failed" /\ asked'[c] = asked[c] /\ got'[c] = got[c] => CallGood(c)'
    BY <1>2 DEF CallGood
  <2>4. UNCHANGED <<addresses, instances, wrappers>>
    BY <1>1, <1>4
  <2> QED
    BY <1>1, <2>1, <2>2, <2>3, <2>4, <1>s, Untouched, Moved DEF CacheLabels
<1> QED
  BY <1>3, <1>4 DEF Fetch

LEMMA InstantiateKeeps ==
  ASSUME CacheIInv, NEW c \in Callers, Instantiate(c)
  PROVE  CacheIInv'
<1> DEFINE ask == asked[c]
<1>1. /\ pc[c] = "addressed" /\ asked' = asked /\ passed' = passed
      /\ addresses' = addresses /\ Hold(c, ask, got[c])
  BY DEF Instantiate
<1>s. /\ asked' = [asked EXCEPT ![c] = asked[c]] /\ asked[c] \in Asks \cup {NoCall}
      /\ passed' \in [Contracts -> SUBSET Addresses]
      /\ \A n \in Contracts : passed[n] \subseteq passed'[n]
  BY <1>1, Steady
<1>2. ask \in Asks /\ ask.address = Undefined /\ got[c] \in Good(ask.name)
  BY <1>1, Steady DEF CallGood
<1>3. got[c] \in Good(ask.name)'
  BY <1>1, <1>2, Steady
<1>4. /\ CachesGood'
      /\ instances' = [n \in Contracts |-> instances'[n]]
      /\ wrappers' = [k \in Kinds |-> [n \in Contracts |-> wrappers'[k][n]]]
      /\ ask.kind = "full" => /\ pc' = [pc EXCEPT ![c] = "wrapping"]
                              /\ got' = [got EXCEPT ![c] = got[c]]
      /\ ask.kind # "full" => /\ pc' = [pc EXCEPT ![c] = "rereading"]
                              /\ got' = [got EXCEPT ![c] = got[c]]
  BY <1>1, <1>2, <1>3, Steady, HoldKeeps
<1>5. addresses' = [n \in Contracts |-> addresses'[n]]
  BY <1>1 DEF CacheIInv, Typing
<1>6. CASE ask.kind = "full"
  <2>1. pc'[c] = "wrapping" /\ asked'[c] = ask /\ got'[c] = got[c] => CallGood(c)'
    BY <1>2, <1>3, <1>6 DEF CallGood
  <2>2. "wrapping" \in CacheLabels
    BY DEF CacheLabels
  <2>3. pc' = [pc EXCEPT ![c] = "wrapping"] /\ got' = [got EXCEPT ![c] = got[c]]
    BY <1>4, <1>6
  <2> QED
    BY <1>4, <1>5, <1>s, <2>1, <2>2, <2>3, Moved
<1>7. CASE ask.kind = "mini"
  <2>1. pc'[c] = "rereading" /\ asked'[c] = ask /\ got'[c] = got[c] => CallGood(c)'
    BY <1>2, <1>7 DEF CallGood
  <2>2. "rereading" \in CacheLabels
    BY DEF CacheLabels
  <2>3. pc' = [pc EXCEPT ![c] = "rereading"] /\ got' = [got EXCEPT ![c] = got[c]]
    BY <1>4, <1>7 DEF Kinds
  <2> QED
    BY <1>4, <1>5, <1>s, <2>1, <2>2, <2>3, Moved
<1> QED
  BY <1>2, <1>6, <1>7 DEF Asks, Kinds

LEMMA WrapKeeps ==
  ASSUME CacheIInv, NEW c \in Callers, Wrap(c)
  PROVE  CacheIInv'
<1> DEFINE ask == asked[c]
<1>1. /\ pc[c] = "wrapping" /\ asked' = asked /\ passed' = passed
      /\ UNCHANGED <<addresses, instances>>
      /\ wrappers' = [wrappers EXCEPT !["full"][ask.name] = got[c]]
      /\ pc' = [pc EXCEPT ![c] = "done"] /\ got' = [got EXCEPT ![c] = got[c]]
  BY DEF Wrap, Return, Found, Goto
<1>s. /\ asked' = [asked EXCEPT ![c] = asked[c]] /\ asked[c] \in Asks \cup {NoCall}
      /\ passed' \in [Contracts -> SUBSET Addresses]
      /\ \A n \in Contracts : passed[n] \subseteq passed'[n]
  BY <1>1, Steady
<1>2. /\ ask \in Asks /\ ask.name \in Contracts /\ ask.kind = "full"
      /\ got[c] \in Good(ask.name)
      /\ ask.address # Undefined => got[c] = ask.address
  BY <1>1, Steady DEF CallGood
<1>3. got[c] \in Good(ask.name)' /\ got[c] \in Maybe(ask.name)'
  BY <1>1, <1>2, Steady DEF Maybe
<1>4. /\ wrappers' = [k \in Kinds |-> [n \in Contracts |-> wrappers'[k][n]]]
      /\ \A n \in Contracts, k \in Kinds : wrappers'[k][n] \in Maybe(n)'
  BY <1>1, <1>2, <1>3, WrapperHeld DEF CacheIInv, Kinds
<1>5. CachesGood'
  BY <1>1, <1>4, CachesStay DEF CacheIInv, CachesGood
<1>6. pc'[c] = "done" /\ asked'[c] = ask /\ got'[c] = got[c] => CallGood(c)'
  BY <1>2, <1>3 DEF CallGood
<1>7. /\ addresses' = [n \in Contracts |-> addresses'[n]]
      /\ instances' = [n \in Contracts |-> instances'[n]]
  BY <1>1 DEF CacheIInv, Typing
<1> QED
  BY <1>1, <1>4, <1>5, <1>6, <1>7, <1>s, Moved DEF CacheLabels

LEMMA RereadKeeps ==
  ASSUME CacheIInv, NEW c \in Callers, Reread(c)
  PROVE  CacheIInv'
<1> DEFINE found == wrappers["mini"][asked[c].name]
<1>1. /\ pc[c] = "rereading" /\ asked' = asked /\ passed' = passed
      /\ UNCHANGED <<addresses, instances, wrappers>>
      /\ pc' = [pc EXCEPT ![c] = "done"] /\ got' = [got EXCEPT ![c] = found]
  BY DEF Reread, Return, Found, Goto, caches
<1>s. /\ asked' = [asked EXCEPT ![c] = asked[c]] /\ asked[c] \in Asks \cup {NoCall}
      /\ passed' \in [Contracts -> SUBSET Addresses]
      /\ \A n \in Contracts : passed[n] \subseteq passed'[n]
  BY <1>1, Steady
<1>2. asked[c] \in Asks /\ asked[c].name \in Contracts /\ asked[c].kind = "mini"
  BY <1>1, Steady DEF CallGood
<1>3. found \in Maybe(asked[c].name)'
  BY <1>1, <1>2, CachesStay DEF CacheIInv, Kinds
<1>4. pc'[c] = "done" /\ asked'[c] = asked[c] /\ got'[c] = found => CallGood(c)'
  BY <1>2, <1>3 DEF CallGood, Maybe
<1>5. "done" \in CacheLabels
  BY DEF CacheLabels
<1>6. /\ CachesGood'
      /\ addresses' = [n \in Contracts |-> addresses'[n]]
      /\ instances' = [n \in Contracts |-> instances'[n]]
      /\ wrappers' = [k \in Kinds |-> [n \in Contracts |-> wrappers'[k][n]]]
  BY <1>1, <1>s, Untouched
<1>7. pc' = [pc EXCEPT ![c] = "done"] /\ got' = [got EXCEPT ![c] = found]
  BY <1>1
<1> HIDE DEF found
<1> QED
  BY <1>4, <1>5, <1>6, <1>7, <1>s, Moved

LEMMA AgainKeeps ==
  ASSUME CacheIInv, NEW c \in Callers, Again(c)
  PROVE  CacheIInv'
<1>1. /\ asked' = asked /\ passed' = passed
      /\ UNCHANGED <<addresses, instances, wrappers>>
      /\ pc' = [pc EXCEPT ![c] = "idle"] /\ got' = [got EXCEPT ![c] = Undefined]
  BY DEF Again, Found, Goto, caches
<1>s. /\ asked' = [asked EXCEPT ![c] = asked[c]] /\ asked[c] \in Asks \cup {NoCall}
      /\ passed' \in [Contracts -> SUBSET Addresses]
      /\ \A n \in Contracts : passed[n] \subseteq passed'[n]
  BY <1>1, Steady
<1>2. pc'[c] = "idle" => CallGood(c)'
  BY DEF CallGood
<1> QED
  BY <1>1, <1>2, <1>s, Untouched, Moved DEF CacheLabels

LEMMA InvalidateKeeps ==
  ASSUME CacheIInv, NEW kind \in Kinds, NEW name \in Contracts, Invalidate(kind, name)
  PROVE  CacheIInv'
<1>1. UNCHANGED <<addresses, pc, asked, got, passed>>
  BY DEF Invalidate
<1>2. Undefined \in Maybe(name)'
  BY DEF Maybe
<1>3. /\ wrappers' = [k \in Kinds |-> [n \in Contracts |-> wrappers'[k][n]]]
      /\ \A n \in Contracts, k \in Kinds : wrappers'[k][n] \in Maybe(n)'
  BY <1>1, <1>2, WrapperHeld DEF CacheIInv, Invalidate
<1>4. /\ instances' = [n \in Contracts |-> instances'[n]]
      /\ \A n \in Contracts : instances'[n] \in Maybe(n)'
  <2>1. CASE instances' = [instances EXCEPT ![name] = Undefined]
    BY <1>1, <1>2, <2>1, InstanceHeld DEF CacheIInv
  <2>2. CASE instances' = instances
    BY <1>1, <2>2, CachesStay DEF CacheIInv, Typing
  <2> QED
    BY <2>1, <2>2 DEF Invalidate
<1>5. CachesGood'
  BY <1>1, <1>3, <1>4, CachesStay DEF CacheIInv, CachesGood
<1>6. \A c \in Callers : CallGood(c)'
  BY <1>1, CallStays DEF CacheIInv
<1> QED
  BY <1>1, <1>3, <1>4, <1>5, <1>6 DEF CacheIInv, Typing

LEMMA RegisterKeeps ==
  ASSUME CacheIInv, UNCHANGED <<caches, pc, asked, got, passed>>
  PROVE  CacheIInv'
<1>1. CachesGood'
  BY CachesStay DEF CacheIInv, CachesGood, caches
<1>2. \A c \in Callers : CallGood(c)'
  BY CallStays DEF CacheIInv
<1> QED
  BY <1>1, <1>2 DEF CacheIInv, Typing, caches

-----------------------------------------------------------------------------
(* What the caches hold and what every call carries stays good, whatever     *)
(* calls, registrations and invalidations interleave.                        *)
THEOREM Invariance == CacheSpec => []CacheIInv
<1>1. CacheIInv /\ [CacheNext]_cacheVars => CacheIInv'
  <2> SUFFICES ASSUME CacheIInv, [CacheNext]_cacheVars PROVE CacheIInv'
    OBVIOUS
  <2>1. CASE \E c \in Callers : Step(c)
    BY <2>1, FetchKeeps, InstantiateKeeps, WrapKeeps, RereadKeeps, AgainKeeps DEF Step
  <2>2. CASE \E c \in Callers : \E ask \in Asks : GetContract(c, ask)
    BY <2>2, GetContractKeeps
  <2>3. CASE \E kind \in Kinds, name \in Contracts : Invalidate(kind, name)
    BY <2>3, InvalidateKeeps
  <2>4. CASE \E name \in Contracts : Register(name)
    BY <2>4, RegisterKeeps DEF Register
  <2>5. CASE UNCHANGED cacheVars
    BY <2>5, RegisterKeeps DEF cacheVars
  <2> QED
    BY <2>1, <2>2, <2>3, <2>4, <2>5 DEF CacheNext
<1> QED
  BY InitCacheIInv, <1>1, PTL DEF CacheSpec

(* Whatever other calls and invalidateContract do in between, a call of the  *)
(* full kit with an address returns a wrapper for that address               *)
(* (contract-cache.ts:190).                                                  *)
THEOREM FullKitReturnsAsked == CacheSpec => []FullReturnsAsked
<1>1. CacheIInv => FullReturnsAsked
  BY DEF CacheIInv, CallGood, FullReturnsAsked
<1> QED
  BY <1>1, Invariance, PTL

(* Nothing but what the Registry or a caller gave for a contract is ever     *)
(* returned for it, by either kit.                                           *)
THEOREM OnlyRegisteredReturned == CacheSpec => []ReturnsRegistered
<1>1. CacheIInv => ReturnsRegistered
  BY DEF CacheIInv, CallGood, Good, ReturnsRegistered
<1> QED
  BY <1>1, Invariance, PTL
=============================================================================
