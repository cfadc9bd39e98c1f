---------------------------- MODULE ConnectProofs ----------------------------
(***************************************************************************)
(* How a transaction is sent and signed.                                   *)
(*                                                                         *)
(* TxPipeline, for any requests, chains, providers, inputs and plans: IInv *)
(* is inductive; it ties the stage of every request to its place in a      *)
(* nonce lock, to the calls it still waits for and to the pools of the     *)
(* nodes.                                                                  *)
(*                                                                         *)
(* Wallet, for any number of callers, keys and rounds of polling and for   *)
(* any transactions: what RemoteWallet.init promises to those who share a  *)
(* wallet, who is recovered from what it signs, and that no field is lost. *)
(***************************************************************************)
EXTENDS TxPipeline, Wallet, SequenceTheorems, FiniteSetTheorems, NaturalsInduction, TLAPS

Mutexes == [holder : Requests \cup {None}, queue : Seq(Requests)]

\* Nobody waits twice, whoever is in the section has the lock of its provider,
\* and only sends get as far as the lock or the node.
QueuedOnce ==
  \A p \in Providers : \A i, j \in 1 .. Len(nonceLock[p].queue) :
    nonceLock[p].queue[i] = nonceLock[p].queue[j] => i = j
SectionHolds == \A r \in Requests : InSection(r) => nonceLock[via[r]].holder = r
OnlySends == \A r \in Requests : pc[r] \in {"waiting", "sending", "accepted"} => Sends(r)
LockInv == NoOrphanedLock /\ QueuedOnce /\ SectionHolds /\ OnlySends

\* What NoOrphanedLock and QueuedOnce say of one lock.
WellKept(p) ==
  LET m == nonceLock[p] IN
  /\ m.holder # None => InSection(m.holder) /\ via[m.holder] = p
  /\ m.holder = None => m.queue = <<>>
  /\ \A i \in 1 .. Len(m.queue) : pc[m.queue[i]] = "waiting" /\ via[m.queue[i]] = p
  /\ \A i, j \in 1 .. Len(m.queue) : m.queue[i] = m.queue[j] => i = j

\* A call is open only from populate on; a field that is missing while the
\* request is filled in is being asked for; none is open once it is signed.
CallsInv ==
  \A r \in Requests :
    /\ pc[r] \in {"new", "waiting", "granted", "forwarded", "sending", "accepted"}
         => outstanding[r] = {}
    /\ pc[r] = "filling" => /\ tx[r].chainId = None => "chainId" \in outstanding[r]
                            /\ tx[r].nonce = None => "nonce" \in outstanding[r]

\* What is in a pool has been taken by a node, and conversely.
Posted(r) == \E c \in Chains : \E i \in 1 .. Len(pool[c]) : pool[c][i].req = r
PoolInv ==
  \A r \in Requests : /\ Posted(r) => pc[r] \in {"accepted", "ok", "failed"}
                      /\ pc[r] = "accepted" => Posted(r)

IInv == TypeOK /\ LockInv /\ CallsInv /\ PoolInv /\ SentOnce

-----------------------------------------------------------------------------
\* Among n nonces there is a smallest one that is not used, and it is at most n:
\* eth_getTransactionCount always has an answer.
LEMMA UnusedNonce ==
  ASSUME NEW n \in Nat, NEW f \in [1 .. n -> Nat], NEW S, S = {f[i] : i \in 1 .. n}
  PROVE  \E m \in 0 .. n : m \notin S /\ \A k \in 0 .. (m - 1) : k \in S
<1> DEFINE T == {k \in Nat : k \notin S}
<1>1. PICK m \in 0 .. n : m \notin S
  <2>1. ASSUME 0 .. n \subseteq S PROVE FALSE
    <3>1. IsFiniteSet(S) /\ Cardinality(S) <= n
      <4>1. f \in Surjection(1 .. n, S)
        BY DEF Surjection
      <4> QED BY <4>1, FS_NatSurjection, FS_SurjCardinalityBound DEF ExistsSurjection
    <3>2. Cardinality(0 .. n) = n + 1
      BY FS_Interval
    <3>3. Cardinality(0 .. n) <= Cardinality(S) /\ Cardinality(S) \in Nat
      BY <2>1, <3>1, FS_Subset, FS_CardinalityType
    <3> QED BY <3>1, <3>2, <3>3
  <2> QED BY <2>1
<1>2. \E k \in T : \A y \in T : <<y, k>> \notin OpToRel(<, Nat)
  <2>1. T \subseteq Nat /\ m \in T
    BY <1>1
  <2>2. IsWellFoundedOn(OpToRel(<, Nat), Nat)
    BY NatLessThanWellFounded
  <2> QED BY <2>1, <2>2, WFMin
<1>3. PICK k \in T : \A y \in T : ~(y < k)
  BY <1>2 DEF OpToRel
<1>4. k \in 0 .. n /\ \A j \in 0 .. (k - 1) : j \in S
  BY <1>1, <1>3
<1> QED BY <1>3, <1>4

LEMMA PendingNonceFacts ==
  ASSUME NEW c \in Chains, pool[c] \in Seq([req : Requests, nonce : Nat])
  PROVE  /\ PendingNonce(c) \in 0 .. Len(pool[c])
         /\ PendingNonce(c) \notin NoncesIn(c)
         /\ \A m \in 0 .. (PendingNonce(c) - 1) : m \in NoncesIn(c)
<1> DEFINE f == [i \in 1 .. Len(pool[c]) |-> pool[c][i].nonce]
<1>1. Len(pool[c]) \in Nat /\ f \in [1 .. Len(pool[c]) -> Nat]
  <2>1. \A i \in 1 .. Len(pool[c]) : pool[c][i] \in [req : Requests, nonce : Nat]
    BY ElementOfSeq
  <2> QED BY <2>1, LenProperties
<1>2. NoncesIn(c) = {f[i] : i \in 1 .. Len(pool[c])}
  BY DEF NoncesIn
<1> HIDE DEF f
<1>3. \E m \in 0 .. Len(pool[c]) :
        m \notin NoncesIn(c) /\ \A k \in 0 .. (m - 1) : k \in NoncesIn(c)
  BY <1>1, <1>2, UnusedNonce
<1> QED BY <1>3 DEF PendingNonce

\* acquire() of a free lock takes it; of one that is held, it queues.
LEMMA AcquiredFacts ==
  ASSUME NEW m \in Mutexes, NEW r \in Requests, m.holder = None => m.queue = <<>>
  PROVE  /\ Acquired(m, r) \in Mutexes
         /\ m.holder = None => Acquired(m, r) = [holder |-> r, queue |-> <<>>]
         /\ m.holder # None =>
              /\ Acquired(m, r).holder = m.holder
              /\ Len(Acquired(m, r).queue) = Len(m.queue) + 1
              /\ Acquired(m, r).queue[Len(m.queue) + 1] = r
              /\ \A i \in 1 .. Len(m.queue) : Acquired(m, r).queue[i] = m.queue[i]
<1>1. m.queue \in Seq(Requests) /\ m.holder \in Requests \cup {None}
  BY DEF Mutexes
<1>4. CASE m.holder = None
  <2>1. Acquired(m, r) = [holder |-> r, queue |-> <<>>]
    BY <1>4 DEF Acquired
  <2> QED BY <1>4, <2>1 DEF Mutexes
<1>5. CASE m.holder # None
  <2>1. Acquired(m, r) = [holder |-> m.holder, queue |-> Append(m.queue, r)]
    BY <1>5 DEF Acquired
  <2> QED BY <1>1, <1>5, <2>1, AppendProperties DEF Mutexes
<1> QED BY <1>4, <1>5

\* release() hands a lock to the first that waits, who leaves the queue.
LEMMA ReleasedFacts ==
  ASSUME NEW m \in Mutexes
  PROVE  /\ Released(m) \in Mutexes
         /\ m.queue = <<>> => Released(m) = [holder |-> None, queue |-> <<>>]
         /\ m.queue # <<>> =>
              /\ Len(m.queue) \in Nat \ {0}
              /\ Released(m).holder = m.queue[1]
              /\ Released(m).holder \in Requests
              /\ Len(Released(m).queue) = Len(m.queue) - 1
              /\ \A i \in 1 .. (Len(m.queue) - 1) :
                   Released(m).queue[i] = m.queue[i + 1]
<1>1. CASE m.queue = <<>>
  BY <1>1 DEF Released, Free, Mutexes
<1>2. CASE m.queue # <<>>
  <2>1. m.queue \in Seq(Requests) /\ Len(m.queue) \in Nat \ {0}
    BY <1>2, EmptySeq DEF Mutexes
  <2>2. Head(m.queue) = m.queue[1] /\ Head(m.queue) \in Requests
    BY <1>2, <2>1, HeadTailProperties
  <2>3. Released(m) = [holder |-> Head(m.queue), queue |-> Tail(m.queue)]
    BY <1>2 DEF Released
  <2> QED BY <1>2, <2>1, <2>2, <2>3, HeadTailProperties DEF Mutexes
<1> QED BY <1>1, <1>2

-----------------------------------------------------------------------------
LEMMA Constants ==
  /\ Providers \subseteq Nat /\ 1 \in Providers
  /\ ChainOf \in [Providers -> Chains]
  /\ None \notin Requests /\ None \notin Chains /\ None \notin Nat
  /\ \A p \in Plans : /\ p.requests \subseteq Requests /\ p.methods \subseteq Methods
                      /\ p.providers \in Providers /\ p.inputs \subseteq Inputs
  /\ \A i \in Inputs : i \in [chainId : Chains \cup {None}, nonce : Nat \cup {None}]
<1>1. ChainOf \in Seq(Chains) /\ ChainOf # <<>>
  BY PipelineAssumption
<1>2. Providers = 1 .. Len(ChainOf) /\ Len(ChainOf) \in Nat \ {0}
  BY <1>1, EmptySeq DEF Providers
<1>3. ChainOf \in [Providers -> Chains]
  BY <1>1, <1>2, LenProperties
<1>4. \A p \in Plans : p \in [requests : SUBSET Requests, methods : SUBSET Methods,
                              providers : Providers, inputs : SUBSET Inputs]
  BY PipelineAssumption
<1>5. None \notin Requests \cup Chains \cup Nat
  BY PipelineAssumption
<1>6. \A i \in Inputs : i \in [chainId : Chains \cup {None}, nonce : Nat \cup {None}]
  BY PipelineAssumption
<1> QED BY <1>2, <1>3, <1>4, <1>5, <1>6

\* The parts of TypeOK that an action of the locks can change.
LEMMA LockTypes ==
  TypeOK => /\ nonceLock \in [Providers -> Mutexes]
            /\ via \in [Requests -> Providers] /\ provider \in Providers
            /\ pc \in [Requests -> Stages]
  BY DEF TypeOK, Mutexes

-----------------------------------------------------------------------------
(* The locks.  A step leaves them alone, enters one, or settles a request.  *)

\* What the invariant says of the lock of one provider.
LEMMA LockOf ==
  ASSUME TypeOK, LockInv, NEW p \in Providers
  PROVE  /\ nonceLock[p] \in Mutexes
         /\ nonceLock[p].holder \in Requests \cup {None}
         /\ nonceLock[p].queue \in Seq(Requests)
         /\ Len(nonceLock[p].queue) \in Nat
         /\ \A i \in 1 .. Len(nonceLock[p].queue) : nonceLock[p].queue[i] \in Requests
         /\ nonceLock[p].holder # None => /\ InSection(nonceLock[p].holder)
                                          /\ via[nonceLock[p].holder] = p
         /\ nonceLock[p].holder = None => nonceLock[p].queue = <<>>
         /\ \A i \in 1 .. Len(nonceLock[p].queue) :
              pc[nonceLock[p].queue[i]] = "waiting" /\ via[nonceLock[p].queue[i]] = p
         /\ \A i, j \in 1 .. Len(nonceLock[p].queue) :
              nonceLock[p].queue[i] = nonceLock[p].queue[j] => i = j
<1>1. nonceLock[p] \in Mutexes
  BY LockTypes
<1>2. /\ nonceLock[p].holder \in Requests \cup {None}
      /\ nonceLock[p].queue \in Seq(Requests)
  BY <1>1 DEF Mutexes
<1> QED BY <1>1, <1>2, ElementOfSeq, LenProperties DEF LockInv, NoOrphanedLock, QueuedOnce

\* What a step has to show to keep the locks.
LEMMA LockInvFrom ==
  ASSUME \A p \in Providers : WellKept(p)', SectionHolds', OnlySends'
  PROVE  LockInv'
  BY DEF LockInv, NoOrphanedLock, QueuedOnce, WellKept

\* A lock that a step does not touch stays well kept if none of its requests moves.
LEMMA WellKeptStays ==
  ASSUME TypeOK, LockInv, NEW p \in Providers, nonceLock'[p] = nonceLock[p],
         UNCHANGED method,
         \A q \in Requests :
           (pc[q] = "waiting" \/ InSection(q)) /\ via[q] = p =>
             /\ via'[q] = p
             /\ pc[q] = "waiting" => pc'[q] = "waiting"
             /\ InSection(q) => InSection(q)'
  PROVE  WellKept(p)'
<1> DEFINE m == nonceLock[p]
<1>1. /\ m.holder # None => m.holder \in Requests /\ InSection(m.holder) /\ via[m.holder] = p
      /\ m.holder = None => m.queue = <<>>
      /\ \A i \in 1 .. Len(m.queue) :
           m.queue[i] \in Requests /\ pc[m.queue[i]] = "waiting" /\ via[m.queue[i]] = p
      /\ \A i, j \in 1 .. Len(m.queue) : m.queue[i] = m.queue[j] => i = j
  BY LockOf
<1>2. /\ \A h \in Requests : m.holder = h => InSection(h)' /\ via'[h] = p
      /\ \A i \in 1 .. Len(m.queue) : pc'[m.queue[i]] = "waiting" /\ via'[m.queue[i]] = p
  <2>1. ASSUME NEW h \in Requests, m.holder = h PROVE InSection(h)' /\ via'[h] = p
    <3>1. InSection(h) /\ via[h] = p
      BY <1>1, <2>1, Constants
    <3> QED BY <3>1
  <2>2. ASSUME NEW i \in 1 .. Len(m.queue), NEW q \in Requests, q = m.queue[i]
        PROVE  pc'[q] = "waiting" /\ via'[q] = p
    BY <1>1, <2>2
  <2> QED BY <1>1, <2>1, <2>2
<1> QED BY <1>1, <1>2 DEF WellKept, InSection, Sends

\* Steps that move a request inside the section, or outside of it.
LEMMA LockKept ==
  ASSUME TypeOK, LockInv, UNCHANGED <<nonceLock, method>>,
         \A r \in Requests :
           /\ pc[r] = "waiting" => pc'[r] = "waiting"
           /\ InSection(r) <=> InSection(r)'
           /\ pc[r] = "waiting" \/ InSection(r) => via'[r] = via[r]
           /\ pc'[r] \in {"waiting", "sending", "accepted"} => Sends(r)
  PROVE  LockInv'
<1>1. SectionHolds'
  BY DEF LockInv, SectionHolds
<1>2. OnlySends'
  BY DEF LockInv, OnlySends, Sends
<1>3. \A p \in Providers : WellKept(p)'
  BY WellKeptStays
<1> QED BY <1>1, <1>2, <1>3, LockInvFrom

\* handleSendTransaction begins: its request gets the lock, or waits for it.
LEMMA EnterKeeps ==
  ASSUME TypeOK, LockInv, NEW r \in Requests, pc[r] = "new", Sends(r),
         EnterLocked(r), via' = [via EXCEPT ![r] = provider], UNCHANGED method
  PROVE  /\ LockInv'
         /\ nonceLock' \in [Providers -> Mutexes]
         /\ pc'[r] \in {"granted", "waiting"}
         /\ pc' = [pc EXCEPT ![r] = pc'[r]]
<1>0. PICK p \in Providers : p = provider
  BY LockTypes
<1> DEFINE m == nonceLock[p]
           after == Acquired(m, r)
<1>1. /\ m \in Mutexes
      /\ nonceLock \in [Providers -> Mutexes]
      /\ via \in [Requests -> Providers] /\ pc \in [Requests -> Stages]
  BY <1>0, LockTypes
<1>2. /\ nonceLock' = [nonceLock EXCEPT ![p] = after]
      /\ pc' = [pc EXCEPT ![r] = IF after.holder = r THEN "granted" ELSE "waiting"]
  BY <1>0 DEF EnterLocked
<1>3. m.holder = None => m.queue = <<>>
  BY <1>1, LockOf
<1>4. after \in Mutexes
  BY <1>1, <1>3, AcquiredFacts
<1>5. nonceLock' \in [Providers -> Mutexes]
  BY <1>1, <1>2, <1>4
<1>6. /\ \A o \in Providers : o # p => nonceLock'[o] = nonceLock[o]
      /\ nonceLock'[p] = after
      /\ \A q \in Requests : q # r => pc'[q] = pc[q] /\ via'[q] = via[q]
      /\ pc'[r] = IF after.holder = r THEN "granted" ELSE "waiting"
      /\ via'[r] = p
  BY <1>0, <1>1, <1>2
<1>7. ~InSection(r) /\ pc[r] # "waiting"
  BY DEF InSection
<1>8. \A q \in Requests : q # r => (InSection(q)' <=> InSection(q))
  BY <1>6 DEF InSection, Sends
<1>9. m.holder # r
  BY <1>1, <1>7, LockOf, Constants
<1>10. OnlySends'
  BY <1>6 DEF LockInv, OnlySends, Sends
<1> HIDE DEF m, after
<1>11. \A o \in Providers : o # p => WellKept(o)'
  BY <1>6, <1>7, <1>8, WellKeptStays
<1>12. pc' = [pc EXCEPT ![r] = pc'[r]] /\ pc'[r] \in {"granted", "waiting"}
  BY <1>1, <1>2
<1>13. CASE m.holder = None
  <2>1. after.holder = r /\ Len(after.queue) = 0
    <3>1. after = [holder |-> r, queue |-> <<>>]
      BY <1>1, <1>3, <1>13, AcquiredFacts DEF after
    <3> QED BY <3>1
  <2>2. pc'[r] = "granted"
    BY <1>6, <2>1
  <2>3. InSection(r)'
    BY <2>2 DEF InSection, Sends
  <2>4. SectionHolds'
    <3>1. ASSUME NEW q \in Requests, InSection(q)', q # r
          PROVE  nonceLock'[via'[q]].holder = q
      <4>1. InSection(q) /\ nonceLock[via[q]].holder = q /\ via'[q] = via[q]
        BY <1>6, <1>8, <3>1 DEF LockInv, SectionHolds
      <4>2. via[q] # p
        BY <1>13, <4>1, Constants DEF m
      <4> QED BY <1>1, <1>6, <4>1, <4>2
    <3>2. nonceLock'[via'[r]].holder = r
      BY <1>6, <2>1
    <3> QED BY <3>1, <3>2 DEF SectionHolds
  <2>5. WellKept(p)'
    <3>1. after.holder = r /\ r # None
      BY <2>1, Constants
    <3>2. InSection(r)' /\ via'[r] = p
      BY <1>6, <2>3
    <3>3. \A i \in 1 .. Len(after.queue) : FALSE
      BY <2>1
    <3> QED BY <1>6, <3>1, <3>2, <3>3 DEF WellKept, InSection, Sends
  <2>6. \A o \in Providers : WellKept(o)'
    BY <1>11, <2>5
  <2> QED BY <1>5, <1>10, <1>12, <2>4, <2>6, LockInvFrom
<1>14. CASE m.holder # None
  <2>1. /\ after.holder = m.holder
        /\ Len(after.queue) = Len(m.queue) + 1
        /\ after.queue[Len(m.queue) + 1] = r
        /\ \A i \in 1 .. Len(m.queue) : after.queue[i] = m.queue[i]
    BY <1>1, <1>3, <1>14, AcquiredFacts DEF after
  <2>2. /\ m.holder # r /\ m.holder \in Requests /\ InSection(m.holder) /\ via[m.holder] = p
        /\ Len(m.queue) \in Nat
        /\ \A i \in 1 .. Len(m.queue) : /\ m.queue[i] \in Requests
                                        /\ pc[m.queue[i]] = "waiting"
                                        /\ via[m.queue[i]] = p
        /\ \A i, j \in 1 .. Len(m.queue) : m.queue[i] = m.queue[j] => i = j
    BY <1>1, <1>9, <1>14, LockOf DEF m
  <2>3. pc'[r] = "waiting"
    BY <1>6, <2>1, <2>2
  <2>4. SectionHolds'
    <3>1. ASSUME NEW q \in Requests, InSection(q)'
          PROVE  nonceLock'[via'[q]].holder = q
      <4>1. q # r
        BY <2>3, <3>1 DEF InSection
      <4>2. InSection(q) /\ nonceLock[via[q]].holder = q /\ via'[q] = via[q]
        BY <1>6, <1>8, <3>1, <4>1 DEF LockInv, SectionHolds
      <4> QED BY <1>1, <1>6, <2>1, <4>2 DEF m
    <3> QED BY <3>1 DEF SectionHolds
  <2>5. WellKept(p)'
    <3>1. PICK h \in Requests : h = m.holder /\ h # r
      BY <2>2
    <3>4. after.holder = h /\ h # None /\ InSection(h)' /\ via'[h] = p
      BY <1>6, <1>8, <1>14, <2>1, <2>2, <3>1
    <3>2. \A i \in 1 .. Len(after.queue) :
            pc'[after.queue[i]] = "waiting" /\ via'[after.queue[i]] = p
      <4>1. \A i \in 1 .. Len(m.queue) :
              pc'[m.queue[i]] = "waiting" /\ via'[m.queue[i]] = p
        BY <1>6, <2>2, <2>3
      <4>2. \A i \in 1 .. Len(after.queue) : i \in 1 .. Len(m.queue) \/ i = Len(m.queue) + 1
        BY <2>1, <2>2
      <4> SUFFICES ASSUME NEW i \in 1 .. Len(after.queue)
                   PROVE  pc'[after.queue[i]] = "waiting" /\ via'[after.queue[i]] = p
        OBVIOUS
      <4>3. CASE i \in 1 .. Len(m.queue)
        BY <2>1, <4>1, <4>3
      <4>4. CASE i = Len(m.queue) + 1
        BY <1>6, <2>1, <2>3, <4>4
      <4> QED BY <4>2, <4>3, <4>4
    <3>3. \A i, j \in 1 .. Len(after.queue) : after.queue[i] = after.queue[j] => i = j
      <4>1. \A i \in 1 .. Len(m.queue) : m.queue[i] # r
        BY <1>7, <2>2
      <4> SUFFICES ASSUME NEW i \in 1 .. Len(after.queue), NEW j \in 1 .. Len(after.queue),
                          after.queue[i] = after.queue[j]
                   PROVE  i = j
        OBVIOUS
      <4>2. /\ i \in 1 .. Len(m.queue) \/ i = Len(m.queue) + 1
            /\ j \in 1 .. Len(m.queue) \/ j = Len(m.queue) + 1
        BY <2>1, <2>2
      <4>3. CASE i \in 1 .. Len(m.queue) /\ j \in 1 .. Len(m.queue)
        BY <2>1, <2>2, <4>3
      <4>4. CASE i \in 1 .. Len(m.queue) /\ j = Len(m.queue) + 1
        BY <2>1, <4>1, <4>4
      <4>5. CASE i = Len(m.queue) + 1 /\ j \in 1 .. Len(m.queue)
        BY <2>1, <4>1, <4>5
      <4> QED BY <4>2, <4>3, <4>4, <4>5
    <3> QED BY <1>6, <3>1, <3>2, <3>3, <3>4 DEF WellKept, InSection, Sends
  <2>6. \A o \in Providers : WellKept(o)'
    BY <1>11, <2>5
  <2> QED BY <1>5, <1>10, <1>12, <2>4, <2>6, LockInvFrom
<1> QED BY <1>13, <1>14

\* The promise of a handler settles: its lock goes to the first that waits.
LEMMA SettleKeeps ==
  ASSUME TypeOK, LockInv, NEW r \in Requests, NEW outcome \in {"ok", "failed"},
         Settle(r, outcome), Sends(r) => InSection(r), pc[r] # "waiting",
         UNCHANGED <<method, via>>
  PROVE  /\ LockInv'
         /\ nonceLock' \in [Providers -> Mutexes] /\ pc' \in [Requests -> Stages]
         /\ pc'[r] = outcome
         /\ \A q \in Requests : q # r => \/ pc'[q] = pc[q]
                                         \/ pc[q] = "waiting" /\ pc'[q] = "granted"
<1> USE LockTypes
<1>1. CASE ~Sends(r)
  <2>1. pc' = [pc EXCEPT ![r] = outcome] /\ UNCHANGED nonceLock
    BY <1>1 DEF Settle
  <2>2. /\ pc' \in [Requests -> Stages] /\ pc'[r] = outcome
        /\ \A q \in Requests : q # r => pc'[q] = pc[q]
    BY <2>1 DEF Stages
  <2>3. LockInv'
    <3>1. \A q \in Requests : InSection(q) <=> InSection(q)'
      BY <1>1, <2>2 DEF InSection, Sends
    <3>2. \A q \in Requests : pc[q] \in {"waiting", "sending", "accepted"} => Sends(q)
      BY DEF LockInv, OnlySends
    <3> QED BY <2>1, <2>2, <3>1, <3>2, LockKept
  <2> QED BY <2>1, <2>2, <2>3
<1>2. CASE Sends(r)
  <2>0. PICK p \in Providers : p = via[r]
    OBVIOUS
  <2> DEFINE m == nonceLock[p]
             after == Released(m)
  <2>1. /\ nonceLock' = [nonceLock EXCEPT ![p] = after]
        /\ pc' = [q \in Requests |-> IF q = r THEN outcome
                                     ELSE IF q = after.holder THEN "granted" ELSE pc[q]]
    BY <1>2, <2>0 DEF Settle
  <2>2. m \in Mutexes /\ after \in Mutexes
    BY ReleasedFacts
  <2>3. /\ nonceLock' \in [Providers -> Mutexes] /\ nonceLock'[p] = after
        /\ \A o \in Providers : o # p => nonceLock'[o] = nonceLock[o]
    BY <2>1, <2>2
  <2>4. m.holder = r
    BY <1>2, <2>0 DEF LockInv, SectionHolds
  <2>5. /\ Len(m.queue) \in Nat
        /\ \A i \in 1 .. Len(m.queue) : /\ m.queue[i] \in Requests
                                        /\ pc[m.queue[i]] = "waiting"
                                        /\ via[m.queue[i]] = p
                                        /\ Sends(m.queue[i])
        /\ \A i, j \in 1 .. Len(m.queue) : m.queue[i] = m.queue[j] => i = j
    BY LockOf DEF LockInv, OnlySends
  <2>6. /\ m.queue = <<>> => after.holder = None /\ Len(after.queue) = 0
                             /\ after.queue = <<>>
        /\ m.queue # <<>> =>
             /\ Len(m.queue) \in Nat \ {0}
             /\ after.holder = m.queue[1] /\ after.holder \in Requests
             /\ Len(after.queue) = Len(m.queue) - 1
             /\ \A i \in 1 .. (Len(m.queue) - 1) : after.queue[i] = m.queue[i + 1]
    <3> HIDE DEF m
    <3>1. m.queue = <<>> => after = [holder |-> None, queue |-> <<>>]
      BY <2>2, ReleasedFacts
    <3> QED BY <2>2, <3>1, ReleasedFacts
  <2> HIDE DEF m, after
  <2>7. /\ pc'[r] = outcome
        /\ \A q \in Requests : q # r /\ q = after.holder => pc'[q] = "granted"
        /\ \A q \in Requests : q # r /\ q # after.holder => pc'[q] = pc[q]
    BY <2>1
  <2>8. ASSUME NEW q \in Requests, q = after.holder
        PROVE  /\ pc[q] = "waiting" /\ via[q] = p /\ Sends(q) /\ q # r
               /\ InSection(q)' /\ via'[q] = p
    <3>1. m.queue # <<>>
      BY <2>6, <2>8, Constants
    <3>2. q = m.queue[1] /\ 1 \in 1 .. Len(m.queue)
      BY <2>6, <2>8, <3>1
    <3>3. pc[q] = "waiting" /\ via[q] = p /\ Sends(q)
      BY <2>5, <3>2
    <3>4. q # r
      BY <3>3
    <3> QED BY <2>7, <2>8, <3>3, <3>4 DEF InSection, Sends
  <2>9. \A q \in Requests : q # r => \/ pc'[q] = pc[q]
                                     \/ pc[q] = "waiting" /\ pc'[q] = "granted"
    BY <2>7, <2>8
  <2>10. pc' \in [Requests -> Stages]
    BY <2>1 DEF Stages
  <2>11. OnlySends'
    BY <2>7, <2>9 DEF LockInv, OnlySends, Sends
  <2>12. \A q \in Requests : q # r /\ q # after.holder => (InSection(q)' <=> InSection(q))
    BY <2>7 DEF InSection, Sends
  <2>13. ~InSection(r)'
    BY <2>7 DEF InSection
  <2>14. SectionHolds'
    <3>1. ASSUME NEW q \in Requests, InSection(q)' PROVE nonceLock'[via'[q]].holder = q
      <4>1. q # r
        BY <2>13, <3>1
      <4>2. CASE q = after.holder
        BY <2>3, <2>8, <4>2
      <4>3. CASE q # after.holder
        <5>1. nonceLock[via[q]].holder = q
          BY <2>12, <3>1, <4>1, <4>3 DEF LockInv, SectionHolds
        <5>2. via[q] # p
          BY <2>4, <4>1, <5>1 DEF m
        <5> QED BY <2>3, <5>1, <5>2
      <4> QED BY <4>2, <4>3
    <3> QED BY <3>1 DEF SectionHolds
  <2>15. \A o \in Providers : o # p => WellKept(o)'
    <3> SUFFICES ASSUME NEW o \in Providers, o # p PROVE WellKept(o)'
      OBVIOUS
    <3>1. ASSUME NEW q \in Requests, via[q] = o
          PROVE  /\ via'[q] = o
                 /\ pc[q] = "waiting" => pc'[q] = "waiting"
                 /\ InSection(q) => InSection(q)'
      <4>1. q # r /\ q # after.holder
        BY <2>0, <2>8, <3>1
      <4> QED BY <2>7, <2>12, <3>1, <4>1
    <3> QED BY <2>3, <3>1, WellKeptStays
  <2>16. WellKept(p)'
    <3>1. CASE m.queue = <<>>
      BY <2>3, <2>6, <3>1 DEF WellKept
    <3>2. CASE m.queue # <<>>
      <4>1. PICK h \in Requests : h = after.holder
        BY <2>6, <3>2
      <4>2. h # None /\ InSection(h)' /\ via'[h] = p
        BY <2>8, <4>1, Constants
      <4>3. \A i \in 1 .. Len(after.queue) : /\ i + 1 \in 1 .. Len(m.queue) /\ i + 1 # 1
                                             /\ after.queue[i] = m.queue[i + 1]
        BY <2>6, <3>2
      <4>4. \A i \in 1 .. Len(m.queue) : i # 1 => m.queue[i] # h
        BY <2>5, <2>6, <3>2, <4>1
      <4>5. \A i \in 1 .. Len(m.queue) :
              i # 1 => pc'[m.queue[i]] = "waiting" /\ via'[m.queue[i]] = p
        <5> SUFFICES ASSUME NEW i \in 1 .. Len(m.queue), i # 1,
                            NEW q \in Requests, q = m.queue[i]
                     PROVE  pc'[q] = "waiting" /\ via'[q] = p
          BY <2>5
        <5>1. q # h /\ pc[q] = "waiting" /\ via[q] = p
          BY <2>5, <4>4
        <5>2. q # r
          BY <5>1
        <5> QED BY <2>7, <4>1, <5>1, <5>2
      <4>6. \A i \in 1 .. Len(after.queue) :
              pc'[after.queue[i]] = "waiting" /\ via'[after.queue[i]] = p
        BY <4>3, <4>5
      <4>7. \A i, j \in 1 .. Len(after.queue) : after.queue[i] = after.queue[j] => i = j
        <5> SUFFICES ASSUME NEW i \in 1 .. Len(after.queue), NEW j \in 1 .. Len(after.queue),
                            after.queue[i] = after.queue[j]
                     PROVE  i = j
          OBVIOUS
        <5>1. i + 1 = j + 1
          BY <2>5, <4>3
        <5> QED BY <5>1
      <4> QED BY <2>3, <4>1, <4>2, <4>6, <4>7 DEF WellKept, InSection, Sends
    <3> QED BY <3>1, <3>2
  <2>17. LockInv'
    BY <2>11, <2>14, <2>15, <2>16, LockInvFrom
  <2> QED BY <2>3, <2>7, <2>9, <2>10, <2>17
<1> QED BY <1>1, <1>2

-----------------------------------------------------------------------------
(* The whole invariant, one lemma per action or kind of action.             *)

LEMMA IInvFrom ==
  ASSUME TypeOK', LockInv', CallsInv', PoolInv', SentOnce'
  PROVE  IInv'
  BY DEF IInv

\* A request settles, and is told "ok" only if it is a signature or was posted.
LEMMA SettleIInv ==
  ASSUME IInv, NEW r \in Requests, NEW outcome \in {"ok", "failed"},
         Settle(r, outcome), pc[r] \in {"filling", "sending", "accepted"},
         outcome = "ok" /\ Sends(r) => pc[r] = "accepted",
         UNCHANGED <<connection, given, via, tx, asked, pool>>,
         outstanding' \in [Requests -> SUBSET Parts],
         \A q \in Requests : /\ outstanding'[q] \subseteq outstanding[q]
                             /\ q # r => outstanding'[q] = outstanding[q]
  PROVE  IInv'
<1>1. TypeOK /\ LockInv /\ CallsInv /\ PoolInv /\ SentOnce
  BY DEF IInv
<1>2. /\ LockInv'
      /\ nonceLock' \in [Providers -> Mutexes] /\ pc' \in [Requests -> Stages]
      /\ pc'[r] = outcome
      /\ \A q \in Requests : q # r => \/ pc'[q] = pc[q]
                                      \/ pc[q] = "waiting" /\ pc'[q] = "granted"
  <2>1. Sends(r) => InSection(r)
    BY DEF InSection
  <2>2. UNCHANGED <<method, via>>
    BY DEF given
  <2> QED BY <1>1, <2>1, <2>2, SettleKeeps
<1>3. \A q \in Requests : pc'[q] \in {"sending", "accepted"} => pc'[q] = pc[q]
  BY <1>2
<1>4. TypeOK'
  BY <1>1, <1>2, <1>3 DEF TypeOK, Mutexes, connection, given
<1>5. CallsInv'
  BY <1>1, <1>2 DEF CallsInv
<1>6. PoolInv'
  <2>1. \A q \in Requests : Posted(q)' <=> Posted(q)
    BY DEF Posted
  <2> QED BY <1>1, <1>2, <2>1 DEF PoolInv
<1>7. SentOnce'
  <2>1. \A q \in Requests : pc'[q] = "ok" /\ Sends(q)' =>
          (pc[q] = "ok" /\ Sends(q)) \/ Posted(q)
    BY <1>1, <1>2 DEF PoolInv, Sends, given
  <2>2. \A q \in Requests : pc'[q] = "ok" /\ Sends(q)' => Posted(q)
    BY <1>1, <2>1 DEF SentOnce, Posted
  <2> QED BY <1>1, <2>2 DEF SentOnce, Posted
<1> QED BY <1>2, <1>4, <1>5, <1>6, <1>7, IInvFrom

\* Steps that leave the locks and the pools alone.
LEMMA QuietIInv ==
  ASSUME IInv, TypeOK', CallsInv', UNCHANGED <<nonceLock, given, pool>>,
         \A q \in Requests :
           /\ pc[q] = "waiting" => pc'[q] = "waiting"
           /\ InSection(q) <=> InSection(q)'
           /\ pc[q] = "waiting" \/ InSection(q) => via'[q] = via[q]
           /\ pc'[q] \in {"waiting", "sending"} => Sends(q)
           /\ pc'[q] = "accepted" <=> pc[q] = "accepted"
           /\ pc'[q] = "ok" <=> pc[q] = "ok"
           /\ pc[q] = "failed" => pc'[q] = "failed"
  PROVE  IInv'
<1>1. TypeOK /\ LockInv /\ PoolInv /\ SentOnce /\ UNCHANGED method
  BY DEF IInv, given
<1>2. LockInv'
  BY <1>1, LockKept DEF LockInv, OnlySends
<1>3. \A q \in Requests : (Posted(q)' <=> Posted(q)) /\ (Sends(q)' <=> Sends(q))
  BY <1>1 DEF Posted, Sends
<1>4. PoolInv'
  BY <1>1, <1>3 DEF PoolInv
<1>5. SentOnce'
  BY <1>1, <1>3 DEF SentOnce
<1> QED BY <1>2, <1>4, <1>5, IInvFrom

LEMMA InitIInv == Init => IInv
<1> SUFFICES ASSUME Init PROVE IInv
  OBVIOUS
<1>1. TypeOK
  <2>1. method \in [Requests -> Methods \cup {None}]
    <3>1. PICK m \in [plan.requests -> plan.methods] :
            method = [r \in Requests |-> IF r \in plan.requests THEN m[r] ELSE None]
      BY DEF Init
    <3>2. plan.methods \subseteq Methods
      BY Constants DEF Init
    <3> QED BY <3>1, <3>2
  <2>2. nonceLock \in [Providers -> Mutexes]
    BY DEF Init, Free, Mutexes
  <2>3. pool \in [Chains -> Seq([req : Requests, nonce : Nat])]
    BY DEF Init
  <2>4. \A r \in Requests : pc[r] = "new"
    BY DEF Init
  <2>5. tx \in [Requests -> [chainId : Chains \cup {None}, nonce : Nat \cup {None}]]
    BY DEF Init
  <2>6. /\ pc \in [Requests -> Stages] /\ via \in [Requests -> Providers]
        /\ asked \in [Requests -> Providers] /\ outstanding \in [Requests -> SUBSET Parts]
        /\ stopped \in [Providers -> BOOLEAN] /\ hasAccount \in BOOLEAN
        /\ plan \in Plans /\ provider \in Providers
        /\ connChainId = None /\ normChainId = None
    BY Constants DEF Init, Stages
  <2> QED BY <2>1, <2>2, <2>3, <2>4, <2>5, <2>6 DEF TypeOK, Mutexes
<1>2. \A r \in Requests : pc[r] = "new" /\ outstanding[r] = {} /\ ~InSection(r)
  BY DEF Init, InSection
<1>3. \A p \in Providers : nonceLock[p].holder = None /\ nonceLock[p].queue = <<>>
  BY DEF Init, Free
<1>4. \A c \in Chains : Len(pool[c]) = 0
  BY DEF Init
<1>5. LockInv
  BY <1>2, <1>3 DEF LockInv, NoOrphanedLock, QueuedOnce, SectionHolds, OnlySends
<1>6. CallsInv
  BY <1>2 DEF CallsInv
<1>7. \A r \in Requests : ~Posted(r)
  BY <1>4 DEF Posted
<1>8. PoolInv
  BY <1>2, <1>7 DEF PoolInv
<1>9. SentOnce
  <2>1. \A c, d \in Chains : \A i \in 1 .. Len(pool[c]), j \in 1 .. Len(pool[d]) : FALSE
    BY <1>4
  <2> QED BY <1>2, <2>1 DEF SentOnce
<1> QED BY <1>1, <1>5, <1>6, <1>8, <1>9 DEF IInv

LEMMA SendIInv ==
  ASSUME IInv, NEW r \in Requests, NEW input \in plan.inputs, Send(r, input)
  PROVE  IInv'
<1>1. TypeOK /\ LockInv /\ CallsInv /\ PoolInv /\ SentOnce
  BY DEF IInv
<1>2. /\ pc[r] = "new" /\ ~InSection(r) /\ outstanding[r] = {} /\ r \in Requests
      /\ via' = [via EXCEPT ![r] = provider] /\ tx' = [tx EXCEPT ![r] = input]
      /\ UNCHANGED <<connection, given, outstanding, pool>>
  BY <1>1 DEF Send, CallsInv, InSection
<1>3. input \in [chainId : Chains \cup {None}, nonce : Nat \cup {None}]
  BY <1>1, Constants DEF TypeOK
<1>4. via' \in [Requests -> Providers] /\ provider \in Providers
  BY <1>1, <1>2 DEF TypeOK
<1>5. tx' \in [Requests -> [chainId : Chains \cup {None}, nonce : Nat \cup {None}]]
  BY <1>1, <1>2, <1>3 DEF TypeOK
<1>6. /\ LockInv' /\ nonceLock' \in [Providers -> Mutexes]
      /\ asked' \in [Requests -> Providers]
      /\ pc'[r] \in {"failed", "forwarded", "granted", "waiting"}
      /\ pc' = [pc EXCEPT ![r] = pc'[r]]
  <2>1. CASE UNCHANGED nonceLock /\ ~(hasAccount /\ ~stopped[provider] /\ Sends(r))
    <3>1. /\ pc' = [pc EXCEPT ![r] = pc'[r]]
          /\ pc'[r] \in {"failed", "forwarded", "granted"}
          /\ pc'[r] = "granted" => ~Sends(r)
      BY <1>1, <2>1 DEF Send, TypeOK
    <3>2. \A q \in Requests : q # r => pc'[q] = pc[q] /\ via'[q] = via[q]
      BY <1>1, <1>2, <3>1 DEF TypeOK
    <3>3. UNCHANGED method
      BY <1>2 DEF given
    <3>4. LockInv'
      <4>1. \A q \in Requests : InSection(q) <=> InSection(q)'
        BY <1>2, <3>1, <3>2, <3>3 DEF InSection, Sends
      <4> QED BY <1>1, <1>2, <2>1, <3>1, <3>2, <3>3, <4>1, LockKept DEF LockInv, OnlySends
    <3>5. asked' \in [Requests -> Providers]
      BY <1>1, <1>4 DEF Send, TypeOK
    <3> QED BY <1>1, <2>1, <3>1, <3>4, <3>5, LockTypes
  <2>2. CASE Sends(r) /\ EnterLocked(r) /\ UNCHANGED asked
    <3>1. UNCHANGED method
      BY <1>2 DEF given
    <3>2. /\ LockInv' /\ nonceLock' \in [Providers -> Mutexes]
          /\ pc'[r] \in {"granted", "waiting"} /\ pc' = [pc EXCEPT ![r] = pc'[r]]
      BY <1>1, <1>2, <2>2, <3>1, EnterKeeps
    <3> QED BY <1>1, <2>2, <3>2 DEF TypeOK
  <2> QED BY <2>1, <2>2 DEF Send
<1>7. /\ pc' \in [Requests -> Stages]
      /\ \A q \in Requests : q # r => pc'[q] = pc[q] /\ tx'[q] = tx[q]
  BY <1>1, <1>2, <1>6 DEF TypeOK, Stages
<1>8. TypeOK'
  BY <1>1, <1>2, <1>4, <1>5, <1>6, <1>7 DEF TypeOK, Mutexes, connection, given
<1>9. CallsInv'
  BY <1>1, <1>2, <1>6, <1>7 DEF CallsInv
<1>10. \A q \in Requests : (Posted(q)' <=> Posted(q)) /\ (Sends(q)' <=> Sends(q))
  BY <1>2 DEF Posted, Sends, given
<1>11. PoolInv'
  BY <1>1, <1>2, <1>6, <1>7, <1>10 DEF PoolInv
<1>12. SentOnce'
  BY <1>1, <1>2, <1>6, <1>7, <1>10 DEF SentOnce
<1> QED BY <1>6, <1>8, <1>9, <1>11, <1>12, IInvFrom

LEMMA ForwardAnswerIInv ==
  ASSUME IInv, NEW r \in Requests, ForwardAnswer(r) PROVE IInv'
<1>1. TypeOK /\ LockInv /\ CallsInv /\ PoolInv /\ SentOnce
  BY DEF IInv
<1>2. /\ pc[r] = "forwarded" /\ pc' = [pc EXCEPT ![r] = "failed"]
      /\ UNCHANGED <<connection, nonceLock, given, via, tx, asked, outstanding, pool>>
  BY DEF ForwardAnswer, request
<1>3. /\ pc' \in [Requests -> Stages] /\ pc'[r] = "failed"
      /\ \A q \in Requests : q # r => pc'[q] = pc[q]
  BY <1>1, <1>2 DEF TypeOK, Stages
<1>4. TypeOK'
  BY <1>1, <1>2, <1>3 DEF TypeOK, connection, given
<1>5. CallsInv'
  BY <1>1, <1>2, <1>3 DEF CallsInv
<1>6. \A q \in Requests : InSection(q) <=> InSection(q)'
  BY <1>2, <1>3 DEF InSection, Sends, given
<1>7. \A q \in Requests : pc[q] \in {"waiting", "sending"} => Sends(q)
  BY <1>1 DEF LockInv, OnlySends
<1> QED BY <1>2, <1>3, <1>4, <1>5, <1>6, <1>7, QuietIInv

LEMMA PopulateIInv ==
  ASSUME IInv, NEW r \in Requests, Populate(r) PROVE IInv'
<1>1. TypeOK /\ LockInv /\ CallsInv /\ PoolInv /\ SentOnce
  BY DEF IInv
<1>2. /\ pc[r] = "granted" /\ pc' = [pc EXCEPT ![r] = "filling"]
      /\ asked' = [asked EXCEPT ![r] = provider]
      /\ tx' = [tx EXCEPT ![r].chainId = KnownChainId(r)]
      /\ normChainId' = IF tx[r].chainId = None /\ normChainId = None
                        THEN connChainId ELSE normChainId
      /\ outstanding' = [outstanding EXCEPT ![r] =
                           {f \in {"chainId"} : KnownChainId(r) = None}
                           \cup {f \in {"nonce"} : tx[r].nonce = None}
                           \cup {"fees"}]
      /\ UNCHANGED <<provider, connChainId, stopped, hasAccount, nonceLock, given,
                     via, pool>>
  BY DEF Populate
<1>3. /\ pc' \in [Requests -> Stages] /\ pc'[r] = "filling"
      /\ \A q \in Requests : q # r => pc'[q] = pc[q]
  BY <1>1, <1>2 DEF TypeOK, Stages
<1>4. /\ tx[r] \in [chainId : Chains \cup {None}, nonce : Nat \cup {None}]
      /\ KnownChainId(r) \in Chains \cup {None}
  BY <1>1 DEF TypeOK, KnownChainId
<1>5. /\ tx'[r].chainId = KnownChainId(r) /\ tx'[r].nonce = tx[r].nonce
      /\ \A q \in Requests : q # r => tx'[q] = tx[q]
      /\ tx' \in [Requests -> [chainId : Chains \cup {None}, nonce : Nat \cup {None}]]
  BY <1>1, <1>2, <1>4 DEF TypeOK
<1>6. /\ outstanding' \in [Requests -> SUBSET Parts]
      /\ KnownChainId(r) = None => "chainId" \in outstanding'[r]
      /\ tx[r].nonce = None => "nonce" \in outstanding'[r]
      /\ \A q \in Requests : q # r => outstanding'[q] = outstanding[q]
  BY <1>1, <1>2 DEF TypeOK, Parts
<1>7. TypeOK'
  <2>1. asked' \in [Requests -> Providers] /\ normChainId' \in Chains \cup {None}
    BY <1>1, <1>2 DEF TypeOK
  <2>2. \A q \in Requests : pc'[q] \in {"sending", "accepted"} =>
          tx'[q] \in [chainId : Chains, nonce : Nat]
    BY <1>1, <1>3, <1>5 DEF TypeOK
  <2> QED BY <1>1, <1>2, <1>3, <1>5, <1>6, <2>1, <2>2 DEF TypeOK, given
<1>8. CallsInv'
  BY <1>1, <1>3, <1>5, <1>6 DEF CallsInv
<1>9. \A q \in Requests : InSection(q) <=> InSection(q)'
  BY <1>2, <1>3 DEF InSection, Sends, given
<1>10. \A q \in Requests : pc[q] \in {"waiting", "sending"} => Sends(q)
  BY <1>1 DEF LockInv, OnlySends
<1> QED BY <1>2, <1>3, <1>7, <1>8, <1>9, <1>10, QuietIInv

LEMMA AnsweredFacts ==
  ASSUME TypeOK, NEW r \in Requests, NEW f, Answered(r, f)
  PROVE  /\ f \in outstanding[r] /\ outstanding'[r] = outstanding[r] \ {f}
         /\ outstanding' \in [Requests -> SUBSET Parts]
         /\ \A q \in Requests : /\ outstanding'[q] \subseteq outstanding[q]
                                /\ q # r => outstanding'[q] = outstanding[q]
  BY DEF Answered, TypeOK

\* The answers to populate's calls.
LEMMA AnswerIInv ==
  ASSUME IInv, NEW r \in Requests,
         ChainIdAnswer(r) \/ NonceAnswer(r) \/ FeesAnswer(r)
  PROVE  IInv'
<1>1. TypeOK /\ LockInv /\ CallsInv /\ PoolInv /\ SentOnce
  BY DEF IInv
<1>2. UNCHANGED <<provider, stopped, hasAccount, nonceLock, pc, given, via, asked, pool>>
  BY DEF ChainIdAnswer, NonceAnswer, FeesAnswer, connection
<1>3. NodeOf(r) \in Chains /\ PendingNonce(NodeOf(r)) \in Nat
  <2>1. asked[r] \in Providers
    BY <1>1 DEF TypeOK
  <2>2. NodeOf(r) \in Chains
    BY <2>1, Constants DEF NodeOf
  <2>3. pool[NodeOf(r)] \in Seq([req : Requests, nonce : Nat])
    BY <1>1, <2>2 DEF TypeOK
  <2>4. PICK c \in Chains : c = NodeOf(r)
    BY <2>2
  <2>5. PendingNonce(c) \in 0 .. Len(pool[c]) /\ Len(pool[c]) \in Nat
    BY <2>3, <2>4, PendingNonceFacts, LenProperties
  <2> QED BY <2>2, <2>4, <2>5
<1>4. /\ connChainId' \in Chains \cup {None} /\ normChainId' \in Chains \cup {None}
      /\ outstanding' \in [Requests -> SUBSET Parts]
      /\ tx' \in [Requests -> [chainId : Chains \cup {None}, nonce : Nat \cup {None}]]
      /\ \A q \in Requests : q # r => tx'[q] = tx[q] /\ outstanding'[q] = outstanding[q]
      /\ outstanding'[r] \subseteq outstanding[r]
      /\ \/ /\ tx'[r].chainId \in Chains /\ tx'[r].nonce = tx[r].nonce
            /\ outstanding'[r] = outstanding[r] \ {"chainId"}
         \/ /\ tx'[r].nonce \in Nat /\ tx'[r].chainId = tx[r].chainId
            /\ outstanding'[r] = outstanding[r] \ {"nonce"}
         \/ /\ tx'[r] = tx[r]
            /\ outstanding'[r] = outstanding[r] \ {"fees"}
  <2>1. CASE ChainIdAnswer(r)
    <3>1. /\ connChainId' = NodeOf(r) /\ normChainId' = NodeOf(r)
          /\ tx' = [tx EXCEPT ![r].chainId = NodeOf(r)] /\ Answered(r, "chainId")
      BY <2>1 DEF ChainIdAnswer
    <3>2. tx \in [Requests -> [chainId : Chains \cup {None}, nonce : Nat \cup {None}]]
      BY <1>1 DEF TypeOK
    <3>3. /\ tx' \in [Requests -> [chainId : Chains \cup {None}, nonce : Nat \cup {None}]]
          /\ tx'[r].chainId = NodeOf(r) /\ tx'[r].nonce = tx[r].nonce
          /\ \A q \in Requests : q # r => tx'[q] = tx[q]
      BY <1>3, <3>1, <3>2
    <3> QED BY <1>1, <1>3, <3>1, <3>3, AnsweredFacts
  <2>2. CASE NonceAnswer(r)
    <3>1. /\ tx' = [tx EXCEPT ![r].nonce = PendingNonce(NodeOf(r))]
          /\ Answered(r, "nonce") /\ UNCHANGED connection
      BY <2>2 DEF NonceAnswer
    <3>2. tx \in [Requests -> [chainId : Chains \cup {None}, nonce : Nat \cup {None}]]
      BY <1>1 DEF TypeOK
    <3>3. /\ tx' \in [Requests -> [chainId : Chains \cup {None}, nonce : Nat \cup {None}]]
          /\ tx'[r].nonce \in Nat /\ tx'[r].chainId = tx[r].chainId
          /\ \A q \in Requests : q # r => tx'[q] = tx[q]
      BY <1>3, <3>1, <3>2
    <3> QED BY <1>1, <3>1, <3>3, AnsweredFacts DEF connection, TypeOK
  <2>3. CASE FeesAnswer(r)
    BY <1>1, <2>3, AnsweredFacts DEF FeesAnswer, connection, TypeOK
  <2> QED BY <2>1, <2>2, <2>3
<1>5. TypeOK'
  <2>1. \A q \in Requests : pc'[q] \in {"sending", "accepted"} =>
          tx'[q] \in [chainId : Chains, nonce : Nat]
    <3> SUFFICES ASSUME NEW q \in Requests, pc[q] \in {"sending", "accepted"}
                 PROVE  tx'[q] \in [chainId : Chains, nonce : Nat]
      BY <1>2
    <3>1. tx[q] \in [chainId : Chains, nonce : Nat]
      BY <1>1 DEF TypeOK
    <3>2. tx'[q] \in [chainId : Chains \cup {None}, nonce : Nat \cup {None}]
      BY <1>4
    <3>3. tx'[q].chainId \in Chains /\ tx'[q].nonce \in Nat
      BY <1>4, <3>1
    <3> QED BY <3>2, <3>3
  <2> QED BY <1>1, <1>2, <1>4, <2>1 DEF TypeOK, given
<1>6. CallsInv'
  <2>1. ASSUME NEW q \in Requests, pc[q] = "filling"
        PROVE  /\ tx'[q].chainId = None => "chainId" \in outstanding'[q]
               /\ tx'[q].nonce = None => "nonce" \in outstanding'[q]
    <3>1. /\ tx[q].chainId = None => "chainId" \in outstanding[q]
          /\ tx[q].nonce = None => "nonce" \in outstanding[q]
      BY <1>1, <2>1 DEF CallsInv
    <3> QED BY <1>4, <3>1, Constants
  <2>2. ASSUME NEW q \in Requests,
               pc[q] \in {"new", "waiting", "granted", "forwarded", "sending", "accepted"}
        PROVE  outstanding'[q] = {}
    BY <1>1, <1>4, <2>2 DEF CallsInv
  <2> QED BY <1>2, <2>1, <2>2 DEF CallsInv
<1>7. \A q \in Requests : InSection(q) <=> InSection(q)'
  BY <1>2 DEF InSection, Sends, given
<1>8. \A q \in Requests : pc[q] \in {"waiting", "sending"} => Sends(q)
  BY <1>1 DEF LockInv, OnlySends
<1> QED BY <1>2, <1>5, <1>6, <1>7, <1>8, QuietIInv

LEMMA CallFailsIInv ==
  ASSUME IInv, NEW r \in Requests, CallFails(r) PROVE IInv'
<1>1. TypeOK /\ LockInv /\ CallsInv
  BY DEF IInv
<1>2. PICK f \in outstanding[r] : Answered(r, f)
  BY DEF CallFails
<1>3. /\ outstanding' \in [Requests -> SUBSET Parts]
      /\ outstanding'[r] = outstanding[r] \ {f}
      /\ \A q \in Requests : /\ outstanding'[q] \subseteq outstanding[q]
                             /\ q # r => outstanding'[q] = outstanding[q]
  BY <1>1, <1>2, AnsweredFacts
<1>4. UNCHANGED <<connection, given, via, tx, asked, pool>>
  BY DEF CallFails
<1>5. CASE pc[r] = "filling"
  BY <1>3, <1>4, <1>5, SettleIInv DEF CallFails
<1>6. CASE pc[r] # "filling"
  <2>1. UNCHANGED <<pc, nonceLock>>
    BY <1>6 DEF CallFails
  <2>2. TypeOK'
    BY <1>1, <1>3, <1>4, <2>1 DEF TypeOK, connection, given
  <2>3. CallsInv'
    BY <1>1, <1>3, <1>4, <1>6, <2>1 DEF CallsInv
  <2>4. \A q \in Requests : InSection(q) <=> InSection(q)'
    BY <1>4, <2>1 DEF InSection, Sends, given
  <2>5. \A q \in Requests : pc[q] \in {"waiting", "sending"} => Sends(q)
    BY <1>1 DEF LockInv, OnlySends
  <2> QED BY <1>4, <2>1, <2>2, <2>3, <2>4, <2>5, QuietIInv
<1> QED BY <1>5, <1>6

\* A step that only settles a request.
LEMMA SettleOnlyIInv ==
  ASSUME IInv, NEW r \in Requests, NEW outcome \in {"ok", "failed"},
         Settle(r, outcome), pc[r] \in {"filling", "sending", "accepted"},
         outcome = "ok" /\ Sends(r) => pc[r] = "accepted",
         UNCHANGED <<connection, given, via, tx, asked, outstanding, pool>>
  PROVE  IInv'
<1>1. outstanding' \in [Requests -> SUBSET Parts]
  BY DEF IInv, TypeOK
<1> QED BY <1>1, SettleIInv

LEMMA SignIInv ==
  ASSUME IInv, NEW r \in Requests, Sign(r) PROVE IInv'
<1>1. TypeOK /\ LockInv /\ CallsInv
  BY DEF IInv
<1>2. /\ pc[r] = "filling" /\ outstanding[r] = {}
      /\ UNCHANGED <<connection, given, via, tx, outstanding, pool>>
  BY DEF Sign, Complete
<1>3. CASE ~Sends(r)
  BY <1>2, <1>3, SettleOnlyIInv DEF Sign
<1>4. CASE Sends(r)
  <2>1. /\ pc' = [pc EXCEPT ![r] = "sending"] /\ UNCHANGED nonceLock
        /\ asked' = [asked EXCEPT ![r] = provider]
    BY <1>4 DEF Sign
  <2>2. /\ pc' \in [Requests -> Stages] /\ pc'[r] = "sending"
        /\ \A q \in Requests : q # r => pc'[q] = pc[q]
        /\ asked' \in [Requests -> Providers]
    BY <1>1, <2>1 DEF TypeOK, Stages
  <2>3. tx[r] \in [chainId : Chains, nonce : Nat]
    <3>1. tx[r].chainId # None /\ tx[r].nonce # None
      BY <1>1, <1>2 DEF CallsInv
    <3>2. tx[r] \in [chainId : Chains \cup {None}, nonce : Nat \cup {None}]
      BY <1>1 DEF TypeOK
    <3> QED BY <3>1, <3>2
  <2>4. TypeOK'
    BY <1>1, <1>2, <2>1, <2>2, <2>3 DEF TypeOK, connection, given
  <2>5. CallsInv'
    BY <1>1, <1>2, <2>2 DEF CallsInv
  <2>6. \A q \in Requests : InSection(q) <=> InSection(q)'
    BY <1>2, <2>2 DEF InSection, Sends, given
  <2>7. \A q \in Requests : pc[q] \in {"waiting", "sending"} => Sends(q)
    BY <1>1 DEF LockInv, OnlySends
  <2> QED BY <1>2, <1>4, <2>1, <2>2, <2>4, <2>5, <2>6, <2>7, QuietIInv
<1> QED BY <1>3, <1>4

LEMMA RawArrivesIInv ==
  ASSUME IInv, NEW r \in Requests, RawArrives(r) PROVE IInv'
<1>1. TypeOK /\ LockInv /\ CallsInv /\ PoolInv /\ SentOnce
  BY DEF IInv
<1>2. pc[r] = "sending" /\ UNCHANGED <<connection, given, via, tx, asked, outstanding>>
  BY DEF RawArrives, request
<1>3. CASE ~Takes(NodeOf(r), tx[r])
  BY <1>2, <1>3, SettleOnlyIInv DEF RawArrives
<1>4. CASE Takes(NodeOf(r), tx[r])
  <2>0. PICK c \in Chains : c = NodeOf(r)
    BY <1>1, Constants DEF NodeOf, TypeOK
  <2> DEFINE t == [req |-> r, nonce |-> tx[r].nonce]
  <2>1. /\ pool' = [pool EXCEPT ![c] = Append(@, t)]
        /\ pc' = [pc EXCEPT ![r] = "accepted"] /\ UNCHANGED nonceLock
    BY <1>4, <2>0 DEF RawArrives
  <2>2. /\ pc' \in [Requests -> Stages] /\ pc'[r] = "accepted"
        /\ \A q \in Requests : q # r => pc'[q] = pc[q]
    BY <1>1, <2>1 DEF TypeOK, Stages
  <2>3. tx[r] \in [chainId : Chains, nonce : Nat] /\ t.req = r
        /\ t \in [req : Requests, nonce : Nat]
    BY <1>1, <1>2 DEF TypeOK
  <2> HIDE DEF t
  <2>4. /\ pool' \in [Chains -> Seq([req : Requests, nonce : Nat])]
        /\ \A d \in Chains : d # c => pool'[d] = pool[d]
        /\ Len(pool[c]) \in Nat /\ Len(pool'[c]) = Len(pool[c]) + 1
        /\ \A i \in 1 .. Len(pool[c]) : pool'[c][i] = pool[c][i]
        /\ pool'[c][Len(pool[c]) + 1] = t
    <3>1. pool \in [Chains -> Seq([req : Requests, nonce : Nat])]
      BY <1>1 DEF TypeOK
    <3>2. pool'[c] = Append(pool[c], t)
      BY <2>1, <3>1
    <3>3. pool[c] \in Seq([req : Requests, nonce : Nat]) /\ Len(pool[c]) \in Nat
      BY <3>1, LenProperties
    <3>4. /\ Append(pool[c], t) \in Seq([req : Requests, nonce : Nat])
          /\ Len(Append(pool[c], t)) = Len(pool[c]) + 1
          /\ \A i \in 1 .. Len(pool[c]) : Append(pool[c], t)[i] = pool[c][i]
          /\ Append(pool[c], t)[Len(pool[c]) + 1] = t
      BY <2>3, <3>3, AppendProperties
    <3>5. pool' = [d \in Chains |-> IF d = c THEN Append(pool[c], t) ELSE pool[d]]
      BY <2>1, <3>1
    <3> QED BY <3>1, <3>2, <3>3, <3>4, <3>5
  <2>5. TypeOK'
    BY <1>1, <1>2, <2>1, <2>2, <2>3, <2>4 DEF TypeOK, connection, given
  <2>6. CallsInv'
    BY <1>1, <1>2, <2>2 DEF CallsInv
  <2>7. LockInv'
    <3>1. UNCHANGED <<nonceLock, method>>
      BY <1>2, <2>1 DEF given
    <3>2. \A q \in Requests : InSection(q) <=> InSection(q)'
      BY <1>2, <2>2, <3>1 DEF InSection, Sends
    <3>3. \A q \in Requests : pc[q] \in {"waiting", "sending", "accepted"} => Sends(q)
      BY <1>1 DEF LockInv, OnlySends
    <3> QED BY <1>1, <1>2, <2>2, <3>1, <3>2, <3>3, LockKept
  <2>8. \A d \in Chains : \A i \in 1 .. Len(pool'[d]) :
          \/ i \in 1 .. Len(pool[d]) /\ pool'[d][i] = pool[d][i]
          \/ d = c /\ i = Len(pool[c]) + 1 /\ pool'[d][i].req = r
    BY <2>3, <2>4
  <2>9. \A q \in Requests : Posted(q)' <=> q = r \/ Posted(q)
    <3>1. ASSUME NEW q \in Requests, Posted(q)' PROVE q = r \/ Posted(q)
      BY <2>8, <3>1 DEF Posted
    <3>2. ASSUME NEW q \in Requests, Posted(q) PROVE Posted(q)'
      <4>0. PICK d \in Chains : \E i \in 1 .. Len(pool[d]) : pool[d][i].req = q
        BY <3>2 DEF Posted
      <4>1. PICK i \in 1 .. Len(pool[d]) : pool[d][i].req = q
        BY <4>0
      <4>2. i \in 1 .. Len(pool'[d]) /\ pool'[d][i].req = q
        <5>1. CASE d = c
          BY <2>4, <4>1, <5>1
        <5>2. CASE d # c
          BY <2>4, <4>1, <5>2
        <5> QED BY <5>1, <5>2
      <4> QED BY <4>2 DEF Posted
    <3>3. Posted(r)'
      <4>1. Len(pool[c]) + 1 \in 1 .. Len(pool'[c])
        BY <2>4
      <4> QED BY <2>3, <2>4, <4>1 DEF Posted
    <3> QED BY <3>1, <3>2, <3>3
  <2>10. PoolInv'
    BY <1>1, <2>2, <2>9 DEF PoolInv
  <2>11. SentOnce'
    <3>1. \A d \in Chains : \A i \in 1 .. Len(pool[d]) : pool[d][i].req # r
      BY <1>1, <1>2 DEF PoolInv, Posted
    <3>2. ASSUME NEW d \in Chains, NEW e \in Chains,
                 NEW i \in 1 .. Len(pool'[d]), NEW j \in 1 .. Len(pool'[e]),
                 pool'[d][i].req = pool'[e][j].req
          PROVE  d = e /\ i = j
      <4>1. CASE i \in 1 .. Len(pool[d]) /\ j \in 1 .. Len(pool[e])
                 /\ pool'[d][i] = pool[d][i] /\ pool'[e][j] = pool[e][j]
        BY <1>1, <3>2, <4>1 DEF SentOnce
      <4>2. CASE pool'[d][i].req = r
        BY <2>8, <3>1, <3>2, <4>2
      <4> QED BY <2>8, <3>2, <4>1, <4>2
    <3>3. \A q \in Requests : pc'[q] = "ok" /\ Sends(q)' => Posted(q)'
      BY <1>1, <1>2, <2>2, <2>9 DEF SentOnce, Posted, Sends, given
    <3> QED BY <3>2, <3>3 DEF SentOnce, Posted
  <2> QED BY <2>5, <2>6, <2>7, <2>10, <2>11, IInvFrom
<1> QED BY <1>3, <1>4

\* Changes of provider and account, which concern no request in particular.
LEMMA SurroundingsIInv ==
  ASSUME IInv, SetProvider \/ Stop \/ AddOrRemoveAccount PROVE IInv'
<1>1. TypeOK /\ LockInv /\ CallsInv
  BY DEF IInv
<1>2. UNCHANGED <<nonceLock, pc, given, via, tx, asked, outstanding, pool>>
  BY DEF SetProvider, Stop, AddOrRemoveAccount, request
<1>3. /\ provider' \in Providers /\ stopped' \in [Providers -> BOOLEAN]
      /\ hasAccount' \in BOOLEAN
      /\ connChainId' \in Chains \cup {None} /\ normChainId' \in Chains \cup {None}
  <2>1. CASE SetProvider
    <3>1. plan.providers \in 1 .. Len(ChainOf) /\ provider \in 1 .. Len(ChainOf)
      BY <1>1, Constants DEF TypeOK, Providers
    <3>2. provider' = provider + 1 /\ provider < plan.providers
      BY <2>1 DEF SetProvider
    <3>3. provider' \in Providers
      BY <3>1, <3>2, Constants DEF Providers
    <3> QED BY <1>1, <2>1, <3>3 DEF TypeOK, SetProvider
  <2>2. CASE Stop
    BY <1>1, <2>2 DEF TypeOK, Stop
  <2>3. CASE AddOrRemoveAccount
    BY <1>1, <2>3 DEF TypeOK, AddOrRemoveAccount
  <2> QED BY <2>1, <2>2, <2>3
<1>4. TypeOK'
  BY <1>1, <1>2, <1>3 DEF TypeOK, given
<1>5. CallsInv'
  BY <1>1, <1>2 DEF CallsInv
<1>6. \A q \in Requests : InSection(q) <=> InSection(q)'
  BY <1>2 DEF InSection, Sends, given
<1>7. \A q \in Requests : pc[q] \in {"waiting", "sending"} => Sends(q)
  BY <1>1 DEF LockInv, OnlySends
<1> QED BY <1>2, <1>4, <1>5, <1>6, <1>7, QuietIInv

LEMMA StutterIInv == IInv /\ UNCHANGED vars => IInv'
<1> SUFFICES ASSUME IInv, UNCHANGED vars PROVE IInv'
  OBVIOUS
<1>1. UNCHANGED <<provider, connChainId, normChainId, stopped, hasAccount, nonceLock,
                  pc, plan, method, via, tx, asked, outstanding, pool>>
  BY DEF vars, connection, request, given
<1>2. TypeOK'
  BY <1>1 DEF IInv, TypeOK
<1>3. LockInv'
  BY <1>1 DEF IInv, LockInv, NoOrphanedLock, QueuedOnce, SectionHolds, OnlySends,
              InSection, Sends
<1>4. CallsInv' /\ PoolInv' /\ SentOnce'
  BY <1>1 DEF IInv, CallsInv, PoolInv, SentOnce, Posted, Sends
<1> QED BY <1>2, <1>3, <1>4, IInvFrom

LEMMA NextIInv == IInv /\ [Next]_vars => IInv'
<1> SUFFICES ASSUME IInv, [Next]_vars PROVE IInv'
  OBVIOUS
<1>1. ASSUME NEW r \in Requests, Progress(r) PROVE IInv'
  <2>1. CASE ForwardAnswer(r)
    BY <2>1, ForwardAnswerIInv
  <2>2. CASE Populate(r)
    BY <2>2, PopulateIInv
  <2>3. CASE ChainIdAnswer(r) \/ NonceAnswer(r) \/ FeesAnswer(r)
    BY <2>3, AnswerIInv
  <2>4. CASE CallFails(r)
    BY <2>4, CallFailsIInv
  <2>5. CASE Sign(r)
    BY <2>5, SignIInv
  <2>6. CASE SignFails(r) \/ RawLost(r)
    BY <2>6, SettleOnlyIInv DEF SignFails, RawLost, request
  <2>7. CASE RawArrives(r)
    BY <2>7, RawArrivesIInv
  <2>8. CASE RawAnswer(r)
    BY <2>8, SettleOnlyIInv DEF RawAnswer, request
  <2> QED BY <1>1, <2>1, <2>2, <2>3, <2>4, <2>5, <2>6, <2>7, <2>8 DEF Progress
<1>2. ASSUME NEW r \in Requests, NEW i \in plan.inputs, Send(r, i) PROVE IInv'
  BY <1>2, SendIInv
<1>3. CASE SetProvider \/ Stop \/ AddOrRemoveAccount
  BY <1>3, SurroundingsIInv
<1>4. CASE UNCHANGED vars
  BY <1>4, StutterIInv
<1> QED BY <1>1, <1>2, <1>3, <1>4 DEF Next

LEMMA AlwaysIInv == Spec => []IInv
  BY InitIInv, NextIInv, PTL DEF Spec

\* The variables of the pipeline keep their types, and what is sent to a node is
\* complete: its chain id and its nonce are known.
THEOREM TypeCorrect == Spec => []TypeOK
<1>1. IInv => TypeOK
  BY DEF IInv
<1> QED BY <1>1, AlwaysIInv, PTL

\* Whatever fails on the way, a nonce lock is held by a send in progress that was
\* given to its provider, and nobody waits for a lock that is free.
THEOREM LocksComeBack == Spec => []NoOrphanedLock
<1>1. IInv => NoOrphanedLock
  BY DEF IInv, LockInv
<1> QED BY <1>1, AlwaysIInv, PTL

\* No transaction is in two places of the pools, and a caller who is told that it
\* was sent has it in one.
THEOREM TransactionsSentOnce == Spec => []SentOnce
<1>1. IInv => SentOnce
  BY DEF IInv
<1> QED BY <1>1, AlwaysIInv, PTL

-----------------------------------------------------------------------------
(* The refinement.  With one provider and the nonces left to it, the node's *)
(* pool has consecutive nonces, and the nonce that was read under the lock  *)
(* stays the next one until the transaction is there.                       *)

C1 == ChainOf[1]

LedgerInv ==
  Alone => /\ provider = 1
           /\ \A r \in Requests : via[r] = 1 /\ asked[r] = 1
           /\ \A i \in 1 .. Len(pool[C1]) : pool[C1][i].nonce = i - 1
           /\ \A c \in Chains : c # C1 => Len(pool[c]) = 0
           /\ \A r \in Requests :
                /\ pc[r] \in {"new", "waiting", "granted"} => tx[r].nonce = None
                /\ Sends(r) /\ pc[r] \in {"filling", "sending"} /\ tx[r].nonce # None
                     => tx[r].nonce = Len(pool[C1])

\* The node of the only provider answers with the length of its pool.
LEMMA NextNonce ==
  ASSUME IInv, LedgerInv, Alone
  PROVE  PendingNonce(C1) = Len(pool[C1])
<1>1. C1 \in Chains
  BY Constants DEF C1
<1>2. pool[C1] \in Seq([req : Requests, nonce : Nat]) /\ Len(pool[C1]) \in Nat
  BY <1>1, LenProperties DEF IInv, TypeOK
<1>3. \A i \in 1 .. Len(pool[C1]) : pool[C1][i].nonce = i - 1
  BY DEF LedgerInv
<1> DEFINE n == Len(pool[C1])
           k == PendingNonce(C1)
<1>4. PICK c \in Chains : c = C1
  BY <1>1
<1>5. k \in 0 .. n /\ k \notin NoncesIn(C1)
  BY <1>2, <1>4, PendingNonceFacts
<1>6. ASSUME k < n PROVE FALSE
  <2>1. k + 1 \in 1 .. Len(pool[C1])
    BY <1>2, <1>5, <1>6
  <2>2. pool[C1][k + 1].nonce = k
    BY <1>3, <1>5, <2>1
  <2>3. pool[C1][k + 1].nonce \in NoncesIn(C1)
    BY <2>1 DEF NoncesIn
  <2> QED BY <1>5, <2>2, <2>3
<1> QED BY <1>2, <1>5, <1>6

\* Two sends are never in the section of the only provider together.
LEMMA OneInSection ==
  ASSUME IInv, LedgerInv, Alone, NEW q \in Requests, NEW r \in Requests,
         InSection(q), InSection(r)
  PROVE  q = r
  BY DEF IInv, LockInv, SectionHolds, LedgerInv

LEMMA InitLedgerInv == Init => LedgerInv
<1> SUFFICES ASSUME Init PROVE LedgerInv
  OBVIOUS
<1>1. C1 \in Chains
  BY Constants DEF C1
<1>2. Len(pool[C1]) = 0
  BY <1>1 DEF Init
<1>3. \A r \in Requests : pc[r] = "new" /\ tx[r].nonce = None /\ via[r] = 1 /\ asked[r] = 1
  BY DEF Init
<1>4. \A c \in Chains : Len(pool[c]) = 0
  BY DEF Init
<1> QED BY <1>2, <1>3, <1>4 DEF Init, LedgerInv

\* Steps that post nothing and give nobody a nonce.
LEMMA LedgerInvKept ==
  ASSUME IInv, LedgerInv, UNCHANGED <<given, pool>>,
         Alone => /\ provider' = 1
                  /\ \A q \in Requests : via'[q] = 1 /\ asked'[q] = 1,
         \A q \in Requests :
           /\ pc'[q] \in {"new", "waiting", "granted"} =>
                \/ Alone => tx'[q].nonce = None
                \/ pc[q] \in {"new", "waiting", "granted"} /\ tx'[q].nonce = tx[q].nonce
           /\ Sends(q) /\ pc'[q] \in {"filling", "sending"} =>
                \/ Alone => tx'[q].nonce = None
                \/ pc[q] \in {"filling", "sending"} /\ tx'[q].nonce = tx[q].nonce
  PROVE  LedgerInv'
<1>1. (Alone' <=> Alone) /\ \A q \in Requests : Sends(q)' <=> Sends(q)
  BY DEF Alone, Sends, given
<1> QED BY <1>1 DEF LedgerInv

\* What settling a request does to the stages of the others.
LEMMA SettleStages ==
  ASSUME IInv, NEW r \in Requests, NEW outcome \in {"ok", "failed"},
         Settle(r, outcome), pc[r] \in {"filling", "sending", "accepted"},
         UNCHANGED <<method, via>>
  PROVE  /\ pc'[r] = outcome
         /\ \A q \in Requests : q # r => \/ pc'[q] = pc[q]
                                         \/ pc[q] = "waiting" /\ pc'[q] = "granted"
<1>1. TypeOK /\ LockInv /\ (Sends(r) => InSection(r))
  BY DEF IInv, InSection
<1> QED BY <1>1, SettleKeeps

LEMMA SettleLedgerInv ==
  ASSUME IInv, LedgerInv, NEW r \in Requests, NEW outcome \in {"ok", "failed"},
         Settle(r, outcome), pc[r] \in {"filling", "sending", "accepted"},
         UNCHANGED <<connection, given, via, tx, asked, pool>>
  PROVE  LedgerInv'
<1>1. /\ pc'[r] = outcome
      /\ \A q \in Requests : q # r => \/ pc'[q] = pc[q]
                                      \/ pc[q] = "waiting" /\ pc'[q] = "granted"
  BY SettleStages DEF given
<1>2. Alone => /\ provider' = 1
               /\ \A q \in Requests : via'[q] = 1 /\ asked'[q] = 1
  BY DEF LedgerInv, connection
<1> QED BY <1>1, <1>2, LedgerInvKept

LEMMA NextLedgerInv == IInv /\ LedgerInv /\ [Next]_vars => LedgerInv'
<1> SUFFICES ASSUME IInv, LedgerInv, [Next]_vars PROVE LedgerInv'
  OBVIOUS
<1>0. TypeOK /\ LockInv /\ CallsInv
  BY DEF IInv
<1>1. ASSUME NEW r \in Requests, NEW i \in plan.inputs, Send(r, i) PROVE LedgerInv'
  <2>1. /\ pc[r] = "new" /\ via' = [via EXCEPT ![r] = provider]
        /\ tx' = [tx EXCEPT ![r] = i] /\ UNCHANGED <<connection, given, pool>>
    BY <1>1 DEF Send
  <2>2. /\ asked' = asked \/ asked' = [asked EXCEPT ![r] = provider]
        /\ \A q \in Requests : q # r => pc'[q] = pc[q]
        /\ pc'[r] \notin {"filling", "sending"}
    BY <1>0, <1>1 DEF Send, EnterLocked, TypeOK
  <2>3. Alone => i.nonce = None
    BY DEF Alone
  <2>4. tx'[r] = i /\ \A q \in Requests : q # r => tx'[q] = tx[q]
    BY <1>0, <2>1 DEF TypeOK
  <2>5. Alone => /\ provider' = 1
                 /\ \A q \in Requests : via'[q] = 1 /\ asked'[q] = 1
    BY <1>0, <2>1, <2>2 DEF LedgerInv, connection, TypeOK
  <2> QED BY <2>1, <2>2, <2>3, <2>4, <2>5, LedgerInvKept
<1>2. ASSUME NEW r \in Requests, ForwardAnswer(r) PROVE LedgerInv'
  <2>1. /\ pc' = [pc EXCEPT ![r] = "failed"]
        /\ UNCHANGED <<connection, given, via, tx, asked, pool>>
    BY <1>2 DEF ForwardAnswer, request
  <2>2. \A q \in Requests : pc'[q] = pc[q] \/ pc'[q] = "failed"
    BY <1>0, <2>1 DEF TypeOK
  <2>3. Alone => /\ provider' = 1
                 /\ \A q \in Requests : via'[q] = 1 /\ asked'[q] = 1
    BY <2>1 DEF LedgerInv, connection
  <2> QED BY <2>1, <2>2, <2>3, LedgerInvKept
<1>3. ASSUME NEW r \in Requests, Populate(r) PROVE LedgerInv'
  <2>1. /\ pc[r] = "granted" /\ pc' = [pc EXCEPT ![r] = "filling"]
        /\ asked' = [asked EXCEPT ![r] = provider]
        /\ tx' = [tx EXCEPT ![r].chainId = KnownChainId(r)]
        /\ UNCHANGED <<provider, given, via, pool>>
    BY <1>3 DEF Populate
  <2>2. \A q \in Requests : pc'[q] = IF q = r THEN "filling" ELSE pc[q]
    BY <1>0, <2>1 DEF TypeOK
  <2>3. \A q \in Requests : tx'[q].nonce = tx[q].nonce
    <3>1. tx \in [Requests -> [chainId : Chains \cup {None}, nonce : Nat \cup {None}]]
      BY <1>0 DEF TypeOK
    <3> QED BY <2>1, <3>1
  <2>4. Alone => /\ provider' = 1
                 /\ \A q \in Requests : via'[q] = 1 /\ asked'[q] = 1
    BY <1>0, <2>1 DEF LedgerInv, TypeOK
  <2>5. Alone => tx[r].nonce = None
    BY <2>1 DEF LedgerInv
  <2> QED BY <2>1, <2>2, <2>3, <2>4, <2>5, LedgerInvKept
<1>4. ASSUME NEW r \in Requests, ChainIdAnswer(r) \/ FeesAnswer(r) PROVE LedgerInv'
  <2>1. UNCHANGED <<provider, pc, given, via, asked, pool>>
    BY <1>4 DEF ChainIdAnswer, FeesAnswer, connection
  <2>2. \A q \in Requests : tx'[q].nonce = tx[q].nonce
    <3>1. tx \in [Requests -> [chainId : Chains \cup {None}, nonce : Nat \cup {None}]]
      BY <1>0 DEF TypeOK
    <3>2. CASE ChainIdAnswer(r)
      <4>1. tx' = [tx EXCEPT ![r].chainId = NodeOf(r)]
        BY <3>2 DEF ChainIdAnswer
      <4> QED BY <3>1, <4>1
    <3>3. CASE FeesAnswer(r)
      BY <3>3 DEF FeesAnswer
    <3> QED BY <1>4, <3>2, <3>3
  <2>3. Alone => /\ provider' = 1
                 /\ \A q \in Requests : via'[q] = 1 /\ asked'[q] = 1
    BY <2>1 DEF LedgerInv
  <2> QED BY <2>1, <2>2, <2>3, LedgerInvKept
<1>5. ASSUME NEW r \in Requests, NonceAnswer(r) PROVE LedgerInv'
  <2>1. /\ tx' = [tx EXCEPT ![r].nonce = PendingNonce(NodeOf(r))]
        /\ "nonce" \in outstanding[r]
        /\ UNCHANGED <<provider, pc, given, via, asked, pool>>
    BY <1>5 DEF NonceAnswer, Answered, connection
  <2>2. pc[r] \notin {"new", "waiting", "granted"}
    BY <1>0, <2>1 DEF CallsInv
  <2>3. /\ tx'[r].nonce = PendingNonce(NodeOf(r))
        /\ \A q \in Requests : q # r => tx'[q].nonce = tx[q].nonce
    <3>1. tx \in [Requests -> [chainId : Chains \cup {None}, nonce : Nat \cup {None}]]
      BY <1>0 DEF TypeOK
    <3> QED BY <2>1, <3>1
  <2>4. Alone => tx'[r].nonce = Len(pool[C1])
    <3>1. Alone => NodeOf(r) = C1
      BY DEF LedgerInv, NodeOf, C1
    <3> QED BY <2>3, <3>1, NextNonce
  <2>5. (Alone' <=> Alone) /\ \A q \in Requests : Sends(q)' <=> Sends(q)
    BY <2>1 DEF Alone, Sends, given
  <2> QED BY <2>1, <2>2, <2>3, <2>4, <2>5 DEF LedgerInv
<1>6. ASSUME NEW r \in Requests, CallFails(r) PROVE LedgerInv'
  <2>1. UNCHANGED <<connection, given, via, tx, asked, pool>>
    BY <1>6 DEF CallFails
  <2>2. CASE pc[r] = "filling"
    BY <1>6, <2>1, <2>2, SettleLedgerInv DEF CallFails
  <2>3. CASE pc[r] # "filling"
    <3>1. UNCHANGED pc
      BY <1>6, <2>3 DEF CallFails
    <3>2. Alone => /\ provider' = 1
                   /\ \A q \in Requests : via'[q] = 1 /\ asked'[q] = 1
      BY <2>1 DEF LedgerInv, connection
    <3> QED BY <2>1, <3>1, <3>2, LedgerInvKept
  <2> QED BY <2>2, <2>3
<1>7. ASSUME NEW r \in Requests, Sign(r) PROVE LedgerInv'
  <2>1. pc[r] = "filling" /\ UNCHANGED <<connection, given, via, tx, pool>>
    BY <1>7 DEF Sign
  <2>2. CASE ~Sends(r)
    BY <1>7, <2>1, <2>2, SettleLedgerInv DEF Sign
  <2>3. CASE Sends(r)
    <3>1. pc' = [pc EXCEPT ![r] = "sending"] /\ asked' = [asked EXCEPT ![r] = provider]
      BY <1>7, <2>3 DEF Sign
    <3>2. \A q \in Requests : pc'[q] = IF q = r THEN "sending" ELSE pc[q]
      BY <1>0, <3>1 DEF TypeOK
    <3>3. Alone => /\ provider' = 1
                   /\ \A q \in Requests : via'[q] = 1 /\ asked'[q] = 1
      BY <1>0, <2>1, <3>1 DEF LedgerInv, connection, TypeOK
    <3> QED BY <2>1, <3>2, <3>3, LedgerInvKept
  <2> QED BY <2>2, <2>3
<1>8. ASSUME NEW r \in Requests, SignFails(r) \/ RawLost(r) \/ RawAnswer(r) PROVE LedgerInv'
  <2>1. PICK outcome \in {"ok", "failed"} : Settle(r, outcome)
    BY <1>8 DEF SignFails, RawLost, RawAnswer
  <2>2. /\ pc[r] \in {"filling", "sending", "accepted"}
        /\ UNCHANGED <<connection, given, via, tx, asked, pool>>
    BY <1>8 DEF SignFails, RawLost, RawAnswer, request
  <2> QED BY <2>1, <2>2, SettleLedgerInv
<1>9. ASSUME NEW r \in Requests, RawArrives(r) PROVE LedgerInv'
  <2>1. pc[r] = "sending" /\ UNCHANGED <<connection, given, via, tx, asked>>
    BY <1>9 DEF RawArrives, request
  <2>2. CASE ~Takes(NodeOf(r), tx[r])
    BY <1>9, <2>1, <2>2, SettleLedgerInv DEF RawArrives
  <2>3. CASE Takes(NodeOf(r), tx[r])
    <3> SUFFICES ASSUME Alone PROVE LedgerInv'
      <4>1. Alone' <=> Alone
        BY <2>1 DEF Alone, given
      <4> QED BY <4>1 DEF LedgerInv
    <3>1. NodeOf(r) = C1 /\ C1 \in Chains
      BY Constants DEF LedgerInv, NodeOf, C1
    <3>2. /\ pool' = [pool EXCEPT ![C1] = Append(@, [req |-> r, nonce |-> tx[r].nonce])]
          /\ pc' = [pc EXCEPT ![r] = "accepted"]
      BY <1>9, <2>3, <3>1 DEF RawArrives
    <3>3. InSection(r) /\ Sends(r)
      BY <1>0, <2>1 DEF LockInv, OnlySends, InSection
    <3>4. tx[r] \in [chainId : Chains, nonce : Nat]
      BY <1>0, <2>1 DEF TypeOK
    <3>5. tx[r].nonce = Len(pool[C1])
      BY <2>1, <3>3, <3>4, Constants DEF LedgerInv
    <3> DEFINE t == [req |-> r, nonce |-> tx[r].nonce]
    <3>6. t \in [req : Requests, nonce : Nat] /\ t.nonce = Len(pool[C1])
      BY <3>4, <3>5
    <3> HIDE DEF t
    <3>7. pool[C1] \in Seq([req : Requests, nonce : Nat]) /\ pool'[C1] = Append(pool[C1], t)
      BY <1>0, <3>1, <3>2 DEF TypeOK, t
    <3>8. /\ Len(pool[C1]) \in Nat /\ Len(pool'[C1]) = Len(pool[C1]) + 1
          /\ \A i \in 1 .. Len(pool[C1]) : pool'[C1][i] = pool[C1][i]
          /\ pool'[C1][Len(pool[C1]) + 1] = t
      BY <3>6, <3>7, AppendProperties, LenProperties
    <3>9. \A i \in 1 .. Len(pool'[C1]) : pool'[C1][i].nonce = i - 1
      <4> SUFFICES ASSUME NEW i \in 1 .. Len(pool'[C1]) PROVE pool'[C1][i].nonce = i - 1
        OBVIOUS
      <4>1. CASE i \in 1 .. Len(pool[C1])
        BY <3>8, <4>1 DEF LedgerInv
      <4>2. CASE i = Len(pool[C1]) + 1
        BY <3>6, <3>8, <4>2
      <4> QED BY <3>8, <4>1, <4>2
    <3>10. \A q \in Requests : pc'[q] = IF q = r THEN "accepted" ELSE pc[q]
      BY <1>0, <3>2 DEF TypeOK
    <3>11. \A q \in Requests : ~(Sends(q)' /\ pc'[q] \in {"filling", "sending"})
      <4> SUFFICES ASSUME NEW q \in Requests, Sends(q), pc[q] \in {"filling", "sending"}, q # r
                   PROVE  FALSE
        BY <2>1, <3>10 DEF Sends, given
      <4>1. InSection(q)
        BY DEF InSection
      <4> QED BY <3>3, <4>1, OneInSection
    <3>12. \A c \in Chains : c # C1 => Len(pool'[c]) = 0
      <4>1. \A c \in Chains : c # C1 => pool'[c] = pool[c]
        BY <1>0, <3>2 DEF TypeOK
      <4> QED BY <4>1 DEF LedgerInv
    <3>13. C1' = C1
      BY DEF C1
    <3> QED BY <2>1, <3>9, <3>10, <3>11, <3>12, <3>13 DEF LedgerInv, connection
  <2> QED BY <2>2, <2>3
<1>10. ASSUME SetProvider \/ Stop \/ AddOrRemoveAccount PROVE LedgerInv'
  <2>1. UNCHANGED <<pc, given, via, tx, asked, pool>>
    BY <1>10 DEF SetProvider, Stop, AddOrRemoveAccount, request
  <2>2. Alone => /\ provider' = 1
                 /\ \A q \in Requests : via'[q] = 1 /\ asked'[q] = 1
    BY <1>10, <2>1 DEF LedgerInv, Alone, SetProvider, Stop, AddOrRemoveAccount
  <2> QED BY <2>1, <2>2, LedgerInvKept
<1>11. CASE UNCHANGED vars
  <2>1. UNCHANGED <<provider, pc, given, via, tx, asked, pool>>
    BY <1>11 DEF vars, connection, request
  <2> QED BY <2>1, LedgerInvKept DEF LedgerInv
<1> QED BY <1>1, <1>2, <1>3, <1>4, <1>5, <1>6, <1>7, <1>8, <1>9, <1>10, <1>11
        DEF Next, Progress

LEMMA AlwaysLedgerInv == Spec => [](IInv /\ LedgerInv)
  BY InitIInv, NextIInv, InitLedgerInv, NextLedgerInv, PTL DEF Spec

-----------------------------------------------------------------------------
\* To append to the second of two sequences is to append to both together.
LEMMA ConcatAppend ==
  ASSUME NEW S, NEW s \in Seq(S), NEW t \in Seq(S), NEW e \in S
  PROVE  s \o Append(t, e) = Append(s \o t, e)
<1>0. <<e>> \in Seq(S)
  OBVIOUS
<1>1. PICK u \in Seq(S) : u = <<e>>
  BY <1>0, Zenon
<1>2. Append(t, e) = t \o u
  BY <1>1, AppendIsConcat
<1>3. PICK v \in Seq(S) : v = s \o t
  BY ConcatProperties
<1>4. Append(v, e) = v \o u
  BY <1>1, AppendIsConcat
<1>5. v \o u = s \o (t \o u)
  BY <1>3, ConcatAssociative
<1> QED BY <1>2, <1>3, <1>4, <1>5

\* acquire() appends to the line of a lock, and release() takes its head away.
LEMMA LineAcquired ==
  ASSUME NEW m \in Mutexes, NEW r \in Requests, m.holder = None => m.queue = <<>>
  PROVE  Line(Acquired(m, r)) = Append(Line(m), r)
<1>1. m.queue \in Seq(Requests) /\ m.holder \in Requests \cup {None} /\ r # None
  BY Constants DEF Mutexes
<1>2. CASE m.holder = None
  <2>1. Acquired(m, r) = [holder |-> r, queue |-> <<>>]
    BY <1>2, AcquiredFacts
  <2>2. Line(Acquired(m, r)) = <<r>> \o <<>>
    BY <1>1, <2>1 DEF Line
  <2>3. <<r>> \in Seq(Requests) /\ Append(<<>>, r) = <<r>>
    OBVIOUS
  <2> QED BY <1>2, <2>2, <2>3, ConcatEmptySeq DEF Line
<1>3. CASE m.holder # None
  <2> DEFINE h == <<m.holder>>
  <2>1. Acquired(m, r) = [holder |-> m.holder, queue |-> Append(m.queue, r)]
    BY <1>3 DEF Acquired
  <2>2. Line(Acquired(m, r)) = h \o Append(m.queue, r) /\ Line(m) = h \o m.queue
    BY <1>3, <2>1 DEF Line
  <2>3. h \in Seq(Requests)
    BY <1>1, <1>3
  <2> HIDE DEF h
  <2>4. h \o Append(m.queue, r) = Append(h \o m.queue, r)
    BY <1>1, <2>3, ConcatAppend
  <2> QED BY <2>2, <2>4
<1> QED BY <1>2, <1>3

LEMMA ConsFacts ==
  ASSUME NEW S, NEW e \in S, NEW s \in Seq(S)
  PROVE  <<e>> \o s # <<>> /\ Head(<<e>> \o s) = e /\ Tail(<<e>> \o s) = s
<1>1. <<e>> \in Seq(S) /\ Len(<<e>>) = 1 /\ <<e>>[1] = e
  OBVIOUS
<1>2. /\ <<e>> \o s \in Seq(S) /\ Len(<<e>> \o s) = 1 + Len(s) /\ Len(s) \in Nat
      /\ \A i \in 1 .. 1 + Len(s) :
           (<<e>> \o s)[i] = IF i <= 1 THEN <<e>>[i] ELSE s[i - 1]
  BY <1>1, ConcatProperties, LenProperties
<1> DEFINE t == <<e>> \o s
<1>3. t \in Seq(S) /\ Len(t) = 1 + Len(s) /\ t[1] = e
      /\ \A i \in 1 .. Len(s) : t[i + 1] = s[i]
  BY <1>1, <1>2
<1> HIDE DEF t
<1>4. t # <<>>
  BY <1>2, <1>3, EmptySeq
<1>5. Head(t) = e
  BY <1>3, <1>4
<1>6. Tail(t) \in Seq(S) /\ Len(Tail(t)) = Len(s) /\ \A i \in 1 .. Len(s) : Tail(t)[i] = s[i]
  BY <1>2, <1>3, <1>4, HeadTailProperties
<1>7. Tail(t) = s
  BY <1>6, SeqEqual
<1> QED BY <1>4, <1>5, <1>7 DEF t

LEMMA LineReleased ==
  ASSUME NEW m \in Mutexes, m.holder # None
  PROVE  /\ Line(m) # <<>> /\ Head(Line(m)) = m.holder
         /\ Line(Released(m)) = Tail(Line(m))
<1>1. m.queue \in Seq(Requests) /\ m.holder \in Requests
  BY DEF Mutexes
<1>2. Line(m) = <<m.holder>> \o m.queue
  BY DEF Line
<1>3. Line(m) # <<>> /\ Head(Line(m)) = m.holder /\ Tail(Line(m)) = m.queue
  BY <1>1, <1>2, ConsFacts
<1>4. CASE m.queue = <<>>
  <2>1. Line(Released(m)) = <<>>
    BY <1>4, ReleasedFacts DEF Line
  <2> QED BY <1>3, <1>4, <2>1
<1>5. CASE m.queue # <<>>
  <2>1. Head(m.queue) \in Requests /\ Tail(m.queue) \in Seq(Requests)
    BY <1>1, <1>5, HeadTailProperties
  <2>2. Line(Released(m)) = <<Head(m.queue)>> \o Tail(m.queue)
    BY <1>5, <2>1, Constants DEF Released, Line
  <2>3. m.queue = <<Head(m.queue)>> \o Tail(m.queue)
    <3> DEFINE u == <<Head(m.queue)>>
               v == u \o Tail(m.queue)
    <3>1. u \in Seq(Requests) /\ Len(u) = 1 /\ u[1] = m.queue[1]
      BY <1>1, <1>5, <2>1
    <3>2. /\ Len(m.queue) \in Nat \ {0} /\ Len(Tail(m.queue)) = Len(m.queue) - 1
          /\ \A i \in 1 .. Len(Tail(m.queue)) : Tail(m.queue)[i] = m.queue[i + 1]
      BY <1>1, <1>5, EmptySeq, HeadTailProperties
    <3>3. /\ v \in Seq(Requests) /\ Len(v) = Len(u) + Len(Tail(m.queue))
          /\ \A i \in 1 .. Len(u) + Len(Tail(m.queue)) :
               v[i] = IF i <= Len(u) THEN u[i] ELSE Tail(m.queue)[i - Len(u)]
      <4> HIDE DEF u
      <4> QED BY <2>1, <3>1, ConcatProperties
    <3> HIDE DEF u, v
    <3>4. Len(v) = Len(m.queue)
      BY <3>1, <3>2, <3>3
    <3>5. \A i \in 1 .. Len(m.queue) : v[i] = m.queue[i]
      <4> SUFFICES ASSUME NEW i \in 1 .. Len(m.queue) PROVE v[i] = m.queue[i]
        OBVIOUS
      <4>1. CASE i = 1
        BY <3>1, <3>2, <3>3, <4>1
      <4>2. CASE i # 1
        <5>1. i - 1 \in 1 .. Len(Tail(m.queue)) /\ (i - 1) + 1 = i /\ ~(i <= 1)
          BY <3>2, <4>2
        <5>2. v[i] = Tail(m.queue)[i - 1]
          BY <3>1, <3>2, <3>3, <5>1
        <5> QED BY <3>2, <5>1, <5>2
      <4> QED BY <4>1, <4>2
    <3>6. v = m.queue
      BY <1>1, <3>3, <3>4, <3>5, SeqEqual
    <3> QED BY <3>6 DEF u, v
  <2> QED BY <1>3, <2>2, <2>3
<1> QED BY <1>4, <1>5

\* A step that leaves the lock, the pool and what each caller knows alone is a
\* stutter of the ledger, and so is every step with other plans.
LEMMA SameView ==
  ASSUME UNCHANGED given, nonceLock'[1] = nonceLock[1], pool'[C1] = pool[C1],
         \A q \in Requests : Alone => Status(q)' = Status(q)
  PROVE  UNCHANGED L!vars
<1>1. Alone' <=> Alone
  BY DEF Alone, given
<1>2. UNCHANGED (IF Alone THEN Line(nonceLock[1]) ELSE <<>>)
  BY <1>1 DEF Line
<1>3. UNCHANGED (IF Alone THEN pool[ChainOf[1]] ELSE <<>>)
  BY <1>1 DEF C1
<1>4. UNCHANGED [r \in Requests |-> IF Alone THEN Status(r) ELSE "new"]
  BY <1>1
<1> QED BY <1>2, <1>3, <1>4 DEF L!vars

\* Each caller knows as much as before, except r.
LEMMA StatusBut ==
  ASSUME Alone, Alone', NEW r \in Requests, NEW v, Status(r)' = v,
         \A q \in Requests : q # r => Status(q)' = Status(q)
  PROVE  [q \in Requests |-> IF Alone THEN Status(q) ELSE "new"]' =
         [[q \in Requests |-> IF Alone THEN Status(q) ELSE "new"] EXCEPT ![r] = v]
  OBVIOUS

\* Settling a send takes it out of the line and tells its caller the outcome.
LEMMA SettleRefines ==
  ASSUME IInv, LedgerInv, NEW r \in Requests, NEW outcome \in {"ok", "failed"},
         Settle(r, outcome), pc[r] \in {"filling", "sending", "accepted"},
         outcome = "ok" /\ Sends(r) => pc[r] = "accepted",
         UNCHANGED <<given, via, pool>>
  PROVE  [L!Next]_(L!vars)
<1>1. /\ pc'[r] = outcome
      /\ \A q \in Requests : q # r => \/ pc'[q] = pc[q]
                                      \/ pc[q] = "waiting" /\ pc'[q] = "granted"
  BY SettleStages DEF given
<1>2. (Alone' <=> Alone) /\ \A q \in Requests : Sends(q)' <=> Sends(q)
  BY DEF Alone, Sends, given
<1>3. \A q \in Requests : q # r => Status(q)' = Status(q)
  BY <1>1, <1>2 DEF Status, Settled
<1>4. CASE ~Sends(r) \/ ~Alone
  <2>1. CASE ~Sends(r)
    <3>1. UNCHANGED nonceLock
      BY <2>1 DEF Settle
    <3>2. Status(r)' = Status(r)
      BY <1>2, <2>1 DEF Status
    <3> QED BY <1>3, <3>1, <3>2, SameView
  <2>2. CASE ~Alone
    BY <1>2, <2>2 DEF L!vars
  <2> QED BY <1>4, <2>1, <2>2
<1>5. CASE Sends(r) /\ Alone
  <2> DEFINE m == nonceLock[1]
  <2>1. m.holder = r /\ via[r] = 1
    <3>1. InSection(r)
      BY <1>5 DEF InSection
    <3> QED BY <1>5, <3>1 DEF IInv, LockInv, SectionHolds, LedgerInv
  <2>2. m \in Mutexes /\ 1 \in Providers /\ nonceLock \in [Providers -> Mutexes]
    BY LockTypes, Constants DEF IInv
  <2>3. nonceLock'[1] = Released(m)
    BY <1>5, <2>1, <2>2 DEF Settle
  <2>4. r # None
    BY Constants
  <2> HIDE DEF m
  <2>5. Line(m) # <<>> /\ Head(Line(m)) = r /\ Line(Released(m)) = Tail(Line(m))
    BY <2>1, <2>2, <2>4, LineReleased
  <2>6. Status(r)' = outcome
    BY <1>1, <1>2, <1>5 DEF Status, Settled
  <2>7. [q \in Requests |-> IF Alone THEN Status(q) ELSE "new"]' =
        [[q \in Requests |-> IF Alone THEN Status(q) ELSE "new"] EXCEPT ![r] = outcome]
    BY <1>2, <1>3, <1>5, <2>6, StatusBut
  <2>8. L!First(r)
    BY <1>5, <2>5 DEF L!First, m
  <2>9. outcome = "ok" => L!Posted(r)
    <3> SUFFICES ASSUME outcome = "ok" PROVE \E i \in 1 .. Len(pool[C1]) : pool[C1][i].req = r
      BY <1>5 DEF L!Posted, C1
    <3>1. PICK c \in Chains : \E i \in 1 .. Len(pool[c]) : pool[c][i].req = r
      BY <1>5 DEF IInv, PoolInv, Posted
    <3>2. c = C1
      <4>1. Len(pool[c]) # 0
        BY <3>1
      <4> QED BY <1>5, <4>1 DEF LedgerInv
    <3> QED BY <3>1, <3>2
  <2>10. L!Finish(r, outcome)
    <3>1. (IF Alone THEN Line(nonceLock[1]) ELSE <<>>)' =
            Tail(IF Alone THEN Line(nonceLock[1]) ELSE <<>>)
      BY <1>2, <1>5, <2>3, <2>5 DEF m, Line
    <3>2. (IF Alone THEN pool[ChainOf[1]] ELSE <<>>)' = IF Alone THEN pool[ChainOf[1]] ELSE <<>>
      BY <1>2
    <3> QED BY <2>7, <2>8, <2>9, <3>1, <3>2 DEF L!Finish
  <2> QED BY <2>10 DEF L!Next
<1> QED BY <1>4, <1>5

LEMMA SendRefines ==
  ASSUME IInv, LedgerInv, NEW r \in Requests, NEW i \in plan.inputs, Send(r, i)
  PROVE  [L!Next]_(L!vars)
<1>0. TypeOK /\ LockInv
  BY DEF IInv
<1>1. /\ pc[r] = "new" /\ UNCHANGED <<given, pool>>
      /\ \A q \in Requests : q # r => pc'[q] = pc[q]
  BY <1>0 DEF Send, EnterLocked, TypeOK
<1>2. (Alone' <=> Alone) /\ \A q \in Requests : Sends(q)' <=> Sends(q)
  BY <1>1 DEF Alone, Sends, given
<1>3. \A q \in Requests : q # r => Status(q)' = Status(q)
  BY <1>1, <1>2 DEF Status, Settled
<1>4. Status(r) = "new"
  BY <1>1 DEF Status
<1> DEFINE line == IF Alone THEN Line(nonceLock[1]) ELSE <<>>
           ledger == IF Alone THEN pool[ChainOf[1]] ELSE <<>>
           status == [q \in Requests |-> IF Alone THEN Status(q) ELSE "new"]
<1>5. ledger' = ledger
  BY <1>1, <1>2
<1>6. status[r] = "new"
  BY <1>4
<1>7. CASE ~Alone
  BY <1>2, <1>7 DEF L!vars
<1>8. CASE ~Sends(r)
  <2>1. Status(r)' = Status(r) /\ UNCHANGED nonceLock
    BY <1>2, <1>8 DEF Status, Send
  <2> QED BY <1>1, <1>3, <2>1, SameView
<1>9. CASE pc'[r] = "failed" /\ UNCHANGED nonceLock /\ Sends(r) /\ Alone
  <2>1. Status(r)' = "failed"
    BY <1>2, <1>9 DEF Status, Settled
  <2>2. status' = [status EXCEPT ![r] = "failed"]
    BY <1>2, <1>3, <1>9, <2>1, StatusBut
  <2>3. line' = line
    BY <1>2, <1>9 DEF Line
  <2>4. L!Refuse(r)
    BY <1>5, <1>6, <2>2, <2>3 DEF L!Refuse
  <2> QED BY <2>4 DEF L!Next
<1>10. CASE pc'[r] = "forwarded" /\ UNCHANGED nonceLock
  <2>1. Status(r)' = Status(r)
    BY <1>4, <1>10 DEF Status
  <2> QED BY <1>1, <1>3, <1>10, <2>1, SameView
<1>11. CASE Sends(r) /\ EnterLocked(r) /\ Alone
  <2> DEFINE m == nonceLock[1]
  <2>1. provider = 1 /\ 1 \in Providers /\ m \in Mutexes /\ nonceLock \in [Providers -> Mutexes]
    BY <1>0, <1>11, LockTypes, Constants DEF LedgerInv
  <2>2. m.holder = None => m.queue = <<>>
    BY <1>0, <2>1, LockOf
  <2>3. nonceLock'[1] = Acquired(m, r)
    BY <1>11, <2>1 DEF EnterLocked
  <2>4. pc'[r] \in {"granted", "waiting"}
    BY <1>0, <1>11 DEF EnterLocked, TypeOK
  <2> HIDE DEF m
  <2>5. Line(nonceLock'[1]) = Append(Line(m), r)
    BY <2>1, <2>2, <2>3, LineAcquired
  <2>6. line' = Append(line, r)
    BY <1>2, <1>11, <2>5 DEF m, Line
  <2>7. Status(r)' = "pending"
    BY <1>2, <1>11, <2>4 DEF Status, Settled
  <2>8. status' = [status EXCEPT ![r] = "pending"]
    BY <1>2, <1>3, <1>11, <2>7, StatusBut
  <2>9. L!Submit(r)
    BY <1>5, <1>6, <2>6, <2>8 DEF L!Submit
  <2> QED BY <2>9 DEF L!Next
<1>12. \/ ~Sends(r) \/ ~Alone
       \/ pc'[r] = "failed" /\ UNCHANGED nonceLock
       \/ pc'[r] = "forwarded" /\ UNCHANGED nonceLock
       \/ Sends(r) /\ EnterLocked(r)
  BY <1>0 DEF Send, TypeOK
<1> QED BY <1>7, <1>8, <1>9, <1>10, <1>11, <1>12

\* A node takes the transaction of the first of the line, under the next nonce.
LEMMA RawArrivesRefines ==
  ASSUME IInv, LedgerInv, NEW r \in Requests, RawArrives(r)
  PROVE  [L!Next]_(L!vars)
<1>0. TypeOK /\ LockInv /\ PoolInv
  BY DEF IInv
<1>1. pc[r] = "sending" /\ UNCHANGED <<given, via>>
  BY DEF RawArrives, request
<1>2. CASE ~Takes(NodeOf(r), tx[r])
  BY <1>1, <1>2, SettleRefines DEF RawArrives
<1>3. CASE Takes(NodeOf(r), tx[r])
  <2>1. /\ UNCHANGED nonceLock /\ pc' = [pc EXCEPT ![r] = "accepted"]
        /\ pool' = [pool EXCEPT ![NodeOf(r)] =
                      Append(@, [req |-> r, nonce |-> tx[r].nonce])]
    BY <1>3 DEF RawArrives
  <2>2. (Alone' <=> Alone) /\ \A q \in Requests : Sends(q)' <=> Sends(q)
    BY <1>1 DEF Alone, Sends, given
  <2>3. \A q \in Requests : Status(q)' = Status(q)
    <3>1. \A q \in Requests : pc'[q] = IF q = r THEN "accepted" ELSE pc[q]
      BY <1>0, <2>1 DEF TypeOK
    <3> QED BY <1>1, <2>2, <3>1 DEF Status, Settled
  <2>4. CASE ~Alone
    BY <2>2, <2>4 DEF L!vars
  <2>5. CASE Alone
    <3> DEFINE line == IF Alone THEN Line(nonceLock[1]) ELSE <<>>
               ledger == IF Alone THEN pool[ChainOf[1]] ELSE <<>>
               status == [q \in Requests |-> IF Alone THEN Status(q) ELSE "new"]
    <3>1. line' = line /\ status' = status
      BY <2>1, <2>2, <2>3 DEF Line
    <3>2. NodeOf(r) = C1 /\ C1 \in Chains
      BY <2>5, Constants DEF LedgerInv, NodeOf, C1
    <3>3. InSection(r) /\ Sends(r)
      BY <1>0, <1>1 DEF LockInv, OnlySends, InSection
    <3>4. tx[r].nonce = Len(pool[C1])
      <4>1. tx[r].nonce \in Nat
        BY <1>0, <1>1 DEF TypeOK
      <4> QED BY <1>1, <2>5, <3>3, <4>1, Constants DEF LedgerInv
    <3>5. pool'[C1] = Append(pool[C1], [req |-> r, nonce |-> Len(pool[C1])])
      BY <1>0, <2>1, <3>2, <3>4 DEF TypeOK
    <3>6. ledger' = Append(ledger, [req |-> r, nonce |-> Len(ledger)])
      BY <2>2, <2>5, <3>5 DEF C1
    <3>7. line # <<>> /\ r = Head(line)
      <4>1. nonceLock[1].holder = r /\ nonceLock[1] \in Mutexes
        BY <1>0, <2>5, <3>3, LockTypes, Constants DEF LockInv, SectionHolds, LedgerInv
      <4>2. r # None
        BY Constants
      <4> QED BY <2>5, <4>1, <4>2, LineReleased
    <3>8. ~L!Posted(r)
      <4>1. ~Posted(r)
        BY <1>0, <1>1 DEF PoolInv
      <4> QED BY <2>5, <3>2, <4>1 DEF L!Posted, Posted, C1
    <3>9. L!Post(r)
      BY <3>1, <3>6, <3>7, <3>8 DEF L!Post, L!First
    <3> QED BY <3>9 DEF L!Next
  <2> QED BY <2>4, <2>5
<1> QED BY <1>2, <1>3

\* A forwarded request that fails was never in the line.
LEMMA ForwardAnswerRefines ==
  ASSUME IInv, NEW r \in Requests, ForwardAnswer(r)
  PROVE  [L!Next]_(L!vars)
<1>1. /\ pc[r] = "forwarded" /\ UNCHANGED <<given, nonceLock, pool>>
      /\ \A q \in Requests : pc'[q] = IF q = r THEN "failed" ELSE pc[q]
  BY DEF ForwardAnswer, request, IInv, TypeOK
<1>2. (Alone' <=> Alone) /\ \A q \in Requests : Sends(q)' <=> Sends(q)
  BY <1>1 DEF Alone, Sends, given
<1>3. \A q \in Requests : q # r => Status(q)' = Status(q)
  BY <1>1, <1>2 DEF Status, Settled
<1> DEFINE line == IF Alone THEN Line(nonceLock[1]) ELSE <<>>
           ledger == IF Alone THEN pool[ChainOf[1]] ELSE <<>>
           status == [q \in Requests |-> IF Alone THEN Status(q) ELSE "new"]
<1>4. CASE Alone /\ Sends(r)
  <2>1. Status(r) = "new" /\ Status(r)' = "failed"
    BY <1>1, <1>2, <1>4 DEF Status, Settled
  <2>2. status' = [status EXCEPT ![r] = "failed"]
    BY <1>2, <1>3, <1>4, <2>1, StatusBut
  <2>3. line' = line /\ ledger' = ledger
    BY <1>1, <1>2 DEF Line
  <2>4. L!Refuse(r)
    BY <1>4, <2>1, <2>2, <2>3 DEF L!Refuse
  <2> QED BY <2>4 DEF L!Next
<1>5. CASE Alone /\ ~Sends(r)
  <2>1. Status(r)' = Status(r)
    BY <1>2, <1>5 DEF Status
  <2> QED BY <1>1, <1>3, <2>1, SameView
<1>6. CASE ~Alone
  BY <1>2, <1>6 DEF L!vars
<1> QED BY <1>4, <1>5, <1>6

\* Steps between populate and the signature are no news to the callers.
LEMMA QuietRefines ==
  ASSUME UNCHANGED <<given, nonceLock, pool>>,
         \A q \in Requests : \/ pc'[q] = pc[q]
                             \/ {pc[q], pc'[q]} \subseteq {"granted", "filling", "sending"}
  PROVE  [L!Next]_(L!vars)
<1>1. \A q \in Requests : Sends(q)' <=> Sends(q)
  BY DEF Sends, given
<1>2. \A q \in Requests : Status(q)' = Status(q)
  BY <1>1 DEF Status, Settled
<1> QED BY <1>2, SameView

LEMMA StepRefines == IInv /\ LedgerInv /\ [Next]_vars => [L!Next]_(L!vars)
<1> SUFFICES ASSUME IInv, LedgerInv, [Next]_vars PROVE [L!Next]_(L!vars)
  OBVIOUS
<1>0. TypeOK
  BY DEF IInv
<1>1. ASSUME NEW r \in Requests, NEW i \in plan.inputs, Send(r, i) PROVE [L!Next]_(L!vars)
  BY <1>1, SendRefines
<1>2. ASSUME NEW r \in Requests, Populate(r) PROVE [L!Next]_(L!vars)
  <2>1. /\ pc[r] = "granted" /\ UNCHANGED <<given, nonceLock, pool>>
        /\ \A q \in Requests : pc'[q] = IF q = r THEN "filling" ELSE pc[q]
    BY <1>0, <1>2 DEF Populate, TypeOK
  <2> QED BY <2>1, QuietRefines
<1>3. ASSUME NEW r \in Requests, ChainIdAnswer(r) \/ NonceAnswer(r) \/ FeesAnswer(r)
      PROVE  [L!Next]_(L!vars)
  <2>1. UNCHANGED <<given, nonceLock, pc, pool>>
    BY <1>3 DEF ChainIdAnswer, NonceAnswer, FeesAnswer
  <2> QED BY <2>1, QuietRefines
<1>4. ASSUME NEW r \in Requests, CallFails(r) PROVE [L!Next]_(L!vars)
  <2>1. UNCHANGED <<given, via, pool>>
    BY <1>4 DEF CallFails
  <2>2. CASE pc[r] = "filling"
    BY <1>4, <2>1, <2>2, SettleRefines DEF CallFails
  <2>3. CASE pc[r] # "filling"
    <3>1. UNCHANGED <<pc, nonceLock>>
      BY <1>4, <2>3 DEF CallFails
    <3> QED BY <2>1, <3>1, QuietRefines
  <2> QED BY <2>2, <2>3
<1>5. ASSUME NEW r \in Requests, Sign(r) PROVE [L!Next]_(L!vars)
  <2>1. pc[r] = "filling" /\ UNCHANGED <<given, via, pool>>
    BY <1>5 DEF Sign
  <2>2. CASE ~Sends(r)
    BY <1>5, <2>1, <2>2, SettleRefines DEF Sign
  <2>3. CASE Sends(r)
    <3>1. /\ UNCHANGED nonceLock
          /\ \A q \in Requests : pc'[q] = IF q = r THEN "sending" ELSE pc[q]
      BY <1>0, <1>5, <2>3 DEF Sign, TypeOK
    <3> QED BY <2>1, <3>1, QuietRefines
  <2> QED BY <2>2, <2>3
<1>6. ASSUME NEW r \in Requests, SignFails(r) \/ RawLost(r) \/ RawAnswer(r)
      PROVE  [L!Next]_(L!vars)
  <2>1. PICK outcome \in {"ok", "failed"} :
          Settle(r, outcome) /\ (outcome = "ok" => pc[r] = "accepted")
    BY <1>6 DEF SignFails, RawLost, RawAnswer
  <2>2. /\ pc[r] \in {"filling", "sending", "accepted"} /\ UNCHANGED <<given, via, pool>>
    BY <1>6 DEF SignFails, RawLost, RawAnswer, request
  <2> QED BY <2>1, <2>2, SettleRefines
<1>7. ASSUME NEW r \in Requests, RawArrives(r) PROVE [L!Next]_(L!vars)
  BY <1>7, RawArrivesRefines
<1>8. ASSUME NEW r \in Requests, ForwardAnswer(r) PROVE [L!Next]_(L!vars)
  BY <1>8, ForwardAnswerRefines
<1>9. CASE SetProvider \/ Stop \/ AddOrRemoveAccount \/ UNCHANGED vars
  <2>1. UNCHANGED <<given, nonceLock, pc, pool>>
    BY <1>9 DEF SetProvider, Stop, AddOrRemoveAccount, vars, request
  <2> QED BY <2>1, QuietRefines
<1> QED BY <1>1, <1>2, <1>3, <1>4, <1>5, <1>6, <1>7, <1>8, <1>9 DEF Next, Progress

\* With one provider and the nonces left to it, eth_sendTransaction implements the
\* ledger: transactions are posted in the order of the calls, under consecutive
\* nonces, and a caller is told "ok" only of one that was posted.
THEOREM PipelineImplementsLedger == Spec => ImplementsLedger
<1>1. Init => L!Init
  <2> SUFFICES ASSUME Init PROVE L!Init
    OBVIOUS
  <2>1. 1 \in Providers /\ C1 \in Chains
    BY Constants DEF C1
  <2>2. Line(nonceLock[1]) = <<>>
    BY <2>1 DEF Init, Free, Line
  <2>3. pool[ChainOf[1]] = <<>>
    BY <2>1 DEF Init, C1
  <2>4. \A r \in Requests : Status(r) = "new"
    BY DEF Init, Status
  <2> QED BY <2>2, <2>3, <2>4 DEF L!Init
<1> QED BY <1>1, StepRefines, AlwaysLedgerInv, PTL DEF Spec, ImplementsLedger, L!Spec

-----------------------------------------------------------------------------
(* Wallets.                                                                *)

Loads(c) == call[c].pc = "load"

Calls == [pc: {"idle", "load", "wait", "ready", "failed"}, left: Int,
          todo: SUBSET Keys, found: SUBSET Keys]

Typing ==
  /\ call \in [Callers -> Calls]
  /\ setupLocked \in BOOLEAN /\ setupFinished \in BOOLEAN

(* LoadsOnce without counting: the lock says whether somebody loads, which *)
(* is what keeps a second caller from loading; only a load that is over    *)
(* finishes the setup, and it was the only one.                            *)
Exclusive ==
  /\ \A c, d \in Callers : Loads(c) /\ Loads(d) => c = d
  /\ \A c \in Callers : Loads(c) => setupLocked
  /\ setupLocked => \E c \in Callers : Loads(c)
  /\ accountSigners # {} => setupFinished
  /\ \A c \in Callers : Loads(c) => ~setupFinished
  /\ \A c \in Callers : call[c].pc = "ready" => setupFinished

WalletIInv == Typing /\ Exclusive

-----------------------------------------------------------------------------
(* The wallet begins with nobody loading.                                  *)
LEMMA InitWalletIInv == WalletInit => WalletIInv
<1> SUFFICES ASSUME WalletInit PROVE WalletIInv
  OBVIOUS
<1>1. Idle \in Calls /\ Idle.pc = "idle"
  BY DEF Idle, Calls
<1>2. call \in [Callers -> Calls] /\ \A c \in Callers : call[c].pc = "idle"
  BY <1>1 DEF WalletInit
<1>3. setupLocked = FALSE /\ setupFinished \in BOOLEAN
  BY Zenon DEF WalletInit
<1>4. accountSigners # {} => setupFinished
  BY Zenon DEF WalletInit
<1> QED
  BY <1>2, <1>3, <1>4 DEF WalletIInv, Typing, Exclusive, Loads

(* What a caller who goes from pc to another does to the record of calls.  *)
LEMMA CallAfter ==
  ASSUME call \in [Callers -> Calls], NEW c \in Callers, NEW r \in Calls,
         call' = [call EXCEPT ![c] = r]
  PROVE  /\ call' \in [Callers -> Calls]
         /\ call'[c] = r
         /\ \A d \in Callers : d # c => call'[d] = call[d]
  OBVIOUS

(* A caller who begins to wait.                                            *)
LEMMA WaitCall ==
  ASSUME NEW f \in Calls, NEW n \in Int
  PROVE  /\ [f EXCEPT !.pc = "wait", !.left = n] \in Calls
         /\ [f EXCEPT !.pc = "wait", !.left = n].pc = "wait"
<1>1. [f EXCEPT !.pc = "wait", !.left = n] \in Calls
  BY DEF Calls
<1>2. [f EXCEPT !.pc = "wait", !.left = n].pc = "wait"
  BY DEF Calls
<1> QED BY <1>1, <1>2

(* A caller whose step neither begins nor ends a load disturbs nothing, if *)
(* he is told "ready" only when the setup is finished.                     *)
LEMMA Elsewhere ==
  ASSUME WalletIInv, NEW c \in Callers, NEW r \in Calls,
         call' = [call EXCEPT ![c] = r],
         r.pc = "load" <=> Loads(c),
         r.pc = "ready" => setupFinished,
         UNCHANGED <<setupLocked, setupFinished, accountSigners>>
  PROVE  WalletIInv'
<1>1. /\ call' \in [Callers -> Calls]
      /\ call'[c] = r
      /\ \A d \in Callers : d # c => call'[d] = call[d]
  BY CallAfter DEF WalletIInv, Typing
<1>2. \A d \in Callers : Loads(d)' <=> Loads(d)
  BY <1>1 DEF Loads
<1>3. \A d \in Callers : (call[d].pc = "ready")' => setupFinished
  BY <1>1 DEF WalletIInv, Exclusive
<1> QED
  BY <1>1, <1>2, <1>3 DEF WalletIInv, Typing, Exclusive

(* A load that ends, well or not, leaves nobody loading.                   *)
LEMMA LoadEnds ==
  ASSUME WalletIInv, NEW c \in Callers, Loads(c), NEW r \in Calls,
         call' = [call EXCEPT ![c] = r], setupLocked' = FALSE,
         \/ r.pc = "ready" /\ setupFinished' = TRUE
         \/ r.pc = "failed" /\ UNCHANGED <<setupFinished, accountSigners>>
  PROVE  WalletIInv'
<1>1. /\ call' \in [Callers -> Calls]
      /\ call'[c] = r
      /\ \A d \in Callers : d # c => call'[d] = call[d]
  BY CallAfter DEF WalletIInv, Typing
<1>2. \A d \in Callers : ~Loads(d)'
  BY <1>1 DEF WalletIInv, Exclusive, Loads
<1>3. \A d \in Callers : (call[d].pc = "ready")' => setupFinished'
  BY <1>1 DEF WalletIInv, Exclusive
<1>4. Typing' /\ (accountSigners # {} => setupFinished)'
  BY <1>1 DEF WalletIInv, Typing, Exclusive
<1> QED
  BY <1>2, <1>3, <1>4 DEF WalletIInv, Exclusive

(* Every step keeps it.                                                    *)
LEMMA NextWalletIInv == WalletIInv /\ [WalletNext]_walletVars => WalletIInv'
<1> SUFFICES ASSUME WalletIInv, [WalletNext]_walletVars PROVE WalletIInv'
  OBVIOUS
<1>t. call \in [Callers -> Calls]
  BY DEF WalletIInv, Typing
<1>s. ASSUME NEW place \in {"idle", "ready", "failed"}
      PROVE  /\ [Idle EXCEPT !.pc = place] \in Calls
             /\ [Idle EXCEPT !.pc = place].pc = place
  BY DEF Idle, Calls
<1>1. ASSUME NEW c \in Callers, CallInit(c) PROVE WalletIInv'
  <2>1. CASE MustWait
    <3> DEFINE r == [call[c] EXCEPT !.pc = "wait", !.left = Polls]
    <3>1. r \in Calls /\ r.pc = "wait" /\ call' = [call EXCEPT ![c] = r]
      <4>1. call[c] \in Calls /\ Polls \in Int
        BY <1>t, PollsAssumption
      <4>2. r \in Calls /\ r.pc = "wait"
        BY <4>1, WaitCall
      <4>3. call' = [call EXCEPT ![c] = r]
        BY <1>1, <2>1, <1>t DEF CallInit
      <4> QED BY <4>2, <4>3
    <3>2. ~Loads(c) /\ UNCHANGED <<setupLocked, setupFinished, accountSigners>>
      BY <1>1, <2>1 DEF CallInit, Loads
    <3> HIDE DEF r
    <3> QED BY <3>1, <3>2, Elsewhere
  <2>2. CASE ~MustWait
    <3> DEFINE r == [call[c] EXCEPT !.pc = "load", !.todo = Keys]
    <3>1. r \in Calls /\ r.pc = "load" /\ call' = [call EXCEPT ![c] = r]
      BY <1>1, <2>2, <1>t DEF CallInit, Calls
    <3>2. /\ setupLocked' = TRUE /\ ~setupLocked /\ ~setupFinished
          /\ UNCHANGED <<setupFinished, accountSigners>>
      BY <1>1, <2>2 DEF CallInit, MustWait
    <3> HIDE DEF r
    <3>3. /\ call' \in [Callers -> Calls]
          /\ call'[c] = r
          /\ \A d \in Callers : d # c => call'[d] = call[d]
      BY <3>1, <1>t, CallAfter
    <3>4. \A d \in Callers : Loads(d)' <=> d = c
      BY <3>1, <3>2, <3>3 DEF WalletIInv, Exclusive, Loads
    <3>5. \A d \in Callers : (call[d].pc = "ready")' => setupFinished
      BY <3>1, <3>3 DEF WalletIInv, Exclusive
    <3> QED BY <3>2, <3>3, <3>4, <3>5 DEF WalletIInv, Typing, Exclusive
  <2> QED BY <2>1, <2>2
<1>2. ASSUME NEW c \in Callers, LoadKey(c) \/ DeriveAddress(c) PROVE WalletIInv'
  <2>1. PICK k \in Keys :
          \/ call' = [call EXCEPT ![c].todo = @ \ {k}, ![c].found = @ \cup {k}]
          \/ call' = [call EXCEPT ![c].todo = @ \ {k}]
    BY <1>2, <1>t DEF LoadKey, DeriveAddress, Calls
  <2>2. PICK r \in Calls : r.pc = call[c].pc /\ call' = [call EXCEPT ![c] = r]
    <3>1. CASE call' = [call EXCEPT ![c].todo = @ \ {k}, ![c].found = @ \cup {k}]
      <4> DEFINE r == [call[c] EXCEPT !.todo = @ \ {k}, !.found = @ \cup {k}]
      <4>1. r \in Calls /\ r.pc = call[c].pc /\ call' = [call EXCEPT ![c] = r]
        BY <3>1, <1>t DEF Calls
      <4> QED BY <4>1
    <3>2. CASE call' = [call EXCEPT ![c].todo = @ \ {k}]
      <4> DEFINE r == [call[c] EXCEPT !.todo = @ \ {k}]
      <4>1. r \in Calls /\ r.pc = call[c].pc /\ call' = [call EXCEPT ![c] = r]
        BY <3>2, <1>t DEF Calls
      <4> QED BY <4>1
    <3> QED BY <2>1, <3>1, <3>2
  <2>3. Loads(c) /\ UNCHANGED <<setupLocked, setupFinished, accountSigners>>
    BY <1>2 DEF LoadKey, DeriveAddress, Loads
  <2> QED BY <2>2, <2>3, Elsewhere DEF Loads
<1>3. ASSUME NEW c \in Callers, LoadDone(c) PROVE WalletIInv'
  <2> DEFINE r == [Idle EXCEPT !.pc = "ready"]
  <2>1. r \in Calls /\ r.pc = "ready" /\ call' = [call EXCEPT ![c] = r]
    BY <1>3, <1>s DEF LoadDone, SettleCall
  <2>2. Loads(c) /\ setupLocked' = FALSE /\ setupFinished' = TRUE
    BY <1>3 DEF LoadDone, Loads
  <2> HIDE DEF r
  <2> QED BY <2>1, <2>2, LoadEnds
<1>4. ASSUME NEW c \in Callers, LoadFails(c) PROVE WalletIInv'
  <2> DEFINE r == [Idle EXCEPT !.pc = "failed"]
  <2>1. r \in Calls /\ r.pc = "failed" /\ call' = [call EXCEPT ![c] = r]
    BY <1>4, <1>s DEF LoadFails, SettleCall
  <2>2. /\ Loads(c) /\ setupLocked' = FALSE
        /\ UNCHANGED <<setupFinished, accountSigners>>
    BY <1>4 DEF LoadFails, Loads
  <2> HIDE DEF r
  <2> QED BY <2>1, <2>2, LoadEnds
<1>5. ASSUME NEW c \in Callers, Poll(c) PROVE WalletIInv'
  <2>1. ~Loads(c) /\ UNCHANGED <<setupLocked, setupFinished, accountSigners>>
    BY <1>5 DEF Poll, Loads
  <2>2. PICK r \in Calls : /\ r.pc # "load" /\ (r.pc = "ready" => setupFinished)
                           /\ call' = [call EXCEPT ![c] = r]
    <3>1. CASE call[c].left = 0
      <4>1. SettleCall(c, "failed")
        BY <1>5, <3>1 DEF Poll
      <4> QED BY <4>1, <1>s DEF SettleCall
    <3>2. CASE call[c].left > 0 /\ setupFinished
      <4>1. SettleCall(c, "ready")
        BY <1>5, <3>2 DEF Poll
      <4> QED BY <4>1, <3>2, <1>s DEF SettleCall
    <3>3. CASE ~(call[c].left = 0) /\ ~(call[c].left > 0 /\ setupFinished)
      <4> DEFINE r == [call[c] EXCEPT !.left = @ - 1]
      <4>1. r \in Calls /\ r.pc = "wait" /\ call' = [call EXCEPT ![c] = r]
        BY <1>5, <3>3, <1>t DEF Poll, Remaining, Calls
      <4> QED BY <4>1
    <3> QED BY <3>1, <3>2, <3>3
  <2> QED BY <2>1, <2>2, Elsewhere
<1>6. ASSUME NEW c \in Callers, Again(c) PROVE WalletIInv'
  <2> DEFINE r == [Idle EXCEPT !.pc = "idle"]
  <2>1. r \in Calls /\ r.pc = "idle" /\ call' = [call EXCEPT ![c] = r]
    BY <1>6, <1>s DEF Again, SettleCall
  <2>2. ~Loads(c) /\ UNCHANGED <<setupLocked, setupFinished, accountSigners>>
    BY <1>6 DEF Again, Loads
  <2> HIDE DEF r
  <2> QED BY <2>1, <2>2, Elsewhere
<1>7. ASSUME \/ \E c \in Callers : SignTransaction(c)
             \/ Receive \/ HandOver \/ UNCHANGED walletVars
      PROVE  WalletIInv'
  <2>1. UNCHANGED <<setupLocked, setupFinished, accountSigners, call>>
    BY <1>7 DEF SignTransaction, Receive, HandOver, walletVars
  <2> QED BY <2>1 DEF WalletIInv, Typing, Exclusive, Loads
<1> QED
  BY <1>1, <1>2, <1>3, <1>4, <1>5, <1>6, <1>7 DEF WalletNext, InitStep

(* A set of callers of whom any two are the same has at most one.          *)
LEMMA IInvLoadsOnce == WalletIInv => LoadsOnce
<1> SUFFICES ASSUME WalletIInv PROVE LoadsOnce
  OBVIOUS
<1>1. Cardinality(Loading) <= 1
  <2>1. CASE Loading = {}
    BY <2>1, FS_EmptySet
  <2>2. CASE Loading # {}
    <3>1. PICK c \in Callers : Loading = {c}
      BY <2>2 DEF WalletIInv, Exclusive, Loading, Loads
    <3> QED BY <3>1, FS_Singleton
  <2> QED BY <2>1, <2>2
<1> QED
  BY <1>1 DEF WalletIInv, Exclusive, LoadsOnce, Loading, Loads

-----------------------------------------------------------------------------
(* remote-wallet.ts: however many callers share a wallet and however their *)
(* loads fail, one call at a time loads, the lock is held exactly while it *)
(* does, and nobody sees signers or is told "ready" before the load is     *)
(* over.                                                                   *)
THEOREM WalletLoadsOnce == WalletSpec => []LoadsOnce
<1>1. WalletInit => WalletIInv
  BY InitWalletIInv
<1>2. WalletIInv /\ [WalletNext]_walletVars => WalletIInv'
  BY NextWalletIInv
<1>3. WalletIInv => LoadsOnce
  BY IInvLoadsOnce
<1> QED
  BY <1>1, <1>2, <1>3, PTL DEF WalletSpec

-----------------------------------------------------------------------------
(* Transactions.                                                           *)

Types == {"cip66", "cip64", "eip1559", "ethereum-legacy"}
OldTypes == {"cip42", "celo-legacy"}

\* The chain that is encoded.
ChainFor(txParams) == IF Item(txParams.chainId) = 0 THEN 1 ELSE txParams.chainId

\* What a field becomes.
ItemOf(f, txParams) == IF f = "chainId" THEN ChainFor(txParams) ELSE Item(txParams[f])

\* A raw transaction of that type that somebody has signed.
WellFormed(raw, type, txParams, who) ==
  /\ raw.error = FALSE
  /\ raw.prefix = IF Typed(type) THEN type ELSE ""
  /\ raw.items = [i \in DOMAIN Named(type) |-> ItemOf(Named(type)[i], txParams)]
  /\ raw.sig.signer = who /\ raw.sig.parity \in {0, 1}
  /\ raw.sig.hash = <<type, IF Typed(type) THEN raw.items
                            ELSE ReplayProtected(raw.items, ChainFor(txParams))>>
  /\ raw.v = raw.sig.parity + IF Typed(type) THEN 0 ELSE Transform(txParams.chainId)

\* What is in a sequence.
Members(s) == {s[i] : i \in DOMAIN s}

-----------------------------------------------------------------------------
\* What encodes a type and what reads it agree on the order of its fields.
LEMMA SameOrder ==
  ASSUME NEW type \in Types
  PROVE  Encoded(type) = Named(type)
BY DEF Types, Encoded, Named

\* How many fields each type has.
LEMMA Lengths ==
  /\ DOMAIN Named("cip66") = 1 .. 11
  /\ DOMAIN Named("cip64") = 1 .. 10
  /\ DOMAIN Named("cip42") = 1 .. 12
  /\ DOMAIN Named("eip1559") = 1 .. 9
  /\ DOMAIN Named("celo-legacy") = 1 .. 9
  /\ DOMAIN Named("ethereum-legacy") = 1 .. 6
BY DEF Named

\* Which fields each type that is made has.
LEMMA MembersAre ==
  /\ Members(Named("cip66")) =
       {"chainId", "nonce", "maxPriorityFeePerGas", "maxFeePerGas", "gas", "to",
        "value", "data", "accessList", "feeCurrency", "maxFeeInFeeCurrency"}
  /\ Members(Named("cip64")) =
       {"chainId", "nonce", "maxPriorityFeePerGas", "maxFeePerGas", "gas", "to",
        "value", "data", "accessList", "feeCurrency"}
  /\ Members(Named("eip1559")) =
       {"chainId", "nonce", "maxPriorityFeePerGas", "maxFeePerGas", "gas", "to",
        "value", "data", "accessList"}
  /\ Members(Named("ethereum-legacy")) =
       {"nonce", "gasPrice", "gas", "to", "value", "data"}
BY DEF Members, Named

-----------------------------------------------------------------------------
\* A number below the modulus is its own remainder.
LEMMA SmallRemainder ==
  ASSUME NEW n \in Nat \ {0}, NEW y \in 0 .. n - 1
  PROVE  y % n = y
OBVIOUS

\* A remainder is below the modulus.
LEMMA RemainderBelow ==
  ASSUME NEW n \in Nat \ {0}, NEW y \in Nat
  PROVE  y % n \in 0 .. n - 1
OBVIOUS

\* The shift gives the chain back from v exactly when it has a bit less than the
\* width of the shift.
LEMMA ShiftedBack ==
  ASSUME NEW c \in Nat, NEW p \in {0, 1}
  PROVE  ChainIdOfV(Transform(c) + p) = c <=> c \in 0 .. SignBit \div 2 - 1
<1> DEFINE x == c * 2 + p
           m == 2 * SignBit
           r == (x + SignBit) % m
<1>1. ChainIdOfV(Transform(c) + p) = (r - SignBit) \div 2
  <2> DEFINE v == Transform(c) + p
  <2>1. v - 35 = x
    BY DEF Transform
  <2> HIDE DEF v, x
  <2>2. ChainIdOfV(v) = ShiftRight(x)
    BY <2>1, Zenon DEF ChainIdOfV
  <2>3. ShiftRight(x) = (r - SignBit) \div 2
    BY Zenon DEF ShiftRight
  <2> QED BY <2>2, <2>3, Zenon DEF v
<1>2. PICK half \in Nat : SignBit = 2 * half /\ half > 0 /\ SignBit \div 2 = half
  <2>1. SignBit \div 2 \in Nat /\ SignBit = 2 * (SignBit \div 2)
    BY WidthsAssumption
  <2>2. SignBit \div 2 > 0
    BY <2>1, WidthsAssumption
  <2> QED BY <2>1, <2>2
<1>3. CASE c < half
  <2>1. x + SignBit \in 0 .. m - 1
    BY <1>2, <1>3
  <2>2. r = x + SignBit
    BY <1>2, <2>1, SmallRemainder, m \in Nat \ {0}
  <2>3. (r - SignBit) \div 2 = c
    BY <1>2, <2>2
  <2> QED BY <1>1, <1>2, <1>3, <2>3
<1>4. CASE c >= half
  <2>1. r \in 0 .. m - 1
    BY <1>2, RemainderBelow, x + SignBit \in Nat, m \in Nat \ {0}
  <2> HIDE DEF r, x
  <2>2. (r - SignBit) \div 2 < half
    BY <1>2, <2>1
  <2> QED BY <1>1, <1>2, <1>4, <2>2
<1> QED
  BY <1>2, <1>3, <1>4

-----------------------------------------------------------------------------
\* A function on the numbers up to n is a sequence of that length.
LEMMA LengthOf ==
  ASSUME NEW n \in Nat, NEW s, DOMAIN s = 1 .. n, s = [i \in DOMAIN s |-> s[i]]
  PROVE  s \in Seq(Members(s)) /\ Len(s) = n
<1>1. s \in [1 .. n -> Members(s)]
  BY DEF Members
<1>2. s \in Seq(Members(s))
  BY <1>1
<1>3. DOMAIN s = 1 .. Len(s) /\ Len(s) \in Nat
  BY <1>2, LenProperties
<1> QED BY <1>2, <1>3

\* What identifies the type in the raw transaction is its own.
LEMMA TypeFound ==
  ASSUME NEW raw, NEW txParams, NEW who, NEW type \in Types \cup OldTypes,
         WellFormed(raw, type, txParams, who)
  PROVE  DetermineTXType(raw) = type
<1>1. CASE Typed(type)
  <2>1. type # ""
    BY DEF Types, OldTypes
  <2> QED BY <1>1, <2>1 DEF WellFormed, DetermineTXType
<1>2. CASE ~Typed(type)
  <2>1. type \in {"celo-legacy", "ethereum-legacy"} /\ raw.prefix = ""
    BY <1>2 DEF WellFormed, Typed
  <2>2. CorrectLengthOf("celo-legacy", TRUE) = 12
    BY DEF CorrectLengthOf
  <2> DEFINE items == raw.items
  <2>3. DOMAIN items = DOMAIN Named(type) /\ items = [i \in DOMAIN items |-> items[i]]
    BY DEF WellFormed
  <2> HIDE DEF items
  <2>4. type = "celo-legacy" => Len(items) = 9
    BY <2>3, Lengths, LengthOf
  <2>5. type = "ethereum-legacy" => Len(items) = 6
    BY <2>3, Lengths, LengthOf
  <2>6. DetermineTXType(raw) = IF Len(items) + 3 = 12 THEN "celo-legacy" ELSE "ethereum-legacy"
    BY <2>1, <2>2 DEF DetermineTXType, items
  <2> DEFINE n == Len(items)
  <2> HIDE DEF n
  <2>7. CASE type = "celo-legacy"
    <3>1. n = 9
      BY <2>4, <2>7 DEF n
    <3>2. n + 3 = 12
      BY <3>1
    <3> QED BY <2>6, <2>7, <3>2 DEF n
  <2>8. CASE type = "ethereum-legacy"
    <3>1. n = 6
      BY <2>5, <2>8 DEF n
    <3>2. n + 3 # 12
      BY <3>1
    <3> QED BY <2>6, <2>8, <3>2 DEF n
  <2> QED BY <2>1, <2>7, <2>8
<1> QED BY <1>1, <1>2

\* What is read when the type is that.
FieldsAs(type, raw) ==
  LET names == Named(type)
      at(f) == CHOOSE i \in DOMAIN names : names[i] = f
      read(f) == IF f \in ByDouble(type) THEN HandleNumber(raw.items[at(f)])
                 ELSE raw.items[at(f)]
  IN [f \in Members(names) \cup {"chainId"} |->
        IF f = "chainId" /\ ~Typed(type) THEN ChainIdOfV(raw.v) ELSE read(f)]

\* Every field of the type is read back from where it was written.
LEMMA FieldsRead ==
  ASSUME NEW raw, NEW txParams, NEW who, NEW type \in Types \cup OldTypes,
         WellFormed(raw, type, txParams, who)
  PROVE  /\ DOMAIN Fields(raw) = Members(Named(type)) \cup {"chainId"}
         /\ \A f \in Members(Named(type)) \ {"chainId"} :
              Fields(raw)[f] = IF f \in ByDouble(type) THEN HandleNumber(Item(txParams[f]))
                               ELSE Item(txParams[f])
<1> DEFINE names == Named(type)
           at(f) == CHOOSE i \in DOMAIN names : names[i] = f
           read(f) == IF f \in ByDouble(type) THEN HandleNumber(raw.items[at(f)])
                                               ELSE raw.items[at(f)]
<1>1. Fields(raw) = [f \in Members(names) \cup {"chainId"} |->
                       IF f = "chainId" /\ ~Typed(type) THEN ChainIdOfV(raw.v)
                       ELSE read(f)]
  <2>1. Fields(raw) = FieldsAs(DetermineTXType(raw), raw)
    BY Zenon DEF Fields, FieldsAs, Members
  <2>2. Fields(raw) = FieldsAs(type, raw)
    BY <2>1, TypeFound
  <2> QED BY <2>2, Zenon DEF FieldsAs
<1>2. ASSUME NEW f \in Members(names) \ {"chainId"}
      PROVE  raw.items[at(f)] = Item(txParams[f])
  <2>1. at(f) \in DOMAIN names /\ names[at(f)] = f
    BY DEF Members
  <2> HIDE DEF at
  <2> QED BY <2>1 DEF WellFormed, ItemOf
<1> HIDE DEF at, names
<1>3. \A f \in Members(names) \ {"chainId"} :
        Fields(raw)[f] = IF f \in ByDouble(type) THEN HandleNumber(Item(txParams[f]))
                         ELSE Item(txParams[f])
  BY <1>1, <1>2
<1> QED BY <1>1, <1>3 DEF names

-----------------------------------------------------------------------------
\* What is hashed for a legacy transaction depends on its chain.
LEMMA ChainIsHashed ==
  ASSUME NEW S, NEW items \in Seq(S), NEW a, NEW b,
         ReplayProtected(items, a) = ReplayProtected(items, b)
  PROVE  a = b
<1> DEFINE T == S \cup {a, b, 0}
           n == Len(items) + 1
<1>1. items \in Seq(T) /\ <<a, 0, 0>> \in Seq(T) /\ <<b, 0, 0>> \in Seq(T)
  OBVIOUS
<1>2. Len(items) \in Nat /\ Len(<<a, 0, 0>>) = 3 /\ Len(<<b, 0, 0>>) = 3
  BY LenProperties
<1>3. n \in 1 .. Len(items) + 3 /\ ~(n <= Len(items)) /\ n - Len(items) = 1
  BY <1>2
<1> HIDE DEF T, n
<1>4. (items \o <<a, 0, 0>>)[n] = <<a, 0, 0>>[1]
  BY <1>1, <1>2, <1>3, ConcatProperties
<1>5. (items \o <<b, 0, 0>>)[n] = <<b, 0, 0>>[1]
  BY <1>1, <1>2, <1>3, ConcatProperties
<1> QED BY <1>4, <1>5 DEF ReplayProtected

\* The items are a sequence, one for each field of the type.
LEMMA ItemsAreSequence ==
  ASSUME NEW raw, NEW txParams, NEW who, NEW type \in Types \cup OldTypes,
         WellFormed(raw, type, txParams, who)
  PROVE  /\ raw.items \in Seq(Members(raw.items))
         /\ DOMAIN raw.items = DOMAIN Named(type)
         /\ DOMAIN raw.items = 1 .. Len(raw.items)
<1> DEFINE items == raw.items
<1>1. DOMAIN items = DOMAIN Named(type) /\ items = [i \in DOMAIN items |-> items[i]]
  BY DEF WellFormed
<1>2. \E n \in Nat : DOMAIN Named(type) = 1 .. n
  BY Lengths DEF Types, OldTypes
<1> HIDE DEF items
<1>3. items \in Seq(Members(items)) /\ DOMAIN items = 1 .. Len(items)
  BY <1>1, <1>2, LengthOf
<1> QED BY <1>1, <1>3 DEF items

\* recoverCeloLegacy and recoverEthereumLegacy find whoever signed for a chain
\* that the shift gives back, and nobody else finds him.
LEMMA LegacyRecovers ==
  ASSUME NEW raw, NEW txParams, NEW who, who # Stranger, txParams.chainId \in Nat,
         NEW type \in {"ethereum-legacy", "celo-legacy"},
         WellFormed(raw, type, txParams, who)
  PROVE  LegacySigner(raw) = who <=> txParams.chainId \in 1 .. SignBit \div 2 - 1
<1> DEFINE c == txParams.chainId
           p == raw.sig.parity
           d == ChainIdOfV(raw.v)
           y == raw.v - Transform(d)
           items == raw.items
           hash == <<type, ReplayProtected(items, d)>>
<1>1. c \in Nat /\ p \in {0, 1} /\ raw.v = Transform(c) + p
  <2>1. p \in {0, 1} /\ raw.v = p + IF Typed(type) THEN 0 ELSE Transform(c)
    BY Zenon DEF WellFormed
  <2>2. ~Typed(type)
    BY DEF Typed
  <2> HIDE DEF c, p
  <2> QED BY <2>1, <2>2 DEF Transform, c
<1>2. d = c <=> c \in 0 .. SignBit \div 2 - 1
  BY <1>1, ShiftedBack
<1>3. ~(raw.v < 35)
  BY <1>1 DEF Transform
<1>4. /\ raw.sig.signer = who
      /\ raw.sig.hash = <<type, ReplayProtected(items, ChainFor(txParams))>>
  BY Zenon DEF WellFormed, Typed
<1>5. DetermineTXType(raw) = type
  BY TypeFound DEF Types, OldTypes
<1>6. LegacySigner(raw) = IF y \notin 0 .. 3 THEN Stranger
                          ELSE RecoverPublicKey(raw.sig, y, hash)
  BY <1>3, <1>5 DEF LegacySigner
<1>7. items \in Seq(Members(items))
  BY ItemsAreSequence DEF Types, OldTypes
<1>8. SignBit \div 2 \in Nat
  BY WidthsAssumption
<1>9. ChainFor(txParams) = IF c = 0 THEN 1 ELSE c
  BY <1>1 DEF ChainFor, Item, Undefined
<1>10. CASE c \in 1 .. SignBit \div 2 - 1
  <2>1. d = c /\ ChainFor(txParams) = c
    BY <1>2, <1>8, <1>9, <1>10
  <2>2. y = p
    BY <1>1, <2>1 DEF Transform
  <2>3. LegacySigner(raw) = RecoverPublicKey(raw.sig, p, hash)
    BY <1>1, <1>6, <2>2
  <2> QED BY <1>4, <1>10, <2>1, <2>3 DEF RecoverPublicKey
<1>11. CASE c \notin 1 .. SignBit \div 2 - 1
  <2>1. d # ChainFor(txParams)
    <3>1. CASE c = 0
      BY <1>2, <1>8, <1>9, <3>1, WidthsAssumption
    <3>2. CASE c # 0
      BY <1>1, <1>2, <1>8, <1>9, <1>11, <3>2
    <3> QED BY <3>1, <3>2
  <2> HIDE DEF d, items
  <2>2. ReplayProtected(items, d) # ReplayProtected(items, ChainFor(txParams))
    BY <1>7, <2>1, ChainIsHashed
  <2>3. hash # raw.sig.hash
    BY <1>4, <2>2
  <2>4. LegacySigner(raw) = Stranger
    BY <1>6, <2>3 DEF RecoverPublicKey
  <2> QED BY <1>11, <2>4
<1> QED BY <1>10, <1>11

\* getPublicKeyofSignerFromTx finds whoever signed a typed transaction.
LEMMA TypedRecovers ==
  ASSUME NEW raw, NEW txParams, NEW who,
         NEW type \in {"cip66", "cip64", "cip42", "eip1559"},
         WellFormed(raw, type, txParams, who)
  PROVE  TypedSigner(raw) = who
<1> DEFINE p == raw.sig.parity
           items == raw.items
           n == CorrectLengthOf(type, FALSE)
<1>1. p \in {0, 1} /\ raw.v = p /\ raw.sig.signer = who
  <2>1. p \in {0, 1} /\ raw.v = p + IF Typed(type) THEN 0 ELSE Transform(txParams.chainId)
    BY Zenon DEF WellFormed
  <2>2. Typed(type) /\ raw.sig.signer = who
    BY DEF Typed, WellFormed
  <2> HIDE DEF p
  <2> QED BY <2>1, <2>2
<1>2. raw.sig.hash = <<type, items>>
  BY DEF WellFormed, Typed
<1>3. DetermineTXType(raw) = type
  BY TypeFound DEF Types, OldTypes
<1>4. items \in Seq(Members(items)) /\ DOMAIN items = DOMAIN Named(type)
  BY ItemsAreSequence DEF Types, OldTypes
<1>5. ASSUME type # "eip1559"
      PROVE  SubSeq(items, 1, n) = items
  <2>1. DOMAIN items = 1 .. n /\ n \in Nat
    BY <1>4, <1>5, Lengths DEF CorrectLengthOf
  <2> HIDE DEF items, n
  <2>2. Len(items) = n
    BY <1>4, <2>1, LenProperties
  <2> QED BY <1>4, <2>1, <2>2
<1>6. CASE type = "eip1559"
  <2>1. TypedSigner(raw) = RecoverPublicKey(raw.sig, IF raw.v \in {0, 27} THEN 0 ELSE 1,
                                            <<type, items>>)
    BY <1>3, <1>6 DEF TypedSigner
  <2> QED BY <1>1, <1>2, <2>1 DEF RecoverPublicKey
<1>7. CASE type # "eip1559"
  <2>1. TypedSigner(raw) = RecoverPublicKey(raw.sig, IF raw.v = 0 THEN 0 ELSE 1,
                                            <<type, SubSeq(items, 1, n)>>)
    BY <1>3, <1>7 DEF TypedSigner
  <2> QED BY <1>1, <1>2, <1>5, <1>7, <2>1 DEF RecoverPublicKey
<1> QED BY <1>6, <1>7

-----------------------------------------------------------------------------
\* The type that was chosen is one of four, and what may be signed at all.
LEMMA TypeOfTypes ==
  ASSUME NEW txParams
  PROVE  TypeOf(txParams) \in Types
BY DEF TypeOf, Types

Willing(txParams) ==
  /\ AssertSerializable(txParams)
  /\ isPresent(txParams.feeCurrency) => ~isPresent(txParams.gasPrice)

\* A signature by that signer for what was encoded.
SignsFor(sig, who, rlp) ==
  /\ sig.signer = who /\ sig.parity \in {0, 1}
  /\ sig.hash = <<rlp.type, rlp.items>>

\* What is encoded on that chain when the fields are in that order.
Encoding(txParams, chainId, names) ==
  LET complete == [txParams EXCEPT !.chainId = chainId]
      items == [i \in DOMAIN names |-> Item(complete[names[i]])]
  IN [error |-> FALSE, type |-> TypeOf(txParams),
      items |-> IF TypeOf(txParams) = "ethereum-legacy"
                  THEN ReplayProtected(items, chainId) ELSE items]

\* The items of a transaction before they are made proof against replay.
LEMMA ItemsEncoded ==
  ASSUME NEW txParams \in TxRecords, AssertSerializable(txParams)
  PROVE  LET type == TypeOf(txParams)
             items == [i \in DOMAIN Named(type) |-> ItemOf(Named(type)[i], txParams)]
         IN /\ RlpEncodedTx(txParams).type = type
            /\ RlpEncodedTx(txParams).items = IF Typed(type) THEN items
                                        ELSE ReplayProtected(items, ChainFor(txParams))
<1> DEFINE type == TypeOf(txParams)
           names == Named(type)
           c == ChainFor(txParams)
           complete == [txParams EXCEPT !.chainId = c]
<1>1. c \in Nat \ {0} /\ Item(c) = c
  BY DEF AssertSerializable, TxRecords, TxFields, ChainFor, Item, Undefined
<1>2. Encoded(type) = names
  BY SameOrder, TypeOfTypes
<1>3. ASSUME NEW f \in Members(names)
      PROVE  Item(complete[f]) = ItemOf(f, txParams)
  <2>1. f \in TxFields
    <3>1. CASE type = "cip66"
      BY <3>1 DEF Members, Named, TxFields
    <3>2. CASE type = "cip64"
      BY <3>2 DEF Members, Named, TxFields
    <3>3. CASE type = "eip1559"
      BY <3>3 DEF Members, Named, TxFields
    <3>4. CASE type = "ethereum-legacy"
      BY <3>4 DEF Members, Named, TxFields
    <3> QED BY <3>1, <3>2, <3>3, <3>4, TypeOfTypes DEF Types
  <2>2. complete[f] = IF f = "chainId" THEN c ELSE txParams[f]
    BY <2>1 DEF TxRecords
  <2> HIDE DEF complete, c
  <2>3. CASE f = "chainId"
    BY <1>1, <2>2, <2>3 DEF ItemOf, c
  <2>4. CASE f # "chainId"
    BY <2>2, <2>4 DEF ItemOf
  <2> QED BY <2>3, <2>4
<1> DEFINE items == [i \in DOMAIN names |-> ItemOf(names[i], txParams)]
           given1 == [i \in DOMAIN names |-> Item(complete[names[i]])]
<1>4. given1 = items
  <2> HIDE DEF names, complete
  <2>1. \A i \in DOMAIN names : Item(complete[names[i]]) = ItemOf(names[i], txParams)
    BY <1>3 DEF Members
  <2> QED BY <2>1
<1>5. RlpEncodedTx(txParams) =
        [error |-> FALSE, type |-> type,
         items |-> IF type = "ethereum-legacy"
                     THEN ReplayProtected(given1, c) ELSE given1]
  <2>1. RlpEncodedTx(txParams) = Encoding(txParams, c, Encoded(type))
    BY Zenon DEF RlpEncodedTx, Encoding, ChainFor
  <2>2. RlpEncodedTx(txParams) = Encoding(txParams, c, names)
    BY <1>2, <2>1
  <2> QED BY <2>2, Zenon DEF Encoding
<1>6. Typed(type) <=> type # "ethereum-legacy"
  BY TypeOfTypes DEF Typed, Types
<1> HIDE DEF given1, items, c, type
<1>7. /\ RlpEncodedTx(txParams).type = type
      /\ RlpEncodedTx(txParams).items = IF Typed(type) THEN items ELSE ReplayProtected(items, c)
  BY <1>4, <1>5, <1>6
<1> QED BY <1>7, Zenon DEF items, c, type, names

\* The six items of a legacy transaction are left when the chain is taken off.
LEMMA ChainTakenOff ==
  ASSUME NEW S, NEW items \in Seq(S), Len(items) = 6, NEW c
  PROVE  SubSeq(ReplayProtected(items, c), 1, 6) = items
<1> DEFINE T == S \cup {c, 0}
           end == <<c, 0, 0>>
           long == items \o end
<1>1. items \in Seq(T) /\ end \in Seq(T) /\ Len(end) = 3
  OBVIOUS
<1> HIDE DEF T, end
<1>2. /\ long \in Seq(T) /\ Len(long) = Len(items) + Len(end)
      /\ \A i \in 1 .. Len(items) + Len(end) :
           long[i] = IF i <= Len(items) THEN items[i] ELSE end[i - Len(items)]
  BY <1>1, ConcatProperties
<1> HIDE DEF long
<1>3. \A i \in 1 .. 6 : long[i] = items[i]
  BY <1>1, <1>2
<1>4. \A i \in 1 .. 6 : long[i] \in T
  <2>1. \A i \in 1 .. 6 : items[i] \in T
    BY <1>1, ElementOfSeq
  <2> QED BY <1>3, <2>1
<1> DEFINE short == SubSeq(long, 1, 6)
<1>5. short \in Seq(T) /\ Len(short) = 6 /\ \A i \in 1 .. 6 : short[i] = long[i]
  BY <1>4, SubSeqProperties
<1> HIDE DEF short
<1>6. short = items
  BY <1>1, <1>3, <1>5
<1> QED BY <1>6 DEF short, long, end, ReplayProtected

\* What v has to be for a signature: the parity, or with 27 added, in a typed
\* transaction; the parity and what the chain becomes in a legacy one.
VFor(v, sig, txParams) ==
  IF Typed(TypeOf(txParams)) THEN v \in {sig.parity, sig.parity + 27}
  ELSE v = sig.parity + Transform(txParams.chainId)

\* encodeTransaction makes a raw transaction of such a signature.
LEMMA EncodesWell ==
  ASSUME NEW txParams \in TxRecords, AssertSerializable(txParams), NEW who, NEW signature,
         SignsFor(signature.sig, who, RlpEncodedTx(txParams)),
         VFor(signature.v, signature.sig, txParams)
  PROVE  WellFormed(EncodeTransaction(RlpEncodedTx(txParams), signature), TypeOf(txParams), txParams, who)
<1> DEFINE type == TypeOf(txParams)
           items == [i \in DOMAIN Named(type) |-> ItemOf(Named(type)[i], txParams)]
           c == ChainFor(txParams)
           rlp == RlpEncodedTx(txParams)
           sig == signature.sig
           p == sig.parity
           v == SignatureFormatter(signature.v, type)
           left == IF Typed(type) THEN rlp.items ELSE SubSeq(rlp.items, 1, 6)
           raw == EncodeTransaction(rlp, signature)
<1>1. /\ rlp.type = type
      /\ rlp.items = IF Typed(type) THEN items ELSE ReplayProtected(items, c)
  BY ItemsEncoded
<1>2. sig.signer = who /\ p \in {0, 1} /\ sig.hash = <<type, rlp.items>>
  BY <1>1 DEF SignsFor
<1>3. v = p + IF Typed(type) THEN 0 ELSE Transform(txParams.chainId)
  <2>1. CASE Typed(type)
    <3>1. signature.v \in {p, p + 27}
      BY <2>1 DEF VFor
    <3> HIDE DEF p, type
    <3>2. CASE p = 0
      BY <2>1, <3>1, <3>2 DEF SignatureFormatter
    <3>3. CASE p = 1
      BY <2>1, <3>1, <3>3 DEF SignatureFormatter
    <3> QED BY <1>2, <3>2, <3>3
  <2>2. CASE ~Typed(type)
    <3>1. signature.v = p + Transform(txParams.chainId)
      BY <2>2 DEF VFor
    <3> HIDE DEF p, type
    <3> QED BY <2>2, <3>1 DEF SignatureFormatter
  <2> QED BY <2>1, <2>2
<1>4. v # Undefined
  <2>1. txParams.chainId \in Nat
    BY DEF AssertSerializable, TxRecords, TxFields, Undefined
  <2> HIDE DEF v, p
  <2> QED BY <1>2, <1>3, <2>1 DEF Undefined, Transform
<1>5. left = items
  <2>1. CASE Typed(type)
    BY <1>1, <2>1
  <2>2. CASE ~Typed(type)
    <3>1. type = "ethereum-legacy"
      BY <2>2, TypeOfTypes DEF Types, Typed
    <3>2. DOMAIN items = 1 .. 6 /\ items = [i \in DOMAIN items |-> items[i]]
      BY <3>1, Lengths
    <3> HIDE DEF items, c
    <3>3. items \in Seq(Members(items)) /\ Len(items) = 6
      BY <3>2, LengthOf
    <3> QED BY <1>1, <2>2, <3>3, ChainTakenOff
  <2> QED BY <2>1, <2>2
<1> HIDE DEF type, items, c, p, v, left, sig, rlp
<1>6. raw = [error |-> FALSE, prefix |-> IF Typed(type) THEN type ELSE "",
             items |-> items, v |-> v, sig |-> sig]
  BY <1>1, <1>4, <1>5 DEF EncodeTransaction, v, left, sig
<1> HIDE DEF raw
<1>7. raw.items = items /\ raw.sig = sig /\ raw.v = v /\ raw.error = FALSE
      /\ raw.prefix = IF Typed(type) THEN type ELSE ""
  BY <1>6
<1>8. WellFormed(raw, type, txParams, who)
  <2>1. raw.items = [i \in DOMAIN Named(type) |-> ItemOf(Named(type)[i], txParams)]
    BY <1>7 DEF items
  <2>2. raw.sig.hash = <<type, IF Typed(type) THEN raw.items
                               ELSE ReplayProtected(raw.items, ChainFor(txParams))>>
    BY <1>1, <1>2, <1>7 DEF c
  <2>3. raw.v = raw.sig.parity + IF Typed(type) THEN 0 ELSE Transform(txParams.chainId)
    BY <1>3, <1>7 DEF p
  <2> QED BY <1>2, <1>7, <2>1, <2>2, <2>3 DEF WellFormed, p
<1> QED BY <1>8 DEF raw, rlp, type

-----------------------------------------------------------------------------
Bits == [parity : {0, 1}, high : BOOLEAN]

\* What a signature is of.
LEMMA SigFields ==
  ASSUME NEW who, NEW bits, NEW hash
  PROVE  /\ Sig(who, bits, hash).signer = who /\ Sig(who, bits, hash).hash = hash
         /\ Sig(who, bits, hash).parity = bits.parity
BY DEF Sig

\* A local key or a key store.
LEMMA KeySigns ==
  ASSUME NEW k, NEW txParams \in TxRecords, NEW who, who # Stranger, NEW bits \in Bits,
         ~SignWithKey(k, txParams, who, bits).error
  PROVE  /\ WellFormed(SignWithKey(k, txParams, who, bits), TypeOf(txParams), txParams, who)
         /\ Willing(txParams)
<1> DEFINE rlp == RlpEncodedTx(txParams)
           sig == Sig(who, bits, <<rlp.type, rlp.items>>)
           addToV == AddToV(rlp.type, txParams)
           signature == IF k = "hsm" THEN HsmSign(sig, addToV) ELSE LocalSign(sig, addToV)
<1>1. Error.error = TRUE
  BY DEF Error
<1>2. ~rlp.error /\ ~(Truthy(txParams.gasPrice) /\ isPresent(txParams.feeCurrency))
  BY <1>1, Zenon DEF SignWithKey
<1>3. AssertSerializable(txParams)
  BY <1>1, <1>2, Zenon DEF RlpEncodedTx
<1>4. SignWithKey(k, txParams, who, bits) = EncodeTransaction(rlp, signature)
  BY <1>2, Zenon DEF SignWithKey
<1>5. rlp.type = TypeOf(txParams)
  BY <1>3, ItemsEncoded, Zenon
<1>6. SignsFor(sig, who, rlp)
  BY DEF Sig, Bits, SignsFor
<1>7. /\ SignsFor(signature.sig, who, rlp)
      /\ signature.v = signature.sig.parity + addToV
  <2>1. CASE k # "hsm"
    BY <1>6, <2>1 DEF LocalSign
  <2>2. CASE k = "hsm"
    <3> DEFINE canonical == MakeCanonical(sig)
    <3>1. SignsFor(canonical, who, rlp)
      BY DEF Sig, Bits, SignsFor, MakeCanonical
    <3> HIDE DEF canonical, sig
    <3>2. RecoverKeyIndex(canonical, sig.hash) = canonical.parity
      <4>1. \A i \in 0 .. 3 : RecoverPublicKey(canonical, i, sig.hash) = canonical.signer
                                <=> i = canonical.parity
        BY <1>6, <3>1 DEF SignsFor, RecoverPublicKey
      <4>2. canonical.parity \in 0 .. 3
        BY <3>1 DEF SignsFor
      <4> QED BY <4>1, <4>2 DEF RecoverKeyIndex
    <3>3. signature = [v |-> canonical.parity + addToV, sig |-> canonical]
      BY <2>2, <3>2 DEF HsmSign, canonical
    <3> QED BY <3>1, <3>3
  <2> QED BY <2>1, <2>2
<1>8. VFor(signature.v, signature.sig, txParams)
  <2>1. addToV = IF Typed(TypeOf(txParams)) THEN 27 ELSE Transform(txParams.chainId)
    BY <1>5, TypeOfTypes DEF AddToV, Typed, Types
  <2> HIDE DEF signature, addToV
  <2> QED BY <1>7, <2>1 DEF VFor
<1> HIDE DEF signature
<1>9. WellFormed(EncodeTransaction(rlp, signature), TypeOf(txParams), txParams, who)
  BY <1>3, <1>7, <1>8, EncodesWell
<1>10. Willing(txParams)
  <2>1. isPresent(txParams.gasPrice) => Truthy(txParams.gasPrice)
    BY DEF isPresent, Truthy, Undefined
  <2> QED BY <1>2, <1>3, <2>1 DEF Willing
<1> QED BY <1>4, <1>9, <1>10

\* A ledger.
LEMMA LedgerSigns ==
  ASSUME NEW a, NEW txParams \in TxRecords, NEW who, NEW bits \in Bits,
         ~SignWithLedger(a, txParams, who, bits).error
  PROVE  /\ WellFormed(SignWithLedger(a, txParams, who, bits), TypeOf(txParams), txParams, who)
         /\ Willing(txParams)
<1> DEFINE rlp == RlpEncodedTx(txParams)
           sig == Sig(who, bits, <<rlp.type, rlp.items>>)
           signature == LedgerSign(sig)
<1>1. Error.error = TRUE
  BY DEF Error
<1>2. ~rlp.error /\ ~Truthy(txParams.gasPrice) /\ isEIP1559(txParams)
  BY <1>1, Zenon DEF SignWithLedger
<1>3. AssertSerializable(txParams)
  BY <1>1, <1>2, Zenon DEF RlpEncodedTx
<1>4. SignWithLedger(a, txParams, who, bits) = EncodeTransaction(rlp, signature)
  BY <1>1, Zenon DEF SignWithLedger
<1>5. SignsFor(signature.sig, who, rlp) /\ signature.v = signature.sig.parity
  BY DEF Sig, Bits, SignsFor, LedgerSign
<1>6. Typed(TypeOf(txParams))
  BY <1>2 DEF TypeOf, Typed
<1>7. VFor(signature.v, signature.sig, txParams)
  BY <1>5, <1>6 DEF VFor
<1> HIDE DEF signature
<1>8. WellFormed(EncodeTransaction(rlp, signature), TypeOf(txParams), txParams, who)
  BY <1>3, <1>5, <1>7, EncodesWell
<1>9. Willing(txParams)
  BY <1>2, <1>3 DEF Willing, isPresent, Truthy, Undefined
<1> QED BY <1>4, <1>8, <1>9

\* A transaction of an older type.
LEMMA OldIsWellFormed ==
  ASSUME NEW old \in OldTxs, NEW who, NEW parity \in {0, 1}
  PROVE  WellFormed(OldRaw(old, who, parity), old.type, old.tx, who)
<1> DEFINE names == Named(old.type)
           txParams == old.tx
           items == [i \in DOMAIN names |-> txParams[names[i]]]
           raw == OldRaw(old, who, parity)
<1>1. /\ old.type \in OldTypes
      /\ txParams \in [Members(names) \cup {"chainId"} -> Nat]
      /\ txParams.chainId > 0
  BY OldTxsAssumption, Zenon DEF OldTypes, Members
<1>2. ChainFor(txParams) = txParams.chainId
  <2>1. txParams.chainId \in Nat
    BY <1>1
  <2> QED BY <1>1, <2>1 DEF ChainFor, Item, Undefined
<1>3. items = [i \in DOMAIN names |-> ItemOf(names[i], txParams)]
  <2>1. ASSUME NEW i \in DOMAIN names
        PROVE  ItemOf(names[i], txParams) = txParams[names[i]]
    <3>1. names[i] \in Members(names)
      BY DEF Members
    <3>2. txParams[names[i]] \in Nat
      BY <1>1, <3>1
    <3> HIDE DEF names, txParams
    <3>3. Item(txParams[names[i]]) = txParams[names[i]]
      BY <3>2 DEF Item, Undefined
    <3> QED BY <1>2, <3>3 DEF ItemOf
  <2> HIDE DEF names, txParams
  <2> QED BY <2>1
<1>4. /\ raw.error = FALSE /\ raw.items = items
      /\ raw.prefix = IF Typed(old.type) THEN old.type ELSE ""
      /\ raw.v = IF Typed(old.type) THEN parity ELSE Transform(txParams.chainId) + parity
      /\ raw.sig = Sig(who, [parity |-> parity, high |-> FALSE],
                       <<old.type, IF Typed(old.type) THEN items
                                   ELSE ReplayProtected(items, txParams.chainId)>>)
  BY DEF OldRaw
<1> HIDE DEF raw, items, txParams
<1>5. raw.sig.signer = who /\ raw.sig.parity = parity
      /\ raw.sig.hash = <<old.type, IF Typed(old.type) THEN items
                                   ELSE ReplayProtected(items, txParams.chainId)>>
  <2> DEFINE bits == [parity |-> parity, high |-> FALSE]
             hash == <<old.type, IF Typed(old.type) THEN items
                                 ELSE ReplayProtected(items, txParams.chainId)>>
  <2>1. bits.parity = parity
    OBVIOUS
  <2> HIDE DEF bits
  <2>2. raw.sig = Sig(who, bits, hash)
    BY <1>4, Zenon DEF bits
  <2> HIDE DEF hash
  <2>3. raw.sig.signer = who /\ raw.sig.parity = parity /\ raw.sig.hash = hash
    BY <2>1, <2>2, SigFields
  <2> QED BY <2>3 DEF hash
<1>6. raw.v = raw.sig.parity + IF Typed(old.type) THEN 0 ELSE Transform(txParams.chainId)
  <2>1. txParams.chainId \in Nat
    BY <1>1
  <2>2. CASE Typed(old.type)
    BY <1>4, <1>5, <2>2
  <2>3. CASE ~Typed(old.type)
    <3>1. raw.v = Transform(txParams.chainId) + parity
      BY <1>4, <2>3
    <3>2. Transform(txParams.chainId) + parity = parity + Transform(txParams.chainId)
      BY <2>1 DEF Transform
    <3> QED BY <1>5, <2>3, <3>1, <3>2
  <2> QED BY <2>2, <2>3
<1> QED BY <1>2, <1>3, <1>4, <1>5, <1>6 DEF WellFormed, raw, txParams

-----------------------------------------------------------------------------
(* What holds of the transaction that was signed or received last.         *)

\* It was signed here: for one of its keys, with what the types demand.
SignedHere ==
  \E txParams \in Txs, who \in Keys :
    /\ last.tx = txParams /\ last.from = who
    /\ WellFormed(last.raw, TypeOf(txParams), txParams, who) /\ Willing(txParams)

\* It is of an older type.
SignedLongAgo ==
  \E old \in OldTxs, who \in Keys :
    /\ last.tx = old.tx /\ last.from = who
    /\ WellFormed(last.raw, old.type, old.tx, who)

LastInv == last.raw.error \/ SignedHere \/ SignedLongAgo

\* Nothing is signed at first.
LEMMA InitLastInv == WalletInit => LastInv
<1> SUFFICES ASSUME WalletInit PROVE LastInv
  OBVIOUS
<1>1. last = Nothing
  BY Zenon DEF WalletInit
<1> QED BY <1>1 DEF Nothing, Error, LastInv

\* A wallet signs.
LEMMA SignKeepsLast ==
  ASSUME NEW c \in Callers, SignTransaction(c)
  PROVE  LastInv'
<1>1. PICK txParams \in Txs, from \in Keys, parity \in {0, 1}, high \in BOOLEAN :
        LET bits == [parity |-> parity, high |-> high /\ kind = "hsm"]
            raw == IF kind = "ledger" THEN SignWithLedger(app, txParams, from, bits)
                   ELSE SignWithKey(kind, txParams, from, bits)
        IN /\ setupFinished /\ from \in accountSigners
           /\ ~raw.error
           /\ last' = [tx |-> txParams, from |-> from, raw |-> raw]
  BY Zenon DEF SignTransaction
<1> DEFINE bits == [parity |-> parity, high |-> high /\ kind = "hsm"]
           raw == IF kind = "ledger" THEN SignWithLedger(app, txParams, from, bits)
                  ELSE SignWithKey(kind, txParams, from, bits)
<1>2. ~raw.error /\ last' = [tx |-> txParams, from |-> from, raw |-> raw]
  BY <1>1, Zenon
<1>3. txParams \in TxRecords /\ from # Stranger
  BY TxsAssumption, SignersAssumption
<1>4. bits \in Bits
  BY DEF Bits
<1> HIDE DEF bits
<1>5. WellFormed(raw, TypeOf(txParams), txParams, from) /\ Willing(txParams)
  <2>1. CASE kind = "ledger"
    BY <1>2, <1>3, <1>4, <2>1, LedgerSigns
  <2>2. CASE kind # "ledger"
    BY <1>2, <1>3, <1>4, <2>2, KeySigns
  <2> QED BY <2>1, <2>2
<1> QED
  <2>1. PICK signed : signed = raw
    OBVIOUS
  <2>2. last' = [tx |-> txParams, from |-> from, raw |-> signed]
    BY <1>2, <2>1
  <2>3. WellFormed(signed, TypeOf(txParams), txParams, from)
    BY <1>5, <2>1
  <2>4. last'.tx = txParams /\ last'.from = from /\ last'.raw = signed
    BY <2>2
  <2>5. WellFormed(last'.raw, TypeOf(txParams), txParams, from)
    BY <2>3, <2>4
  <2> QED BY <1>5, <2>4, <2>5, Zenon DEF LastInv, SignedHere

\* A transaction of an older type is received.
LEMMA ReceiveKeepsLast ==
  ASSUME Receive
  PROVE  LastInv'
<1>1. PICK old \in OldTxs, from \in Keys, parity \in {0, 1} :
        last' = [tx |-> old.tx, from |-> from, raw |-> OldRaw(old, from, parity)]
  BY Zenon DEF Receive
<1>2. WellFormed(OldRaw(old, from, parity), old.type, old.tx, from)
  BY OldIsWellFormed
<1>3. /\ last'.tx = old.tx /\ last'.from = from
      /\ last'.raw = OldRaw(old, from, parity)
  BY <1>1
<1>4. WellFormed(last'.raw, old.type, old.tx, from)
  BY <1>2, <1>3
<1> QED BY <1>3, <1>4, Zenon DEF LastInv, SignedLongAgo

\* Every step keeps it.
LEMMA NextLastInv == LastInv /\ [WalletNext]_walletVars => LastInv'
<1> SUFFICES ASSUME LastInv, [WalletNext]_walletVars PROVE LastInv'
  OBVIOUS
<1>1. CASE UNCHANGED last
  BY <1>1 DEF LastInv, SignedHere, SignedLongAgo
<1>2. ASSUME NEW c \in Callers, CallInit(c) \/ InitStep(c) \/ Again(c)
      PROVE  UNCHANGED last
  BY <1>2, Zenon DEF CallInit, InitStep, LoadKey, DeriveAddress, LoadDone, LoadFails,
                     Poll, Again
<1>3. CASE HandOver
  BY <1>3 DEF HandOver, Nothing, Error, LastInv
<1>4. CASE UNCHANGED walletVars
  BY <1>1, <1>4 DEF walletVars
<1> QED
  BY <1>1, <1>2, <1>3, <1>4, SignKeepsLast, ReceiveKeepsLast, Zenon DEF WalletNext

-----------------------------------------------------------------------------
(* Signers.                                                                *)

\* Whoever signed a well formed transaction is recovered, unless it is a legacy one
\* of a chain that does not come back.
LEMMA SomebodyRecovered ==
  ASSUME NEW raw, NEW txParams, NEW who \in Keys, NEW type \in Types \cup OldTypes,
         WellFormed(raw, type, txParams, who), ~Typed(type) => txParams.chainId \in Nat
  PROVE  RecoverTransaction(raw).signer = who
           <=> (Typed(DetermineTXType(raw)) \/ txParams.chainId \in 1 .. SignBit \div 2 - 1)
<1>1. who # Stranger
  BY SignersAssumption
<1>2. DetermineTXType(raw) = type
  BY TypeFound
<1>3. RecoverTransaction(raw).signer =
        IF Typed(type) THEN TypedSigner(raw) ELSE LegacySigner(raw)
  BY <1>2 DEF RecoverTransaction
<1>4. CASE Typed(type)
  <2>1. type \in {"cip66", "cip64", "cip42", "eip1559"}
    BY <1>4 DEF Types, OldTypes, Typed
  <2> QED BY <1>2, <1>3, <1>4, <2>1, TypedRecovers
<1>5. CASE ~Typed(type)
  <2>1. type \in {"ethereum-legacy", "celo-legacy"}
    BY <1>5 DEF Typed
  <2>2. LegacySigner(raw) = who <=> txParams.chainId \in 1 .. SignBit \div 2 - 1
    BY <1>1, <1>5, <2>1, LegacyRecovers
  <2> QED BY <1>2, <1>3, <1>5, <2>2
<1> QED BY <1>4, <1>5

\* That is so for the last transaction.
LEMMA LastRecovered == LastInv => RecoversSigner
<1> SUFFICES ASSUME LastInv, Signed PROVE RecoversSigner
  BY DEF RecoversSigner
<1>1. CASE SignedHere
  <2>1. PICK txParams \in Txs, who \in Keys :
          /\ last.tx = txParams /\ last.from = who
          /\ WellFormed(last.raw, TypeOf(txParams), txParams, who) /\ Willing(txParams)
    BY <1>1, Zenon DEF SignedHere
  <2>2. txParams.chainId \in Nat
    BY <2>1, TxsAssumption DEF Willing, AssertSerializable, TxRecords, TxFields, Undefined
  <2>3. TypeOf(txParams) \in Types \cup OldTypes
    BY TypeOfTypes
  <2>4. RecoverTransaction(last.raw).signer = who
          <=> (\/ Typed(DetermineTXType(last.raw))
               \/ txParams.chainId \in 1 .. SignBit \div 2 - 1)
    BY <2>1, <2>2, <2>3, SomebodyRecovered
  <2> QED BY <2>1, <2>4 DEF RecoversSigner, Recovered
<1>2. CASE SignedLongAgo
  <2>1. PICK old \in OldTxs, who \in Keys :
          /\ last.tx = old.tx /\ last.from = who
          /\ WellFormed(last.raw, old.type, old.tx, who)
    BY <1>2, Zenon DEF SignedLongAgo
  <2>2. /\ old.type \in Types \cup OldTypes
        /\ old.tx.chainId \in Nat
    BY OldTxsAssumption DEF OldTypes
  <2>3. RecoverTransaction(last.raw).signer = who
          <=> (\/ Typed(DetermineTXType(last.raw))
               \/ old.tx.chainId \in 1 .. SignBit \div 2 - 1)
    BY <2>1, <2>2, SomebodyRecovered
  <2> QED BY <2>1, <2>3 DEF RecoversSigner, Recovered
<1> QED BY <1>1, <1>2 DEF LastInv, Signed

-----------------------------------------------------------------------------
(* Fields.                                                                 *)

\* A double loses nothing up to MaxSafe, and an absent field is read as 0.
LEMMA ReadOf ==
  ASSUME NEW x \in Nat \cup {Undefined}
  PROVE  HandleNumber(Item(x)) = IF x <= MaxSafe THEN Item(x) ELSE HandleNumber(x)
<1>1. MaxSafe \in Nat
  BY WidthsAssumption
<1>2. CASE x <= MaxSafe
  BY <1>1, <1>2 DEF HandleNumber, Item, Undefined
<1>3. CASE ~(x <= MaxSafe)
  BY <1>1, <1>3 DEF Item, Undefined
<1> QED BY <1>2, <1>3

\* A field that is given has a place in the type that is chosen, or is one of the
\* two that may be dropped.
LEMMA NothingDropped ==
  ASSUME NEW txParams \in TxRecords, Willing(txParams), NEW f \in TxFields \ {"chainId"},
         isPresent(txParams[f])
  PROVE  \/ f \in Members(Named(TypeOf(txParams)))
         \/ f = "maxFeeInFeeCurrency" /\ ~isPresent(txParams.feeCurrency)
         \/ f = "accessList" /\ isPresent(txParams.gasPrice)
<1>1. CASE TypeOf(txParams) = "cip66"
  <2>1. isPresent(txParams.feeCurrency) /\ ~isPresent(txParams.gasPrice)
    BY <1>1 DEF TypeOf, isCIP66, Willing
  <2>2. f # "gasPrice"
    BY <2>1
  <2>3. TxFields \ {"chainId", "gasPrice"} \subseteq Members(Named("cip66"))
    BY MembersAre DEF TxFields
  <2> QED BY <1>1, <2>2, <2>3
<1>2. CASE TypeOf(txParams) = "cip64"
  <2>1. isPresent(txParams.feeCurrency) /\ ~isPresent(txParams.gasPrice)
    BY <1>2 DEF TypeOf, isCIP64, Willing
  <2>2. ~isPresent(txParams.maxFeeInFeeCurrency)
    BY <1>2, <2>1 DEF TypeOf, isCIP66
  <2>3. f \notin {"gasPrice", "maxFeeInFeeCurrency"}
    BY <2>1, <2>2
  <2>4. TxFields \ {"chainId", "gasPrice", "maxFeeInFeeCurrency"}
          \subseteq Members(Named("cip64"))
    BY MembersAre DEF TxFields
  <2> QED BY <1>2, <2>3, <2>4
<1>3. CASE TypeOf(txParams) = "eip1559"
  <2>1. isEIP1559(txParams) /\ ~isPresent(txParams.gasPrice)
    BY <1>3 DEF TypeOf, Willing, AssertSerializable, isEIP1559
  <2>2. ~isPresent(txParams.feeCurrency)
    BY <1>3, <2>1 DEF TypeOf, isCIP64
  <2>3. f \notin {"gasPrice", "feeCurrency"}
    BY <2>1, <2>2
  <2>4. TxFields \ {"chainId", "gasPrice", "feeCurrency", "maxFeeInFeeCurrency"}
          \subseteq Members(Named("eip1559"))
    BY MembersAre DEF TxFields
  <2> QED BY <1>3, <2>2, <2>3, <2>4
<1>4. CASE TypeOf(txParams) = "ethereum-legacy"
  <2>1. ~isEIP1559(txParams)
    BY <1>4 DEF TypeOf
  <2>2. /\ isPresent(txParams.gasPrice)
        /\ ~isPresent(txParams.maxFeePerGas) /\ ~isPresent(txParams.maxPriorityFeePerGas)
        /\ ~isPresent(txParams.feeCurrency)
    BY <2>1 DEF Willing, AssertSerializable
  <2>3. f \notin {"maxFeePerGas", "maxPriorityFeePerGas", "feeCurrency"}
    BY <2>2
  <2>4. TxFields \ {"chainId", "maxFeePerGas", "maxPriorityFeePerGas", "feeCurrency",
                    "maxFeeInFeeCurrency", "accessList"}
          \subseteq Members(Named("ethereum-legacy"))
    BY MembersAre DEF TxFields
  <2> QED BY <1>4, <2>2, <2>3, <2>4
<1> QED BY <1>1, <1>2, <1>3, <1>4, TypeOfTypes DEF Types

\* So are its fields read as they were given.
LEMMA LastSurvives == LastInv => FieldsSurvive
<1> SUFFICES ASSUME LastInv, Signed, NEW f \in DOMAIN last.tx \ {"chainId"}
             PROVE  /\ isPresent(last.tx[f]) =>
                         \/ f \in DOMAIN Recovered.tx
                         \/ f = "maxFeeInFeeCurrency" /\ ~isPresent(last.tx.feeCurrency)
                         \/ f = "accessList" /\ isPresent(last.tx.gasPrice)
                    /\ f \in DOMAIN Recovered.tx =>
                         Recovered.tx[f] =
                           IF f \notin ByDouble(DetermineTXType(last.raw))
                              \/ last.tx[f] <= MaxSafe
                           THEN Item(last.tx[f]) ELSE HandleNumber(last.tx[f])
  BY Zenon DEF FieldsSurvive
<1>1. ASSUME NEW txParams, NEW who, NEW type \in Types \cup OldTypes,
             last.tx = txParams, WellFormed(last.raw, type, txParams, who),
             txParams[f] \in Nat \cup {Undefined}
      PROVE  /\ DOMAIN Recovered.tx = Members(Named(type)) \cup {"chainId"}
             /\ f \in DOMAIN Recovered.tx =>
                  Recovered.tx[f] =
                    IF f \notin ByDouble(DetermineTXType(last.raw)) \/ txParams[f] <= MaxSafe
                    THEN Item(txParams[f]) ELSE HandleNumber(txParams[f])
  <2>1. DetermineTXType(last.raw) = type
    BY <1>1, TypeFound
  <2>2. Recovered.tx = Fields(last.raw)
    BY DEF Recovered, RecoverTransaction
  <2> DEFINE raw == last.raw
  <2> HIDE DEF raw
  <2>3. DOMAIN Recovered.tx = Members(Named(type)) \cup {"chainId"}
    <3>1. WellFormed(raw, type, txParams, who)
      BY <1>1 DEF raw
    <3>2. DOMAIN Fields(raw) = Members(Named(type)) \cup {"chainId"}
      BY <3>1, FieldsRead
    <3> QED BY <2>2, <3>2 DEF raw
  <2>4. ASSUME f \in DOMAIN Recovered.tx
        PROVE  Recovered.tx[f] =
                 IF f \in ByDouble(type) THEN HandleNumber(Item(txParams[f])) ELSE Item(txParams[f])
    <3>1. WellFormed(raw, type, txParams, who)
      BY <1>1 DEF raw
    <3>2. \A g \in Members(Named(type)) \ {"chainId"} :
            Fields(raw)[g] =
              IF g \in ByDouble(type) THEN HandleNumber(Item(txParams[g])) ELSE Item(txParams[g])
      BY <3>1, FieldsRead
    <3> QED BY <2>2, <2>3, <2>4, <3>2 DEF raw
  <2>5. HandleNumber(Item(txParams[f])) =
          IF txParams[f] <= MaxSafe THEN Item(txParams[f]) ELSE HandleNumber(txParams[f])
    BY <1>1, ReadOf
  <2> QED BY <2>1, <2>3, <2>4, <2>5
<1>2. CASE SignedHere
  <2>1. PICK txParams \in Txs, who \in Keys :
          /\ last.tx = txParams /\ last.from = who
          /\ WellFormed(last.raw, TypeOf(txParams), txParams, who) /\ Willing(txParams)
    BY <1>2, Zenon DEF SignedHere
  <2>2. txParams \in TxRecords /\ f \in TxFields \ {"chainId"}
    BY <2>1, TxsAssumption DEF TxRecords
  <2>3. txParams[f] \in Nat \cup {Undefined}
    BY <2>2 DEF TxRecords
  <2>4. TypeOf(txParams) \in Types \cup OldTypes
    BY TypeOfTypes
  <2> QED BY <1>1, <2>1, <2>2, <2>3, <2>4, NothingDropped
<1>3. CASE SignedLongAgo
  <2>1. PICK old \in OldTxs, who \in Keys :
          /\ last.tx = old.tx /\ last.from = who
          /\ WellFormed(last.raw, old.type, old.tx, who)
    BY <1>3, Zenon DEF SignedLongAgo
  <2>2. /\ old.type \in Types \cup OldTypes
        /\ old.tx \in [Members(Named(old.type)) \cup {"chainId"} -> Nat]
    BY OldTxsAssumption, Zenon DEF OldTypes, Members
  <2>3. f \in Members(Named(old.type)) /\ old.tx[f] \in Nat
    BY <2>1, <2>2
  <2> QED BY <1>1, <2>1, <2>2, <2>3
<1> QED BY <1>2, <1>3 DEF LastInv, Signed

-----------------------------------------------------------------------------
(* recoverTransaction gives back who signed, a key of the wallet or of     *)
(* somebody who made a transaction of an older type, exactly when the      *)
(* transaction is typed or its chain survives v and the shift.             *)
THEOREM SignersRecovered == WalletSpec => []RecoversSigner
BY InitLastInv, NextLastInv, LastRecovered, PTL DEF WalletSpec

(* What is encoded comes back under its name, whatever combination of      *)
(* fields chose the type, and only the two fields that the property names  *)
(* may be dropped.                                                         *)
THEOREM NoFieldLost == WalletSpec => []FieldsSurvive
BY InitLastInv, NextLastInv, LastSurvives, PTL DEF WalletSpec
=============================================================================
