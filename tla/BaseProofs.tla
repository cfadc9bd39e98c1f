----------------------------- MODULE BaseProofs -----------------------------
(***************************************************************************)
(* Theorems about the two components of sdk/base: Lock, for any set of     *)
(* callers, and Futures.                                                   *)
(*                                                                         *)
(* Lock: IInv is inductive; the safety properties follow from it, and it   *)
(* makes each step of the lock a step of the abstract mutex or a stutter.  *)
(*                                                                         *)
(* Futures: no rejection is left without a handler, and what has been      *)
(* stopped stays so; the names that both modules need say whose they are.  *)
(***************************************************************************)
EXTENDS Lock, Futures, TLAPS

\* Appending a new element keeps a sequence free of duplicates.
LEMMA AppendNew ==
  ASSUME NEW S, NEW s \in Seq(S), NEW e \in S,
         \A i, j \in 1 .. Len(s) : s[i] = s[j] => i = j,
         \A i \in 1 .. Len(s) : s[i] # e
  PROVE  /\ Append(s, e) \in Seq(S)
         /\ \A i, j \in 1 .. Len(Append(s, e)) :
              Append(s, e)[i] = Append(s, e)[j] => i = j
         /\ \A x : (\E i \in 1 .. Len(Append(s, e)) : Append(s, e)[i] = x)
                     <=> x = e \/ \E i \in 1 .. Len(s) : s[i] = x
  OBVIOUS

\* Splicing the first element out of a sequence leaves its tail.
LEMMA SpliceFirst ==
  ASSUME NEW S, NEW s \in Seq(S), s # <<>>
  PROVE  SubSeq(s, 1, 0) \o SubSeq(s, 2, Len(s)) = Tail(s)
  OBVIOUS

\* The tail of a duplicate-free sequence has every element but the first.
LEMMA TailOfInjective ==
  ASSUME NEW S, NEW s \in Seq(S), s # <<>>,
         \A i, j \in 1 .. Len(s) : s[i] = s[j] => i = j
  PROVE  /\ Tail(s) \in Seq(S)
         /\ \A i, j \in 1 .. Len(Tail(s)) : Tail(s)[i] = Tail(s)[j] => i = j
         /\ \A x : (\E i \in 1 .. Len(Tail(s)) : Tail(s)[i] = x)
                     <=> x # Head(s) /\ \E i \in 1 .. Len(s) : s[i] = x
  <1>1. /\ Tail(s) \in Seq(S)
        /\ Len(Tail(s)) = Len(s) - 1
        /\ Head(s) = s[1]
        /\ Len(s) \in Nat \ {0}
        /\ \A i \in 1 .. Len(Tail(s)) : Tail(s)[i] = s[i + 1]
    OBVIOUS
  <1>2. \A i, j \in 1 .. Len(Tail(s)) : Tail(s)[i] = Tail(s)[j] => i = j
    BY <1>1
  <1>3. ASSUME NEW x, NEW i \in 1 .. Len(Tail(s)), Tail(s)[i] = x
        PROVE  x # Head(s) /\ \E k \in 1 .. Len(s) : s[k] = x
    <2>1. i + 1 \in 1 .. Len(s) /\ s[i + 1] = x /\ 1 \in 1 .. Len(s) /\ i + 1 # 1
      BY <1>1, <1>3
    <2> QED BY <1>1, <2>1
  <1>4. ASSUME NEW x, x # Head(s), NEW i \in 1 .. Len(s), s[i] = x
        PROVE  \E k \in 1 .. Len(Tail(s)) : Tail(s)[k] = x
    <2>1. i # 1
      BY <1>1, <1>4
    <2>2. i - 1 \in 1 .. Len(Tail(s)) /\ Tail(s)[i - 1] = x
      BY <1>1, <1>4, <2>1
    <2> QED BY <2>2
  <1> QED BY <1>1, <1>2, <1>3, <1>4

-----------------------------------------------------------------------------
\* While the lock is free, the callback that runs is the first listener's, and
\* what remains of the listeners is their tail.
LEMMA FirstListenerWins ==
  ASSUME IInv, NEW c \in Callers, Callback(c), ~locked
  PROVE  /\ listeners # <<>> /\ c = Head(listeners) /\ pc[c] = "waiting"
         /\ listeners' = Tail(listeners) /\ locked'
         /\ emitting' = Tail(listeners)
         /\ pc' = [pc EXCEPT ![c] = "holding"]
  <1>1. /\ emitting = listeners /\ listeners # <<>> /\ c = Head(listeners)
        /\ listeners \in Seq(Callers)
        /\ locked' /\ pc' = [pc EXCEPT ![c] = "holding"]
        /\ Unregister(c) /\ emitting' = Tail(listeners)
    BY DEF IInv, TypeOK, Callback, Grab
  <1>2. listeners[1] = c /\ 1 \in 1 .. Len(listeners)
    BY <1>1
  <1>3. Registered(c) /\ pc[c] = "waiting"
    BY <1>2 DEF Registered, IInv, NoListenerLeak, Owns
  <1>4. PICK i \in 1 .. Len(listeners) :
               /\ listeners[i] = c
               /\ listeners' = SubSeq(listeners, 1, i - 1)
                                 \o SubSeq(listeners, i + 1, Len(listeners))
    BY <1>1 DEF Unregister
  <1>5. i = 1
    BY <1>2, <1>4 DEF IInv, TypeOK
  <1>6. listeners' = Tail(listeners)
    BY <1>1, <1>4, <1>5, SpliceFirst
  <1> QED BY <1>1, <1>3, <1>6

LEMMA InitIInv == Init => IInv
  <1> SUFFICES ASSUME Init PROVE IInv
    OBVIOUS
  <1>1. \A c \in Callers : pc[c] = "idle"
    BY DEF Init
  <1>2. Len(listeners) = 0 /\ listeners \in Seq(Callers) /\ emitting \in Seq(Callers)
    BY DEF Init
  <1>3. \A i \in 1 .. Len(listeners) : FALSE
    BY <1>2
  <1>4. TypeOK
    <2>1. pc \in [Callers -> Stages]
      BY DEF Init, Stages
    <2> QED BY <1>2, <1>3, <2>1 DEF Init, TypeOK
  <1>5. NoListenerLeak
    BY <1>1, <1>3 DEF NoListenerLeak, Registered
  <1> QED BY <1>1, <1>4, <1>5 DEF Init, IInv, MutualExclusion, Owns

LEMMA NextIInv == IInv /\ [Next]_vars => IInv'
  <1> SUFFICES ASSUME IInv, [Next]_vars PROVE IInv'
    OBVIOUS
  <1> USE DEF IInv, TypeOK, MutualExclusion, Owns, Stages
  <1>1. ASSUME NEW c \in Callers, TryAcquire(c) PROVE IInv'
    <2>1. (NoListenerLeak)'
      BY <1>1 DEF TryAcquire, Grab, NoListenerLeak, Registered
    <2> QED BY <1>1, <2>1 DEF TryAcquire, Grab
  <1>2. ASSUME NEW c \in Callers, Acquire(c) PROVE IInv'
    <2>1. CASE Grab(c) /\ UNCHANGED listeners
      <3>1. (NoListenerLeak)'
        BY <1>2, <2>1 DEF Acquire, Grab, NoListenerLeak, Registered
      <3> QED BY <1>2, <2>1, <3>1 DEF Acquire, Grab
    <2>2. CASE locked /\ Register(c)
                 /\ pc' = [pc EXCEPT ![c] = "waiting"] /\ UNCHANGED locked
      <3>1. \A i \in 1 .. Len(listeners) : listeners[i] # c
        BY <1>2 DEF Acquire, NoListenerLeak, Registered
      <3>2. (NoListenerLeak)'
        <4>1. \A d : Registered(d)' <=> d = c \/ Registered(d)
          BY <2>2, <3>1, AppendNew DEF Register, Registered
        <4> QED BY <2>2, <4>1 DEF NoListenerLeak
      <3>3. (TypeOK)'
        BY <1>2, <2>2, <3>1, AppendNew DEF Acquire, Register
      <3> QED BY <1>2, <2>2, <3>2, <3>3 DEF Acquire
    <2> QED BY <1>2, <2>1, <2>2 DEF Acquire
  <1>3. ASSUME NEW c \in Callers, AcquireAgain(c) PROVE IInv'
    <2>1. \A i \in 1 .. Len(listeners) : listeners[i] # c
      BY <1>3 DEF AcquireAgain, NoListenerLeak, Registered
    <2>2. (NoListenerLeak)'
      <3>1. \A d : Registered(d)' <=> d = c \/ Registered(d)
        BY <1>3, <2>1, AppendNew DEF AcquireAgain, Register, Registered
      <3> QED BY <1>3, <3>1 DEF AcquireAgain, NoListenerLeak
    <2>3. (TypeOK)'
      BY <1>3, <2>1, AppendNew DEF AcquireAgain, Register
    <2> QED BY <1>3, <2>2, <2>3 DEF AcquireAgain
  <1>4. ASSUME NEW c \in Callers, Release(c) PROVE IInv'
    <2>1. (NoListenerLeak)'
      BY <1>4 DEF Release, NoListenerLeak, Registered
    <2>2. (TypeOK)'
      <3>1. locked' = FALSE /\ emitting' = listeners /\ listeners' = listeners
        BY <1>4 DEF Release
      <3>2. pc' \in [Callers -> Stages]
        BY <1>4 DEF Release
      <3> QED BY <3>1, <3>2
    <2>3. \A d \in Callers : ~Owns(d)'
      <3>1. \A d \in Callers : d # c => ~Owns(d)
        BY <1>4 DEF Release
      <3> QED BY <1>4, <3>1 DEF Release
    <2>4. ~locked' /\ emitting' = listeners'
      BY <1>4 DEF Release
    <2> HIDE DEF TypeOK, Owns
    <2> QED BY <2>1, <2>2, <2>3, <2>4
  <1>5. ASSUME NEW c \in Callers, Callback(c) PROVE IInv'
    <2>1. CASE locked
      <3>1. UNCHANGED <<locked, listeners, pc>> /\ emitting' \in Seq(Callers)
        BY <1>5, <2>1 DEF Callback, Grab
      <3>2. (NoListenerLeak)'
        BY <3>1 DEF NoListenerLeak, Registered
      <3> QED BY <2>1, <3>1, <3>2
    <2>2. CASE ~locked
      <3>1. /\ listeners # <<>> /\ c = Head(listeners)
            /\ listeners' = Tail(listeners) /\ locked'
            /\ emitting' = Tail(listeners)
            /\ pc' = [pc EXCEPT ![c] = "holding"]
        BY <1>5, <2>2, FirstListenerWins
      <3>2. (NoListenerLeak)'
        <4>1. \A d : Registered(d)' <=> d # c /\ Registered(d)
          <5>0. /\ listeners \in Seq(Callers) /\ listeners # <<>>
                /\ \A i, j \in 1 .. Len(listeners) : listeners[i] = listeners[j] => i = j
            BY <3>1
          <5> HIDE DEF IInv
          <5>1. \A d : (\E i \in 1 .. Len(Tail(listeners)) : Tail(listeners)[i] = d)
                         <=> d # Head(listeners) /\ \E i \in 1 .. Len(listeners) : listeners[i] = d
            BY ONLY <5>0, TailOfInjective
          <5> QED BY <3>1, <5>1 DEF Registered
        <4> QED BY <3>1, <4>1 DEF NoListenerLeak
      <3>3. (TypeOK)'
        BY <3>1, TailOfInjective
      <3> QED BY <2>2, <3>1, <3>2, <3>3
    <2> QED BY <2>1, <2>2
  <1>6. CASE UNCHANGED vars
    BY <1>6 DEF vars, NoListenerLeak, Registered
  <1> QED BY <1>1, <1>2, <1>3, <1>4, <1>5, <1>6 DEF Next

LEMMA AlwaysIInv == Spec => []IInv
  BY InitIInv, NextIInv, PTL DEF Spec

\* The variables of lock.ts keep their types and no callback registers twice.
THEOREM TypeCorrect == Spec => []TypeOK
  <1>1. IInv => TypeOK
    BY DEF IInv
  <1> QED BY <1>1, AlwaysIInv, PTL

\* acquire() grants the lock to at most one caller at a time.
THEOREM LockExcludes == Spec => []MutualExclusion
  <1>1. IInv => MutualExclusion
    BY DEF IInv
  <1> QED BY <1>1, AlwaysIInv, PTL

\* A free lock has no sleeping waiter once the emission is over.
THEOREM LockWakes == Spec => []NoLostWakeup
  <1>1. IInv => NoLostWakeup
    BY DEF IInv, NoLostWakeup
  <1> QED BY <1>1, AlwaysIInv, PTL

\* The listeners are exactly the pending calls of acquire().
THEOREM LockLeaksNothing == Spec => []NoListenerLeak
  <1>1. IInv => NoListenerLeak
    BY DEF IInv
  <1> QED BY <1>1, AlwaysIInv, PTL

-----------------------------------------------------------------------------
\* The refinement.  Each of these says what MutexView is in one kind of state.
LEMMA ViewLocked ==
  \A c \in Callers : IInv /\ Owns(c) =>
    locked /\ Owner = c /\ MutexView = [holder |-> c, queue |-> listeners]
  <1> SUFFICES ASSUME NEW c \in Callers, IInv, Owns(c)
               PROVE  /\ locked /\ Owner = c
                      /\ MutexView = [holder |-> c, queue |-> listeners]
    OBVIOUS
  <1>1. Owner = c
    BY DEF Owner, IInv, MutualExclusion
  <1>2. locked
    BY DEF IInv
  <1> QED BY <1>1, <1>2 DEF MutexView

LEMMA ViewFree ==
  ~locked /\ listeners = <<>> => MutexView = [holder |-> NoOne, queue |-> <<>>]
  BY DEF MutexView

LEMMA ViewHandover ==
  ~locked /\ listeners # <<>> =>
    MutexView = [holder |-> Head(listeners), queue |-> Tail(listeners)]
  BY DEF MutexView

\* They hold in the second state of a step too.
LEMMA ViewNext ==
  /\ \A c \in Callers : IInv' /\ Owns(c)' =>
       MutexView' = [holder |-> c, queue |-> listeners']
  /\ ~locked' /\ listeners' = <<>> =>
       MutexView' = [holder |-> NoOne, queue |-> <<>>]
  /\ ~locked' /\ listeners' # <<>> =>
       MutexView' = [holder |-> Head(listeners'), queue |-> Tail(listeners')]
  <1>1. (\A c \in Callers : IInv /\ Owns(c) =>
           locked /\ Owner = c /\ MutexView = [holder |-> c, queue |-> listeners])'
    BY ViewLocked, PTL
  <1>2. (~locked /\ listeners = <<>> =>
           MutexView = [holder |-> NoOne, queue |-> <<>>])'
    BY ViewFree, PTL
  <1>3. (~locked /\ listeners # <<>> =>
           MutexView = [holder |-> Head(listeners), queue |-> Tail(listeners)])'
    BY ViewHandover, PTL
  <1> QED BY <1>1, <1>2, <1>3

\* A caller waits for the mutex in the view iff its callback is registered.
LEMMA WaitsIsRegistered ==
  ASSUME IInv, locked, NEW c \in Callers
  PROVE  M!Waits(MutexView, c) <=> pc[c] \in {"waiting", "selfblocked"}
  <1>1. MutexView.queue = listeners
    BY DEF MutexView
  <1> QED BY <1>1 DEF M!Waits, IInv, NoListenerLeak, Registered

LEMMA GrabIsAcquire ==
  ASSUME IInv, IInv', NEW c \in Callers, pc[c] = "idle", emitting = <<>>,
         Grab(c), UNCHANGED listeners
  PROVE  M!Acquire(c)
  <1>1. listeners = <<>> /\ ~locked
    BY DEF Grab, IInv
  <1>2. MutexView = [holder |-> NoOne, queue |-> <<>>]
    BY <1>1, ViewFree
  <1>3. Owns(c)'
    BY DEF Grab, Owns, IInv, TypeOK
  <1>4. MutexView' = [holder |-> c, queue |-> <<>>]
    BY <1>1, <1>3, ViewNext
  <1> QED BY <1>2, <1>4 DEF M!Acquire, M!Acquired, M!Waits

LEMMA RegisterIsAcquire ==
  ASSUME IInv, IInv', NEW c \in Callers, locked, UNCHANGED locked, Register(c),
         pc[c] \notin {"waiting", "selfblocked"},
         NEW o \in Callers, Owns(o), Owns(o)'
  PROVE  M!Acquire(c)
  <1>1. MutexView = [holder |-> o, queue |-> listeners]
    BY ViewLocked
  <1>2. MutexView' = [holder |-> o, queue |-> listeners']
    BY ViewNext
  <1>3. o # NoOne
    BY CallersAssumption
  <1>4. ~M!Waits(MutexView, c)
    BY WaitsIsRegistered
  <1> QED BY <1>1, <1>2, <1>3, <1>4 DEF M!Acquire, M!Acquired, Register

LEMMA StepRefines == IInv /\ IInv' /\ [Next]_vars => [M!Next]_MutexView
  <1> SUFFICES ASSUME IInv, IInv', [Next]_vars
               PROVE  M!Next \/ UNCHANGED MutexView
    OBVIOUS
  <1>1. ASSUME NEW c \in Callers, TryAcquire(c) PROVE M!Next
    BY <1>1, GrabIsAcquire DEF TryAcquire, M!Next
  <1>2. ASSUME NEW c \in Callers, Acquire(c) PROVE M!Next
    <2>1. CASE Grab(c) /\ UNCHANGED listeners
      BY <1>2, <2>1, GrabIsAcquire DEF Acquire, M!Next
    <2>2. CASE locked /\ Register(c)
                 /\ pc' = [pc EXCEPT ![c] = "waiting"] /\ UNCHANGED locked
      <3>1. PICK o \in Callers : Owns(o)
        BY <2>2 DEF IInv
      <3>2. o # c /\ pc[c] = "idle"
        BY <1>2, <3>1 DEF Acquire, Owns
      <3>3. Owns(o)'
        BY <2>2, <3>1, <3>2 DEF Owns, IInv, TypeOK
      <3> QED BY <2>2, <3>1, <3>2, <3>3, RegisterIsAcquire DEF M!Next
    <2> QED BY <1>2, <2>1, <2>2 DEF Acquire
  <1>3. ASSUME NEW c \in Callers, AcquireAgain(c) PROVE M!Next
    <2>1. pc[c] = "holding" /\ Owns(c) /\ Register(c) /\ UNCHANGED locked
      BY <1>3 DEF AcquireAgain, Owns
    <2>2. Owns(c)'
      BY <1>3 DEF AcquireAgain, Owns, IInv, TypeOK
    <2>3. locked
      BY <2>1 DEF IInv
    <2> QED BY <2>1, <2>2, <2>3, RegisterIsAcquire DEF M!Next
  <1>4. ASSUME NEW c \in Callers, Release(c) PROVE M!Next
    <2>1. pc[c] = "holding" /\ Owns(c) /\ ~locked' /\ UNCHANGED listeners
      BY <1>4 DEF Release, Owns
    <2>2. MutexView = [holder |-> c, queue |-> listeners] /\ locked
      BY <2>1, ViewLocked
    <2>3. ~M!Waits(MutexView, c)
      BY <2>1, <2>2, WaitsIsRegistered
    <2>4. CASE listeners = <<>>
      <3>1. MutexView' = [holder |-> NoOne, queue |-> <<>>]
        BY <2>1, <2>4, ViewNext
      <3> QED BY <2>2, <2>3, <2>4, <3>1 DEF M!Next, M!Release, M!Released, M!Free
    <2>5. CASE listeners # <<>>
      <3>1. MutexView' = [holder |-> Head(listeners), queue |-> Tail(listeners)]
        BY <2>1, <2>5, ViewNext
      <3> QED BY <2>2, <2>3, <2>5, <3>1 DEF M!Next, M!Release, M!Released
    <2> QED BY <2>4, <2>5
  <1>5. ASSUME NEW c \in Callers, Callback(c) PROVE UNCHANGED MutexView
    <2>1. CASE locked
      <3>1. UNCHANGED <<locked, listeners, pc>>
        BY <1>5, <2>1 DEF Callback, Grab
      <3> QED BY <3>1 DEF MutexView, Owner, Owns
    <2>2. CASE ~locked
      <3>1. /\ listeners # <<>> /\ c = Head(listeners)
            /\ listeners' = Tail(listeners)
            /\ pc' = [pc EXCEPT ![c] = "holding"]
        BY <1>5, <2>2, FirstListenerWins
      <3>2. MutexView = [holder |-> c, queue |-> Tail(listeners)]
        BY <2>2, <3>1, ViewHandover
      <3>3. Owns(c)'
        BY <3>1 DEF Owns, IInv, TypeOK
      <3>4. MutexView' = [holder |-> c, queue |-> listeners']
        BY <3>3, ViewNext
      <3> QED BY <3>1, <3>2, <3>4
    <2> QED BY <2>1, <2>2
  <1>6. CASE UNCHANGED vars
    BY <1>6 DEF vars, MutexView, Owner, Owns
  <1> QED BY <1>1, <1>2, <1>3, <1>4, <1>5, <1>6 DEF Next

\* The EventEmitter lock implements the first come, first served mutex: acquire()
\* and release() are atomic, and release() hands over to the longest waiter.
THEOREM LockImplementsMutex == Spec => ImplementsMutex
  <1>1. Init => M!Init
    BY ViewFree DEF Init, M!Init, M!Free
  <1> QED BY <1>1, StepRefines, AlwaysIInv, PTL DEF Spec, ImplementsMutex, M!Spec

-----------------------------------------------------------------------------
\* Who waits at once waits for the value, or for the hash and, from the moment that
\* the hash is settled, for the receipt; which is never settled before it.
Awaited ==
  eager /\ kind # "watch" =>
    IF kind = "sent"
    THEN /\ "hash" \in handled
         /\ promise["hash"] # "pending" => "receipt" \in handled
    ELSE "result" \in handled

HashFirst ==
  kind = "sent" =>
    /\ web3 = "hash" => promise["hash"] # "pending"
    /\ promise["receipt"] # "pending" => promise["hash"] # "pending"

PromiseType == promise = [f \in Promises |-> promise[f]]

\* Only tasks are stopped, and nothing starts them again.
Halted == stopped \/ successes > 0 => ~isActive /\ kind \in Tasks

FuturesInv == PromiseType /\ HashFirst /\ Awaited /\ Halted

\* Nothing has settled and nothing is stopped at first.
LEMMA InitFutures == FuturesInit => FuturesInv
  BY DEF FuturesInit, FuturesInv, PromiseType, HashFirst, Awaited, Halted, Promises,
    Retries

\* The kind of what runs, and who waits when, never change.
LEMMA GivenStays == [FuturesNext]_futuresVars => UNCHANGED <<kind, eager>>
  BY DEF FuturesNext, Turn, Answer, Event, Try, Timeout, Execute, Wake,
    Value, Failure, Permanent, Nothing, Obtain, Hold, Succeed,
    TransactionHash, Receipt, MiningError, SendError, Emits, Stop,
    Await, given, futuresVars

\* What a step of a loop, or of who stops it, does to promises: it settles its own
\* one or none, and changes nothing else of them.
Own ==
  /\ kind # "sent" \/ UNCHANGED promise
  /\ UNCHANGED promise \/ \E as \in {"resolved", "rejected"} : Settle("result", as)
  /\ UNCHANGED <<handled, web3, given>>

\* Every step but those of web3 and of who begins to wait is of that sort.
LEMMA LoopSteps == Turn \/ Answer \/ Stop => Own
  <1> SUFFICES ASSUME Turn \/ Answer \/ Stop PROVE Own
    OBVIOUS
  <1> USE DEF Own, Goes, Ends, Retries, Tasks
  <1>1. CASE Try BY <1>1 DEF Try
  <1>2. CASE Timeout BY <1>2 DEF Timeout
  <1>3. CASE Execute BY <1>3 DEF Execute
  <1>4. CASE Wake BY <1>4 DEF Wake
  <1>5. CASE Value BY <1>5 DEF Value
  <1>6. CASE Failure BY <1>6 DEF Failure
  <1>7. CASE Permanent BY <1>7 DEF Permanent
  <1>8. CASE Nothing BY <1>8 DEF Nothing, Again
  <1>9. CASE Obtain BY <1>9 DEF Obtain
  <1>10. CASE Hold BY <1>10 DEF Hold
  <1>11. CASE Succeed BY <1>11 DEF Succeed, Again
  <1>12. CASE Stop BY <1>12 DEF Stop
  <1> QED BY <1>1, <1>2, <1>3, <1>4, <1>5, <1>6, <1>7, <1>8, <1>9, <1>10, <1>11,
             <1>12 DEF Turn, Answer

\* Own steps keep what is said of promises.
LEMMA OwnKeeps ==
  ASSUME PromiseType, HashFirst, Awaited, Own
  PROVE  PromiseType' /\ HashFirst' /\ Awaited'
  <1>1. UNCHANGED <<kind, eager, handled, web3, Promises>>
    BY DEF Own, given, Promises
  <1>2. PromiseType'
    <2>1. CASE UNCHANGED promise BY <1>1, <2>1 DEF PromiseType
    <2>2. ASSUME NEW as, Settle("result", as) PROVE PromiseType'
      BY <1>1, <2>2 DEF PromiseType, Settle
    <2> QED BY <2>1, <2>2 DEF Own
  <1>3. HashFirst' /\ Awaited'
    BY <1>1 DEF Own, HashFirst, Awaited
  <1> QED BY <1>2, <1>3

\* So do the events of web3, in whatever order they come ...
LEMMA EventKeeps ==
  ASSUME PromiseType, HashFirst, Awaited, Event
  PROVE  PromiseType' /\ HashFirst' /\ Awaited'
  <1>1. PICK hash, receipt \in {"pending", "resolved", "rejected"},
             event \in {"hash", "end"} :
          /\ Emits(hash, receipt, event)
          /\ hash # "pending" \/ web3 = "hash"
    BY DEF Event, TransactionHash, Receipt, MiningError, SendError
  <1>2. kind = "sent" /\ UNCHANGED <<kind, eager, Promises>>
    BY <1>1 DEF Emits, given, Promises
  <1>3. promise'["hash"] # "pending"
    BY <1>1, <1>2 DEF Emits, HashFirst, Promises
  <1>4. PromiseType'
    BY <1>1, <1>2 DEF Emits, PromiseType
  <1>5. HashFirst'
    BY <1>2, <1>3 DEF HashFirst
  <1>6. Awaited'
    BY <1>1, <1>2, <1>3 DEF Emits, Awaited, HandlesToo
  <1> QED BY <1>4, <1>5, <1>6

\* ... and who begins to wait.
LEMMA AwaitKeeps ==
  ASSUME PromiseType, HashFirst, Awaited, Await
  PROVE  PromiseType' /\ HashFirst' /\ Awaited'
  <1>1. UNCHANGED <<kind, eager, web3, promise, Promises>>
    BY DEF Await, given, Promises
  <1>2. Awaited'
    BY <1>1 DEF Await, Awaited, HandlesToo, Promises
  <1> QED BY <1>1, <1>2 DEF PromiseType, HashFirst

\* Only a task is stopped, only the condition of a watch succeeds, which stops it,
\* and no step makes a task active.
LEMMA HaltedStays == Halted /\ [FuturesNext]_futuresVars => Halted'
  <1> SUFFICES ASSUME Halted, [FuturesNext]_futuresVars PROVE Halted'
    OBVIOUS
  <1> USE DEF Halted, given, task
  <1>1. kind' = kind
    BY GivenStays
  <1>2. CASE UNCHANGED task BY <1>1, <1>2
  <1>3. CASE Execute BY <1>3 DEF Execute
  <1>4. CASE Obtain BY <1>1, <1>4 DEF Obtain
  <1>5. CASE Hold BY <1>1, <1>5 DEF Hold, Tasks
  <1>6. CASE Stop BY <1>1, <1>6 DEF Stop
  <1>7. UNCHANGED task \/ Execute \/ Obtain \/ Hold \/ Stop
    BY DEF FuturesNext, Turn, Answer, Event, Try, Timeout, Wake, Value,
      Failure, Permanent, Nothing, Succeed, TransactionHash, Receipt,
      MiningError, SendError, Emits, Await, futuresVars
  <1> QED BY <1>2, <1>3, <1>4, <1>5, <1>6, <1>7

LEMMA NextFutures == FuturesInv /\ [FuturesNext]_futuresVars => FuturesInv'
  <1> SUFFICES ASSUME FuturesInv, [FuturesNext]_futuresVars PROVE FuturesInv'
    OBVIOUS
  <1>1. Halted'
    BY HaltedStays DEF FuturesInv
  <1>2. PromiseType' /\ HashFirst' /\ Awaited'
    <2>1. CASE Turn \/ Answer \/ Stop BY <2>1, LoopSteps, OwnKeeps DEF FuturesInv
    <2>2. CASE Event BY <2>2, EventKeeps DEF FuturesInv
    <2>3. CASE Await BY <2>3, AwaitKeeps DEF FuturesInv
    <2>4. CASE UNCHANGED futuresVars
      BY <2>4 DEF futuresVars, given, FuturesInv, PromiseType, HashFirst, Awaited,
        Promises
    <2> QED BY <2>1, <2>2, <2>3, <2>4 DEF FuturesNext
  <1> QED BY <1>1, <1>2 DEF FuturesInv

LEMMA AlwaysFutures == FuturesSpec => []FuturesInv
  BY InitFutures, NextFutures, PTL DEF FuturesSpec

-----------------------------------------------------------------------------
\* Whoever waits at once leaves no rejection that nobody handles, whatever the loops
\* and web3 do (future.ts, tx-result.ts, `so not UnhandlePromise error occurrs').
THEOREM RejectionsHandled == FuturesSpec => []NoUnhandledRejection
  <1>1. FuturesInv => NoUnhandledRejection
    BY DEF FuturesInv, HashFirst, Awaited, NoUnhandledRejection, Promises
  <1> QED BY <1>1, AlwaysFutures, PTL

\* A task that was stopped, or has called onSuccess, makes no call any more
\* (task.ts, `isActive').
THEOREM TasksStayStopped == FuturesSpec => StaysStopped
  <1>1. FuturesInv /\ [FuturesNext]_futuresVars => [stopped \/ successes > 0 => calls' = calls]_futuresVars
    <2> SUFFICES ASSUME FuturesInv, FuturesNext, stopped \/ successes > 0
                 PROVE  calls' = calls
      BY DEF futuresVars
    <2>1. ~isActive /\ kind \in Tasks
      BY DEF FuturesInv, Halted
    <2>2. CASE Execute BY <2>1, <2>2 DEF Execute
    <2>3. CASE Try BY <2>1, <2>3 DEF Try, Tasks, Retries
    <2>4. Execute \/ Try \/ calls' = calls
      BY DEF FuturesNext, Turn, Answer, Event, Timeout, Wake, Value,
        Failure, Permanent, Nothing, Obtain, Hold, Succeed,
        TransactionHash, Receipt, MiningError, SendError, Emits, Stop,
        Await
    <2> QED BY <2>2, <2>3, <2>4
  <1> QED BY <1>1, AlwaysFutures, PTL DEF FuturesSpec, StaysStopped
=============================================================================
