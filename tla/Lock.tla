-------------------------------- MODULE Lock --------------------------------
(***************************************************************************)
(* The Lock of packages/sdk/base/src/lock.ts: a flag and an EventEmitter.  *)
(* release() clears the flag and emits "unlock"; emit runs the callbacks   *)
(* of a copy of the listeners, first registered first, and each of them    *)
(* tries to take the lock.  An emission is a sequence of steps here, one   *)
(* per callback, with no other step between them (the emission is          *)
(* synchronous); promise continuations run after it.                       *)
(*                                                                         *)
(* A member of Callers is a client that acquires, holds and releases, over *)
(* and over.  Those in Reentrant may also call acquire() while holding.    *)
(***************************************************************************)
EXTENDS Naturals, Sequences
CONSTANTS Callers, Reentrant, NoOne

ASSUME CallersAssumption == /\ NoOne \notin Callers
                            /\ Reentrant \subseteq Callers

VARIABLES
  locked,      \* the flag of the Lock
  listeners,   \* the registered "unlock" callbacks, each named by its caller
  emitting,    \* the callbacks that the current emission has still to run
  pc           \* where each caller is

vars == <<locked, listeners, emitting, pc>>

Stages == {"idle", "waiting", "holding", "selfblocked"}

\* The caller was granted the lock and has not released it.
Owns(c) == pc[c] \in {"holding", "selfblocked"}

Registered(c) == \E i \in 1 .. Len(listeners) : listeners[i] = c

-----------------------------------------------------------------------------
Init == /\ locked = FALSE
        /\ listeners = <<>>
        /\ emitting = <<>>
        /\ pc = [c \in Callers |-> "idle"]

\* tryAcquire() that returns true.
Grab(c) == /\ ~locked
           /\ locked' = TRUE
           /\ pc' = [pc EXCEPT ![c] = "holding"]

TryAcquire(c) == /\ emitting = <<>>
                 /\ pc[c] = "idle"
                 /\ Grab(c)
                 /\ UNCHANGED <<listeners, emitting>>

\* MUTANT of Register: prependListener, last come, first served.
RegisterFirst(c) == listeners' = <<c>> \o listeners

\* The callback of a caller is put at the end of the listeners.
Register(c) == listeners' = Append(listeners, c)

Acquire(c) == /\ emitting = <<>>
              /\ pc[c] = "idle"
              /\ \/ Grab(c) /\ UNCHANGED listeners
                 \/ /\ locked
                    /\ Register(c)
                    /\ pc' = [pc EXCEPT ![c] = "waiting"]
                    /\ UNCHANGED locked
              /\ UNCHANGED emitting

\* acquire() by the holder: it registers too, and never gets to its release().
AcquireAgain(c) == /\ emitting = <<>>
                   /\ c \in Reentrant
                   /\ pc[c] = "holding"
                   /\ Register(c)
                   /\ pc' = [pc EXCEPT ![c] = "selfblocked"]
                   /\ UNCHANGED <<locked, emitting>>

\* MUTANT of Release: the flag is cleared and nothing is emitted.
ReleaseSilently(c) == /\ emitting = <<>>
                      /\ pc[c] = "holding"
                      /\ locked' = FALSE
                      /\ pc' = [pc EXCEPT ![c] = "idle"]
                      /\ UNCHANGED <<listeners, emitting>>

\* release() by the holder: the emission starts with a copy of the listeners.
Release(c) == /\ emitting = <<>>
              /\ pc[c] = "holding"
              /\ locked' = FALSE
              /\ emitting' = listeners
              /\ pc' = [pc EXCEPT ![c] = "idle"]
              /\ UNCHANGED listeners

\* removeListener splices the callback out of the array.
Unregister(c) ==
  \E i \in 1 .. Len(listeners) :
    /\ listeners[i] = c
    /\ listeners' = SubSeq(listeners, 1, i - 1)
                      \o SubSeq(listeners, i + 1, Len(listeners))

\* MUTANT of Callback: the callback does not try, it takes the lock.
CallbackTakes(c) == /\ emitting # <<>>
                    /\ c = Head(emitting)
                    /\ emitting' = Tail(emitting)
                    /\ locked' = TRUE
                    /\ pc' = [pc EXCEPT ![c] = "holding"]
                    /\ Unregister(c)

\* The emission runs the next callback, which takes the lock if it is free.
Callback(c) == /\ emitting # <<>>
               /\ c = Head(emitting)
               /\ emitting' = Tail(emitting)
               /\ \/ Grab(c) /\ Unregister(c)
                  \/ locked /\ UNCHANGED <<locked, listeners, pc>>

Next == \E c \in Callers : \/ TryAcquire(c)
                           \/ Acquire(c)
                           \/ AcquireAgain(c)
                           \/ Release(c)
                           \/ Callback(c)

Spec == Init /\ [][Next]_vars

\* The engine finishes an emission, and whoever holds the lock releases it:
\* the one user of the class, celo-provider.ts, does so in a finally block.
Fairness == \A c \in Callers : WF_vars(Callback(c)) /\ WF_vars(Release(c))

FairSpec == Spec /\ Fairness

-----------------------------------------------------------------------------
\* The types of the variables, and that no callback is registered twice.
TypeOK == /\ locked \in BOOLEAN
          /\ listeners \in Seq(Callers)
          /\ emitting \in Seq(Callers)
          /\ pc \in [Callers -> Stages]
          /\ \A i, j \in 1 .. Len(listeners) : listeners[i] = listeners[j] => i = j

\* Two callers never hold the lock at once, although one release() runs the
\* callback of every caller that waits (lock.ts, callback of acquire).
MutualExclusion == \A c, d \in Callers : Owns(c) /\ Owns(d) => c = d

\* Once an emission has ended, a free lock has nobody waiting for it: a caller
\* that registered can only be woken by a later release(), so a free lock with a
\* listener would leave that listener asleep until a stranger used the lock.
NoLostWakeup == ~locked /\ emitting = <<>> => listeners = <<>>

\* The listeners are those of the calls that are still pending: none is left
\* behind by a call that was granted, none is lost (lock.test.ts checks the count
\* is zero at the end; here it holds at every moment).
NoListenerLeak == \A c \in Callers :
                    Registered(c) <=> pc[c] \in {"waiting", "selfblocked"}

\* Every caller that waits is granted the lock, however many others keep coming
\* back for it, unless a holder blocks itself by acquiring again.
NoStarvation ==
  \A c \in Callers : pc[c] = "waiting" ~> \/ pc[c] = "holding"
                                          \/ \E d \in Reentrant : pc[d] = "selfblocked"

-----------------------------------------------------------------------------
\* What every step preserves: the flag says whether there is an owner, the
\* listeners are the pending calls, and while the lock is free the emission has
\* all the listeners still to run, so that one of them will take it.
IInv == /\ TypeOK
        /\ MutualExclusion
        /\ NoListenerLeak
        /\ locked <=> \E c \in Callers : Owns(c)
        /\ ~locked => emitting = listeners

-----------------------------------------------------------------------------
\* The mutex that the variables stand for.  Between release() and the first
\* callback of its emission, the first listener counts as the holder already.
Owner == CHOOSE c \in Callers : Owns(c)

MutexView ==
  CASE locked                       -> [holder |-> Owner, queue |-> listeners]
    [] ~locked /\ listeners = <<>>  -> [holder |-> NoOne, queue |-> <<>>]
    [] ~locked /\ listeners # <<>>  -> [holder |-> Head(listeners),
                                        queue |-> Tail(listeners)]

M == INSTANCE Mutex WITH mutex <- MutexView

\* Lock is a first come, first served mutex.
ImplementsMutex == M!Spec
=============================================================================
