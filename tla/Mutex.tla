-------------------------------- MODULE Mutex --------------------------------
(***************************************************************************)
(* The abstract specification of the Lock of sdk/base: a first come, first *)
(* served mutex.  acquire() and release() are atomic here.                 *)
(***************************************************************************)
EXTENDS Naturals, Sequences, MutexOps
CONSTANT Callers
VARIABLE mutex

Init == mutex = Free

\* A caller that is not already queued asks for the mutex.  The holder may
\* ask too: it then waits for itself.
Acquire(c) == /\ ~Waits(mutex, c)
              /\ mutex' = Acquired(mutex, c)

\* The holder gives the mutex back, unless it is stuck in its own queue.
Release(c) == /\ mutex.holder = c
              /\ ~Waits(mutex, c)
              /\ mutex' = Released(mutex)

Next == \E c \in Callers : Acquire(c) \/ Release(c)

Spec == Init /\ [][Next]_mutex
=============================================================================
