------------------------------ MODULE MutexOps ------------------------------
(***************************************************************************)
(* What the Lock of sdk/base promises, as operators on a mutex value: who  *)
(* holds it and who waits for it, in order of arrival.  Mutex.tla makes a  *)
(* specification of them; Lock.tla (the EventEmitter code) implements that *)
(* specification, so that a module with locks in it may use the operators. *)
(***************************************************************************)
LOCAL INSTANCE Naturals
LOCAL INSTANCE Sequences
CONSTANT NoOne     \* the holder of a free mutex

Free == [holder |-> NoOne, queue |-> <<>>]

\* acquire(): take a free mutex, otherwise join the end of the queue.
Acquired(m, c) == IF m.holder = NoOne
                  THEN [holder |-> c, queue |-> m.queue]
                  ELSE [holder |-> m.holder, queue |-> Append(m.queue, c)]

\* release(): hand over to the longest waiting caller, if there is one.
Released(m) == IF m.queue = <<>> THEN Free
               ELSE [holder |-> Head(m.queue), queue |-> Tail(m.queue)]

Waits(m, c) == \E i \in 1 .. Len(m.queue) : m.queue[i] = c
=============================================================================
