------------------------------ MODULE Futures ------------------------------
(***************************************************************************)
(* Promises that are settled from outside, and the loops that settle them: *)
(* the retries and the timeout of base's async.ts, the tasks of task.ts    *)
(* and connect's TransactionResult.  One of them runs, in an event loop: a *)
(* step is a turn with all its microtasks.                                 *)
(***************************************************************************)
EXTENDS Naturals
CONSTANTS Kinds,   \* what runs
          Limits   \* how many tries it is given

ASSUME FuturesAssumption ==
  /\ Kinds \subseteq {"retry", "selective", "timed", "watch", "obtain", "sent"}
  /\ Limits \subseteq Nat

Retries == {"retry", "selective", "timed"}
Tasks == {"watch", "obtain"}

VARIABLES
  kind,       \* what runs
  limit,      \* tries, or maxAttemps
  reliable,   \* external: every call is answered
  eager,      \* who has the promise waits for it in the turn it was made
  loop,       \* where the loop is
  calls,      \* how often it has called, i or executionNumber
  isActive,   \* of a task
  stopped,    \* stop() was called
  successes,  \* calls of onSuccess
  promise,    \* the promises and futures
  handled,    \* those that somebody waits for
  web3        \* external: what a PromiEvent has emitted

given == <<kind, limit, reliable, eager>>
task == <<isActive, stopped, successes>>
futuresVars == <<given, loop, calls, task, promise, handled, web3>>

Promises == IF kind = "sent" THEN {"hash", "receipt"}
            ELSE IF kind = "watch" THEN {} ELSE {"result"}

FuturesInit ==
  /\ kind \in Kinds /\ limit \in Limits /\ reliable \in BOOLEAN
  /\ eager \in BOOLEAN /\ (kind \in Retries => eager)
  /\ loop = IF kind = "sent" THEN "ended" ELSE "ready"
  /\ calls = 0 /\ isActive = TRUE /\ stopped = FALSE /\ successes = 0
  /\ promise = [f \in Promises |-> "pending"]
  /\ handled = IF eager THEN Promises \ {"receipt"} ELSE {}
  /\ web3 = "nothing"

-----------------------------------------------------------------------------
(* Future.resolve and Future.reject; a settled promise stays as it is.     *)

Settle(f, as) ==
  promise' = [promise EXCEPT ![f] = IF @ = "pending" THEN as ELSE @]

\* A loop goes on, or is over; with what becomes of its promise.
Goes(to) == loop' = to /\ UNCHANGED promise
Ends(as) == loop' = "ended" /\ Settle("result", as)

Exhausted == calls >= limit

-----------------------------------------------------------------------------
(* Retries.                                                                *)

\* for (i < tries); the last error is thrown when they are over, `undefined' if
\* there was none.
Try ==
  /\ loop = "ready" /\ kind \in Retries
  /\ IF Exhausted THEN Ends("rejected") /\ UNCHANGED calls
     ELSE Goes("calling") /\ calls' = calls + 1
  /\ UNCHANGED <<given, task, handled, web3>>

Value ==
  /\ loop = "calling" /\ kind \in Retries
  /\ Ends("resolved")
  /\ UNCHANGED <<given, calls, task, handled, web3>>

\* retryAsync and retryAsyncWithBackOff sleep after the last failure as well,
\* selectiveRetryAsyncWithBackOff does not.
Failure ==
  /\ loop = "calling" /\ kind \in Retries
  /\ IF kind = "selective" /\ Exhausted THEN Ends("rejected") ELSE Goes("sleeping")
  /\ UNCHANGED <<given, calls, task, handled, web3>>

\* An error of dontRetry.
Permanent ==
  /\ loop = "calling" /\ kind = "selective"
  /\ Ends("rejected")
  /\ UNCHANGED <<given, calls, task, handled, web3>>

\* timeout: Promise.race settles once; the loop knows nothing of it.
Timeout ==
  /\ kind = "timed" /\ promise["result"] = "pending"
  /\ Settle("result", "rejected")
  /\ UNCHANGED <<given, loop, calls, task, handled, web3>>

-----------------------------------------------------------------------------
(* Tasks.                                                                  *)

\* The `finally' of repeatTask.
Again == Goes(IF isActive' THEN "sleeping" ELSE "ended")

\* MUTANT of Execute: whether the task was stopped is not asked again.
ExecuteUnasked ==
  /\ loop = "ready" /\ kind \in Tasks
  /\ calls' = calls + 1
  /\ IF kind = "obtain" /\ Exhausted
     THEN Ends("rejected") /\ isActive' = FALSE
     ELSE Goes("calling") /\ UNCHANGED isActive
  /\ UNCHANGED <<given, stopped, successes, handled, web3>>

\* loop: a task that was stopped while it slept ends here; one that obtains a value
\* gives up when its attempts are over.
Execute ==
  /\ loop = "ready" /\ kind \in Tasks
  /\ \/ ~isActive /\ Goes("ended") /\ UNCHANGED <<calls, isActive>>
     \/ /\ isActive /\ calls' = calls + 1
        /\ IF kind = "obtain" /\ Exhausted
           THEN Ends("rejected") /\ isActive' = FALSE
           ELSE Goes("calling") /\ UNCHANGED isActive
  /\ UNCHANGED <<given, stopped, successes, handled, web3>>

\* Nothing yet, or an error, which is logged.  Bound: the condition of a watch holds
\* by the time it has been looked at limit times.
Nothing ==
  /\ loop = "calling" /\ kind \in Tasks
  /\ kind = "watch" => calls < limit
  /\ UNCHANGED isActive /\ Again
  /\ UNCHANGED <<given, calls, stopped, successes, handled, web3>>

Obtain ==
  /\ loop = "calling" /\ kind = "obtain"
  /\ isActive' = FALSE /\ Ends("resolved")
  /\ UNCHANGED <<given, calls, stopped, successes, handled, web3>>

\* MUTANT of Hold: the task is stopped after onSuccess, which may throw.
HoldLater ==
  /\ loop = "calling" /\ kind = "watch"
  /\ successes' = successes + 1 /\ Goes("succeeding")
  /\ UNCHANGED <<given, calls, isActive, stopped, handled, web3>>

\* The condition holds: stopTask(), then onSuccess.
Hold ==
  /\ loop = "calling" /\ kind = "watch"
  /\ isActive' = FALSE /\ successes' = successes + 1 /\ Goes("succeeding")
  /\ UNCHANGED <<given, calls, stopped, handled, web3>>

\* onSuccess is done, or throws.
Succeed ==
  /\ loop = "succeeding"
  /\ UNCHANGED isActive /\ Again
  /\ UNCHANGED <<given, calls, stopped, successes, handled, web3>>

\* setTimeout(loop), sleep(..).
Wake ==
  /\ loop = "sleeping" /\ Goes("ready")
  /\ UNCHANGED <<given, calls, task, handled, web3>>

\* MUTANT of Stop: the future is left alone.
StopOnly ==
  /\ kind \in Tasks
  /\ isActive' = FALSE /\ stopped' = TRUE
  /\ UNCHANGED <<given, loop, calls, successes, promise, handled, web3>>

\* stop(): what runs goes on; who waits for a value is told "Cancelled".
Stop ==
  /\ kind \in Tasks
  /\ isActive' = FALSE /\ stopped' = TRUE
  /\ IF kind = "obtain" THEN Settle("result", "rejected") ELSE UNCHANGED promise
  /\ UNCHANGED <<given, loop, calls, successes, handled, web3>>

-----------------------------------------------------------------------------
(* TransactionResult.                                                      *)

\* MUTANT of HandlesToo: a failed getHash leaves the receipt alone.
HandlesTooNever(hash) == IF hash = "resolved" THEN {"receipt"} ELSE {}

\* waitReceipt goes on to the receipt when it has the hash, and getHash takes its
\* rejection when there is none.
HandlesToo(hash) == IF hash # "pending" THEN {"receipt"} ELSE {}

\* In the turn in which the promises settle, what waits for the hash goes on.
Emits(hash, receipt, event) ==
  /\ kind = "sent"
  /\ promise' = [f \in Promises |->
       LET as == IF f = "hash" THEN hash ELSE receipt
       IN IF promise[f] = "pending" THEN as ELSE promise[f]]
  /\ handled' = handled \cup (IF "hash" \in handled THEN HandlesToo(promise'["hash"])
                              ELSE {})
  /\ web3' = event
  /\ UNCHANGED <<given, loop, calls, task>>

TransactionHash == web3 = "nothing" /\ Emits("resolved", "pending", "hash")
Receipt == web3 = "hash" /\ Emits("pending", "resolved", "end")

\* 'error' comes with a receipt when the transaction was mined and failed, and
\* without one when it was not sent, or not mined in time.
MiningError == web3 = "hash" /\ Emits("pending", "rejected", "end")
SendError == web3 \in {"nothing", "hash"} /\ Emits("rejected", "rejected", "end")

-----------------------------------------------------------------------------
\* Somebody begins to wait later: onValue, or waitReceipt.
Await ==
  /\ handled = {} /\ Promises # {}
  /\ handled' = IF kind = "sent" THEN {"hash"} \cup HandlesToo(promise["hash"])
                ELSE Promises
  /\ UNCHANGED <<given, loop, calls, task, promise, web3>>

Answer == Value \/ Failure \/ Permanent \/ Nothing \/ Obtain \/ Hold \/ Succeed
Event == TransactionHash \/ Receipt \/ MiningError \/ SendError
Turn == Try \/ Timeout \/ Execute \/ Wake

FuturesNext == Turn \/ Answer \/ Event \/ Stop \/ Await

FuturesSpec == FuturesInit /\ [][FuturesNext]_futuresVars

\* Timers go off and what is ready runs; calls are answered and web3 tells how a
\* transaction ended where they are reliable.
FuturesFairSpec ==
  /\ FuturesSpec
  /\ WF_futuresVars(Try) /\ WF_futuresVars(Execute)
  /\ WF_futuresVars(Wake) /\ WF_futuresVars(Timeout)
  /\ WF_futuresVars(reliable /\ (Answer \/ Event))

-----------------------------------------------------------------------------

\* Whoever waits for a value or a receipt at once never leaves a rejection that
\* nobody handles, which would end the process: in whatever order hash, receipt
\* and errors come, a value is obtained and the task is stopped.
NoUnhandledRejection ==
  eager => \A f \in Promises : promise[f] = "rejected" => f \in handled

\* After stop() a task makes no call any more, wherever it was in its loop; and
\* conditionWatcher none after onSuccess, also when that throws.
StaysStopped == [][stopped \/ successes > 0 => calls' = calls]_futuresVars

\* What is waited for comes, or fails: a value when calls are answered, without
\* that when there is a timeout or the task is stopped, and a receipt when web3
\* tells how the transaction ended.
Settles ==
  (reliable \/ kind = "timed" \/ stopped) ~>
    (\A f \in Promises : promise[f] # "pending")

\* VIOLATED.  async.ts:100 "Terminates any ongoing request when the timeout is
\* reached": it goes on, and new calls are made.
TimeoutEndsCalls ==
  [][kind = "timed" /\ promise["result"] = "rejected" => calls' = calls]_futuresVars
=============================================================================
