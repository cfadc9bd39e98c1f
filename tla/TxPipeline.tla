----------------------------- MODULE TxPipeline -----------------------------
(***************************************************************************)
(* Signing and sending a transaction of a local account: Connection,       *)
(* CeloProvider, TxParamsNormalizer and HttpRpcCaller of sdk/connect with  *)
(* the wallet of sdk/wallets, in front of external nodes.                  *)
(*                                                                         *)
(* Requests share one sending account.  A CeloProvider is one of Providers *)
(* 1 .. Len(ChainOf), in the order in which setProvider installs them;     *)
(* ChainOf says which chain the node behind it serves.  Every `await' ends *)
(* a step: requests interleave there, and setProvider, stop, addAccount    *)
(* and removeAccount may run in between.                                   *)
(***************************************************************************)
EXTENDS Naturals, Sequences
CONSTANTS Requests,    \* payloads given to web3, each at most once
          Methods,     \* the intercepted methods they use
          ChainOf,     \* the chain behind each provider, in order of use
          Inputs,      \* what callers fill in of [chainId, nonce]
          Plans,       \* bound: what is used of all these together
          None         \* a field that is not set, nobody

Providers == 1 .. Len(ChainOf)
Chains == {ChainOf[p] : p \in Providers}

ASSUME PipelineAssumption ==
  /\ None \notin Requests \cup Chains \cup Nat
  /\ Methods \subseteq {"eth_sendTransaction", "eth_signTransaction"}
  /\ ChainOf \in Seq(Chains) /\ ChainOf # <<>>
  /\ Inputs \subseteq [chainId : Chains \cup {None}, nonce : Nat \cup {None}]
  /\ Plans \subseteq [requests : SUBSET Requests, methods : SUBSET Methods,
                      providers : Providers, inputs : SUBSET Inputs]

INSTANCE MutexOps WITH NoOne <- None

VARIABLES
  plan,         \* one of Plans
  provider,     \* the current provider, which rpcCaller also stands for
  connChainId,  \* Connection._chainID
  normChainId,  \* TxParamsNormalizer.chainId
  nonceLock,    \* CeloProvider.nonceLock, one per provider
  stopped,      \* CeloProvider.alreadyStopped
  hasAccount,   \* the wallet has a signer for the sending account
  pc,           \* where each request is
  method,       \* the JSON-RPC method of each request
  via,          \* the CeloProvider that each request was given to
  tx,           \* the chain id and nonce of each request
  asked,        \* the provider whose node the last calls of a request went to
  outstanding,  \* the calls of populate that have not been answered
  pool          \* external: the transactions each node took, in order

connection == <<provider, connChainId, normChainId, stopped, hasAccount>>
given == <<plan, method>>
request == <<given, via, tx, asked, outstanding>>
vars == <<connection, nonceLock, pc, request, pool>>

Stages == {"new", "waiting", "granted", "filling", "sending", "accepted",
           "forwarded", "ok", "failed"}
Settled(r) == pc[r] \in {"ok", "failed"}
Sends(r) == method[r] = "eth_sendTransaction"
Parts == {"chainId", "nonce", "fees"}
NodeOf(r) == ChainOf[asked[r]]

-----------------------------------------------------------------------------
(* External: a node, seen through eth_getTransactionCount(.., 'pending')   *)
(* and eth_sendRawTransaction.                                             *)

NoncesIn(c) == {pool[c][i].nonce : i \in 1 .. Len(pool[c])}

PendingNonce(c) == CHOOSE n \in 0 .. Len(pool[c]) :
                     /\ n \notin NoncesIn(c)
                     /\ \A m \in 0 .. (n - 1) : m \in NoncesIn(c)

\* A node takes a transaction that is for its chain and whose nonce is unused.
Takes(c, t) == t.chainId = c /\ t.nonce \notin NoncesIn(c)

-----------------------------------------------------------------------------
Init == /\ plan \in Plans
        /\ provider = 1
        /\ connChainId = None
        /\ normChainId = None
        /\ nonceLock = [p \in Providers |-> Free]
        /\ stopped = [p \in Providers |-> FALSE]
        /\ hasAccount = TRUE
        /\ pc = [r \in Requests |-> "new"]
        /\ \E m \in [plan.requests -> plan.methods] :
             method = [r \in Requests |-> IF r \in plan.requests THEN m[r] ELSE None]
        /\ via = [r \in Requests |-> 1]
        /\ tx = [r \in Requests |-> [chainId |-> None, nonce |-> None]]
        /\ asked = [r \in Requests |-> 1]
        /\ outstanding = [r \in Requests |-> {}]
        /\ pool = [c \in Chains |-> <<>>]

\* MUTANT of Settle: a failure returns without releasing, as without `finally'.
SettleWithoutFinally(r, outcome) ==
  LET p == via[r]
      next == Released(nonceLock[p])
  IN IF ~Sends(r) \/ outcome = "failed"
     THEN pc' = [pc EXCEPT ![r] = outcome] /\ UNCHANGED nonceLock
     ELSE /\ nonceLock' = [nonceLock EXCEPT ![p] = next]
          /\ pc' = [q \in Requests |-> IF q = r THEN outcome
                                       ELSE IF q = next.holder THEN "granted" ELSE pc[q]]

\* MUTANT of Settle: releases the lock of the provider of the moment.
SettleCurrentProvider(r, outcome) ==
  LET p == provider
      next == Released(nonceLock[p])
  IN IF ~Sends(r) THEN pc' = [pc EXCEPT ![r] = outcome] /\ UNCHANGED nonceLock
     ELSE /\ nonceLock' = [nonceLock EXCEPT ![p] = next]
          /\ pc' = [q \in Requests |-> IF q = r THEN outcome
                                       ELSE IF q = next.holder THEN "granted" ELSE pc[q]]

\* The handler's promise settles.  handleSendTransaction releases the lock of
\* its provider in `finally', which lets the next acquire() resolve.
Settle(r, outcome) ==
  LET p == via[r]
      next == Released(nonceLock[p])
  IN IF ~Sends(r) THEN /\ pc' = [pc EXCEPT ![r] = outcome]
                       /\ UNCHANGED nonceLock
     ELSE /\ nonceLock' = [nonceLock EXCEPT ![p] = next]
          /\ pc' = [q \in Requests |-> IF q = r THEN outcome
                                       ELSE IF q = next.holder THEN "granted" ELSE pc[q]]

\* MUTANT of EnterLocked: the newest waiter goes first.
EnterBarging(r) ==
  LET m == nonceLock[provider] IN
  IF m.holder = None
  THEN /\ nonceLock' = [nonceLock EXCEPT ![provider].holder = r]
       /\ pc' = [pc EXCEPT ![r] = "granted"]
  ELSE /\ nonceLock' = [nonceLock EXCEPT ![provider].queue = <<r>> \o @]
       /\ pc' = [pc EXCEPT ![r] = "waiting"]

\* handleSendTransaction, up to `await nonceLock.acquire()'.
EnterLocked(r) ==
  LET after == Acquired(nonceLock[provider], r) IN
  /\ nonceLock' = [nonceLock EXCEPT ![provider] = after]
  /\ pc' = [pc EXCEPT ![r] = IF after.holder = r THEN "granted" ELSE "waiting"]

\* CeloProvider.send: a stopped provider throws, a transaction of an account
\* the wallet does not have is forwarded to the node as it is.
Send(r, input) ==
  /\ pc[r] = "new" /\ r \in plan.requests
  /\ via' = [via EXCEPT ![r] = provider]
  /\ tx' = [tx EXCEPT ![r] = input]
  /\ \/ /\ stopped[provider]
        /\ pc' = [pc EXCEPT ![r] = "failed"]
        /\ UNCHANGED <<nonceLock, asked>>
     \/ /\ ~stopped[provider] /\ ~hasAccount
        /\ pc' = [pc EXCEPT ![r] = "forwarded"]
        /\ asked' = [asked EXCEPT ![r] = provider]
        /\ UNCHANGED nonceLock
     \/ /\ ~stopped[provider] /\ hasAccount /\ Sends(r)
        /\ EnterLocked(r)
        /\ UNCHANGED asked
     \/ /\ ~stopped[provider] /\ hasAccount /\ ~Sends(r)
        /\ pc' = [pc EXCEPT ![r] = "granted"]
        /\ UNCHANGED <<nonceLock, asked>>
  /\ UNCHANGED <<connection, given, outstanding, pool>>

\* A forwarded request is answered; no node here has the key of the account.
ForwardAnswer(r) == /\ pc[r] = "forwarded"
                    /\ pc' = [pc EXCEPT ![r] = "failed"]
                    /\ UNCHANGED <<connection, nonceLock, request, pool>>

-----------------------------------------------------------------------------
\* The chain id that getChainId answers without a call: the caller's, the
\* normalizer's, or else the connection's.
KnownChainId(r) == IF tx[r].chainId # None THEN tx[r].chainId
                   ELSE IF normChainId # None THEN normChainId ELSE connChainId

\* populate starts all its calls at once, towards the current provider.
Populate(r) ==
  /\ pc[r] = "granted"
  /\ pc' = [pc EXCEPT ![r] = "filling"]
  /\ asked' = [asked EXCEPT ![r] = provider]
  /\ tx' = [tx EXCEPT ![r].chainId = KnownChainId(r)]
  /\ normChainId' = IF tx[r].chainId = None /\ normChainId = None
                    THEN connChainId ELSE normChainId
  /\ outstanding' = [outstanding EXCEPT ![r] =
                       {f \in {"chainId"} : KnownChainId(r) = None}
                       \cup {f \in {"nonce"} : tx[r].nonce = None}
                       \cup {"fees"}]
  /\ UNCHANGED <<provider, connChainId, stopped, hasAccount, nonceLock, given,
                 via, pool>>

Answered(r, f) == /\ f \in outstanding[r]
                  /\ outstanding' = [outstanding EXCEPT ![r] = @ \ {f}]

\* The answer to net_version goes into both caches, whatever has become of the
\* request and of the provider meanwhile.
ChainIdAnswer(r) ==
  /\ Answered(r, "chainId")
  /\ connChainId' = NodeOf(r)
  /\ normChainId' = NodeOf(r)
  /\ tx' = [tx EXCEPT ![r].chainId = NodeOf(r)]
  /\ UNCHANGED <<provider, stopped, hasAccount, nonceLock, pc, given, via, asked,
                 pool>>

NonceAnswer(r) ==
  /\ Answered(r, "nonce")
  /\ tx' = [tx EXCEPT ![r].nonce = PendingNonce(NodeOf(r))]
  /\ UNCHANGED <<connection, nonceLock, pc, given, via, asked, pool>>

\* Gas and gas price are known, from the caller or from the node.
FeesAnswer(r) == /\ Answered(r, "fees")
                 /\ UNCHANGED <<connection, nonceLock, pc, given, via, tx, asked,
                                pool>>

\* One of the calls fails: Promise.all rejects at the first failure and the
\* others go on without anybody waiting for them.
CallFails(r) ==
  /\ \E f \in outstanding[r] : Answered(r, f)
  /\ IF pc[r] = "filling" THEN Settle(r, "failed") ELSE UNCHANGED <<pc, nonceLock>>
  /\ UNCHANGED <<connection, given, via, tx, asked, pool>>

\* Promise.all has every answer.
Complete(r) == outstanding[r] = {}

\* All calls are answered, and eth_maxPriorityFeePerGas too; the wallet signs.
\* The signature of eth_signTransaction is its result; eth_sendTransaction goes
\* on with eth_sendRawTransaction, through the rpcCaller of this moment.
Sign(r) ==
  /\ pc[r] = "filling" /\ Complete(r)
  /\ hasAccount
  /\ IF Sends(r) THEN /\ pc' = [pc EXCEPT ![r] = "sending"]
                      /\ asked' = [asked EXCEPT ![r] = provider]
                      /\ UNCHANGED nonceLock
                 ELSE Settle(r, "ok") /\ UNCHANGED asked
  /\ UNCHANGED <<connection, given, via, tx, outstanding, pool>>

\* eth_maxPriorityFeePerGas fails, or the wallet lost the account meanwhile, or
\* the signer throws.
SignFails(r) == /\ pc[r] = "filling" /\ Complete(r)
                /\ Settle(r, "failed")
                /\ UNCHANGED <<connection, request, pool>>

-----------------------------------------------------------------------------
\* External: the raw transaction reaches the node, which takes it or not.
RawArrives(r) ==
  /\ pc[r] = "sending"
  /\ IF Takes(NodeOf(r), tx[r])
     THEN /\ pool' = [pool EXCEPT ![NodeOf(r)] =
                        Append(@, [req |-> r, nonce |-> tx[r].nonce])]
          /\ pc' = [pc EXCEPT ![r] = "accepted"]
          /\ UNCHANGED nonceLock
     ELSE Settle(r, "failed") /\ UNCHANGED pool
  /\ UNCHANGED <<connection, request>>

\* The call fails on its way to the node.
RawLost(r) == /\ pc[r] = "sending"
              /\ Settle(r, "failed")
              /\ UNCHANGED <<connection, request, pool>>

\* MUTANT of RawAnswer: a lost answer starts the request again.
RawAnswerRetried(r) ==
  /\ pc[r] = "accepted"
  /\ \/ Settle(r, "ok") /\ UNCHANGED tx
     \/ /\ pc' = [pc EXCEPT ![r] = "granted"]
        /\ tx' = [tx EXCEPT ![r] = [chainId |-> None, nonce |-> None]]
        /\ UNCHANGED nonceLock
  /\ UNCHANGED <<connection, given, via, asked, outstanding, pool>>

\* The node's answer arrives, or is lost: the transaction is in the pool anyway.
RawAnswer(r) == /\ pc[r] = "accepted"
                /\ \E outcome \in {"ok", "failed"} : Settle(r, outcome)
                /\ UNCHANGED <<connection, request, pool>>

-----------------------------------------------------------------------------
\* Connection.setProvider with a plain provider: a new rpcCaller and a new
\* CeloProvider, with its own lock; the connection forgets its chain id.
SetProvider == /\ provider < plan.providers
               /\ provider' = provider + 1
               /\ connChainId' = None
               /\ UNCHANGED <<normChainId, stopped, hasAccount, nonceLock, pc,
                              request, pool>>

Stop == /\ ~stopped[provider]
        /\ stopped' = [stopped EXCEPT ![provider] = TRUE]
        /\ UNCHANGED <<provider, connChainId, normChainId, hasAccount, nonceLock,
                       pc, request, pool>>

AddOrRemoveAccount == /\ hasAccount' = ~hasAccount
                      /\ UNCHANGED <<provider, connChainId, normChainId, stopped,
                                     nonceLock, pc, request, pool>>

\* Everything that happens to a request once it was given to send.
Progress(r) == \/ ForwardAnswer(r)
               \/ Populate(r)
               \/ ChainIdAnswer(r) \/ NonceAnswer(r) \/ FeesAnswer(r)
               \/ CallFails(r)
               \/ Sign(r) \/ SignFails(r)
               \/ RawArrives(r) \/ RawLost(r) \/ RawAnswer(r)

Next == \/ \E r \in Requests : Progress(r) \/ \E i \in plan.inputs : Send(r, i)
        \/ SetProvider \/ Stop \/ AddOrRemoveAccount

Spec == Init /\ [][Next]_vars

\* The event loop runs what is ready, and every call is answered or fails.
Fairness == \A r \in Requests : WF_vars(Progress(r))
FairSpec == Spec /\ Fairness

-----------------------------------------------------------------------------
\* The types of the variables, and that only a complete transaction is signed.
TypeOK ==
  /\ plan \in Plans
  /\ provider \in Providers
  /\ connChainId \in Chains \cup {None}
  /\ normChainId \in Chains \cup {None}
  /\ nonceLock \in [Providers -> [holder : Requests \cup {None}, queue : Seq(Requests)]]
  /\ stopped \in [Providers -> BOOLEAN]
  /\ hasAccount \in BOOLEAN
  /\ pc \in [Requests -> Stages]
  /\ method \in [Requests -> Methods \cup {None}]
  /\ via \in [Requests -> Providers]
  /\ tx \in [Requests -> [chainId : Chains \cup {None}, nonce : Nat \cup {None}]]
  /\ asked \in [Requests -> Providers]
  /\ outstanding \in [Requests -> SUBSET Parts]
  /\ pool \in [Chains -> Seq([req : Requests, nonce : Nat])]
  /\ \A r \in Requests : pc[r] \in {"sending", "accepted"} =>
       tx[r] \in [chainId : Chains, nonce : Nat]

\* A send between its acquire() and its release().
InSection(r) == Sends(r) /\ pc[r] \in {"granted", "filling", "sending", "accepted"}

\* The nonce lock of a provider is held by a send that is in progress and was
\* given to that provider, and those in its queue wait: whatever fails on the
\* way, no request leaves the lock behind (celo-provider.ts, `finally').
NoOrphanedLock ==
  \A p \in Providers :
    /\ nonceLock[p].holder # None => /\ InSection(nonceLock[p].holder)
                                     /\ via[nonceLock[p].holder] = p
    /\ nonceLock[p].holder = None => nonceLock[p].queue = <<>>
    /\ \A i \in 1 .. Len(nonceLock[p].queue) :
         LET r == nonceLock[p].queue[i] IN pc[r] = "waiting" /\ via[r] = p

\* A caller that is told its transaction was sent has it in a pool, once; and no
\* transaction is ever in two places, whatever provider changes happened.
SentOnce ==
  /\ \A c, d \in Chains : \A i \in 1 .. Len(pool[c]), j \in 1 .. Len(pool[d]) :
       pool[c][i].req = pool[d][j].req => c = d /\ i = j
  /\ \A r \in Requests : pc[r] = "ok" /\ Sends(r) =>
       \E c \in Chains : \E i \in 1 .. Len(pool[c]) : pool[c][i].req = r

\* Every request that was made is answered in the end: again and again there comes
\* a moment at which none is left open.
EveryRequestAnswered == []<>(\A r \in Requests : pc[r] = "new" \/ Settled(r))

\* VIOLATED.  connection.ts:408 "An instance of Connection will only change chain
\* id if provider is changed": a transaction that is made, filled in and signed
\* under one provider, the chain id left to it, is for that provider's chain.  The
\* normalizer remembers the chain id of the provider before.
SignedForProvider ==
  \A r \in Requests :
    pc[r] = "sending" /\ asked[r] = via[r] => tx[r].chainId = NodeOf(r)

-----------------------------------------------------------------------------
\* The line of a provider's sends: the one that has the lock, then its queue.
Line(m) == IF m.holder = None THEN <<>> ELSE <<m.holder>> \o m.queue

Status(r) == IF ~Sends(r) \/ pc[r] \in {"new", "forwarded"} THEN "new"
             ELSE IF Settled(r) THEN pc[r] ELSE "pending"

\* One provider, and callers leave the nonces to it.  The ledger stays empty in
\* other plans.
Alone == plan.providers = 1 /\ \A i \in plan.inputs : i.nonce = None

L == INSTANCE SendLedger WITH
       line   <- IF Alone THEN Line(nonceLock[1]) ELSE <<>>,
       ledger <- IF Alone THEN pool[ChainOf[1]] ELSE <<>>,
       status <- [r \in Requests |-> IF Alone THEN Status(r) ELSE "new"]

\* With one provider and the nonces left to it, eth_sendTransaction posts the
\* transactions in the order of the calls, under consecutive nonces.
ImplementsLedger == L!Spec
=============================================================================
