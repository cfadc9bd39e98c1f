---------------------------- MODULE MCTxPipeline ----------------------------
(* Chains and inputs for the run of TxPipeline.                              *)
EXTENDS TxPipeline
CONSTANTS A, B, r1, r2, r3

AllRequests == {r1, r2, r3}
TwoProviders == <<A, B>>

NothingGiven == {[chainId |-> None, nonce |-> None]}
SomeGiven == NothingGiven \cup {[chainId |-> B, nonce |-> None],
                                [chainId |-> A, nonce |-> 0]}

\* Sends on one provider, both methods on one provider, and a change of provider
\* with fields that the caller fills in.
ThreePlans ==
  {[requests |-> AllRequests, methods |-> {"eth_sendTransaction"},
    providers |-> 1, inputs |-> NothingGiven],
   [requests |-> {r1, r2}, methods |-> Methods,
    providers |-> 1, inputs |-> NothingGiven],
   [requests |-> {r1, r2}, methods |-> Methods,
    providers |-> 2, inputs |-> SomeGiven]}
=============================================================================
