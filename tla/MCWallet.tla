------------------------------ MODULE MCWallet ------------------------------
(* Every combination of fee fields, on chains at both ends of the range.   *)
(* Chain 0 cannot be told from no chain by its item, 4 is the first that   *)
(* a shift of 4 bits cuts off.                                             *)
EXTENDS Wallet, TLC

MCTxs ==
  [chainId: {0, 1, 3, 4}, nonce: {0}, gas: {11}, to: {12}, data: {13},
   value: {14, 101}, accessList: {15}, gasPrice: {Undefined, 0, 21},
   maxFeePerGas: {Undefined, 22}, maxPriorityFeePerGas: {Undefined, 23},
   feeCurrency: {Undefined, 0, 24}, maxFeeInFeeCurrency: {Undefined, 25}]

OldFields ==
  [chainId |-> 3, nonce |-> 5, gas |-> 11, to |-> 12, data |-> 13, value |-> 14,
   feeCurrency |-> 24, gatewayFeeRecipient |-> 31, gatewayFee |-> 32]

\* CIP-42 and the first Celo transactions.
MCOldTxs ==
  {[type |-> "cip42",
    tx |-> OldFields @@ [accessList |-> 15, maxFeePerGas |-> 22,
                         maxPriorityFeePerGas |-> 23]],
   [type |-> "celo-legacy", tx |-> OldFields @@ [gasPrice |-> 21]]}
=============================================================================
