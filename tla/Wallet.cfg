CONSTANTS
  SignBit = 8
  MaxSafe = 100
  Stranger = "stranger"
  Callers = {c1, c2}
  Keys = {"k1", "k2"}
  Polls = 2
  Txs <- MCTxs
  OldTxs <- MCOldTxs
SPECIFICATION WalletFairSpec
INVARIANT LoadsOnce
INVARIANT RecoversSigner
INVARIANT FieldsSurvive
PROPERTY InitSettles
