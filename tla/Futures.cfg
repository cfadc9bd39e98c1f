\* Every kind, up to three tries.
CONSTANTS
  Kinds = {"retry", "selective", "timed", "watch", "obtain", "sent"}
  Limits = {0, 1, 2, 3}
SPECIFICATION FuturesFairSpec
CHECK_DEADLOCK FALSE
INVARIANT NoUnhandledRejection
PROPERTY StaysStopped
PROPERTY Settles
