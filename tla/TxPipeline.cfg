\* Three requests of one provider; or a change of provider, and fields that the
\* caller fills in.
CONSTANTS
  A = A
  B = B
  None = None
  r1 = r1
  r2 = r2
  r3 = r3
  Requests <- AllRequests
  Methods = {"eth_sendTransaction", "eth_signTransaction"}
  ChainOf <- TwoProviders
  Inputs <- SomeGiven
  Plans <- ThreePlans
SPECIFICATION FairSpec
CHECK_DEADLOCK FALSE
INVARIANT NoOrphanedLock
INVARIANT SentOnce
PROPERTY ImplementsLedger
PROPERTY EveryRequestAnswered
