\* Every order of acquire, tryAcquire, release and nested acquire.
CONSTANTS
  Callers = {c1, c2, c3, c4}
  Reentrant = {c1, c2}
  NoOne = NoOne
SPECIFICATION FairSpec
INVARIANT MutualExclusion
INVARIANT NoLostWakeup
PROPERTY ImplementsMutex
PROPERTY NoStarvation
CHECK_DEADLOCK FALSE
