\* Overlapping calls of both kits for two contracts.
CONSTANTS
  Undefined = Undefined
  Callers = {c1, c2, c3}
  Contracts = {k1}
  Addresses = {a1, a2}
  Core <- RegistryAddress
SPECIFICATION CacheSpec
INVARIANT FullReturnsAsked
INVARIANT ReturnsRegistered
SYMMETRY CallersSymmetry
