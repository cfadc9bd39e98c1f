-------------------------- MODULE MCContractCache --------------------------
(* The Registry and the symmetry that the run of ContractCache uses.         *)
EXTENDS ContractCache, TLC

RegistryAddress(name) == <<"registry", name>>
CallersSymmetry == Permutations(Callers) \cup Permutations(Addresses)
=============================================================================
