--------------------------- MODULE MCReleaseGold ---------------------------
(* Who runs which commands, for the run of ReleaseGold.                      *)
EXTENDS ReleaseGold

\* An owner who takes back a contract that votes and locks.
TakeBack == [p \in People |->
  CASE p = Owner -> {"admin-revoke", "collect"}
    [] p = Holder -> {"create-account", "authorize", "authorize-validator", "lock", "unlock"}
    [] OTHER -> {}]

\* The beneficiary takes out his money while the contract is revoked.
TakeOut == [p \in People |->
  CASE p = Owner -> {"admin-revoke", "revoke", "refund-and-finalize", "transfer-dollars",
                     "authorize"}
    [] p = Holder -> {"create-account", "withdraw", "transfer-dollars"}
    [] OTHER -> {}]

\* The contract is handed on.
HandOn == [p \in People |-> {"set-beneficiary"}]

AllScenarios == {TakeBack, TakeOut, HandOn}
=============================================================================
