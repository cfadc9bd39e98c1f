-------------------------- MODULE MCVoteRevocation --------------------------
(* The symmetry that the runs of VoteRevocation use.                         *)
EXTENDS VoteRevocation, TLC

GroupsSymmetry == Permutations(Groups)
=============================================================================
