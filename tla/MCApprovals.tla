---------------------------- MODULE MCApprovals ----------------------------
(* Three owners, of whom two are enough. *)
EXTENDS Approvals
CONSTANTS a, b, c, p1, p2

MCGoals ==
  {[o \in {a, b, c} |-> IF o = c THEN p1 ELSE p2],
   [o \in {a, b, c} |-> IF o = c THEN Hotfix ELSE Withdraw]}
=============================================================================
