-------------------------- MODULE MCGovernanceQueue --------------------------
(* Every queue of up to three proposals, and queues of five in which the    *)
(* one in the middle may get between two ties.                              *)
EXTENDS GovernanceQueue
CONSTANTS p1, p2, p3, p4, p5

Names == <<p1, p2, p3, p4, p5>>

\* Proposals have names only, so those that are queued may come in this order.
UpToThree ==
  {b \in [queue : {SubSeq(Names, 1, n) : n \in 0 .. 3},
          upvotes : {[p \in Proposals |-> IF p = p1 THEN i ELSE IF p = p2 THEN j
                                         ELSE IF p = p3 THEN k ELSE 0] :
                       i, j, k \in 0 .. MaxUpvotes},
          expired : SUBSET {p1, p2, p3},
          dequeued : {D \cup {p4, p5} : D \in SUBSET {p1, p2, p3}}] :
     /\ Sorted(b.queue, b.upvotes)
     /\ b.expired \subseteq Members(b.queue)
     /\ b.dequeued \cap Members(b.queue) = {}
     /\ \A p \in Proposals : p \in Members(b.queue) \cup b.dequeued \/ b.upvotes[p] = 0}

TwoTies ==
  {[queue |-> Names, expired |-> {}, dequeued |-> {},
    upvotes |-> [p \in Proposals |-> IF p \in {p1, p2} THEN 2
                                    ELSE IF p = p3 THEN n ELSE 0]] : n \in 0 .. 2}

MCBeginnings == UpToThree \cup TwoTies
=============================================================================
