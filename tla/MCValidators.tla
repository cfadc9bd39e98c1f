---------------------------- MODULE MCValidators ----------------------------
(* Two validators and a group, or two groups, beside two other groups.     *)
EXTENDS Validators
CONSTANTS v1, v2, m2, m3, g1, g2, g3

Goal(goal, with, locked) == [goal |-> goal, with |-> with, locked |-> locked]
PlanOf(p1, p2, q1, q2) ==
  [a \in Users |-> CASE a = v1 -> p1 [] a = v2 -> p2 [] a = g1 -> q1
                        [] OTHER -> q2]
Bystander == Goal("none", Nobody, 99)

ChainOf(validators, groups, affiliation, members1, list, fee) ==
  [validators |-> validators, groups |-> groups,
   affiliation |-> [a \in Accounts |->
      CASE a = m2 -> g2 [] a = m3 -> g3
        [] a \in DOMAIN affiliation -> affiliation[a] [] OTHER -> Nobody],
   members |-> [a \in Accounts |->
      CASE a = g1 -> members1 [] a = g2 -> <<m2>> [] a = g3 -> <<m3>>
        [] OTHER -> <<>>],
   left |-> [a \in Accounts |-> Duration + 1],
   updated |-> [a \in Accounts |-> Duration + 1],
   commission |-> [a \in Accounts |-> fee],
   keys |-> {},
   list |-> list,
   votes |-> [a \in Accounts |-> CASE a = g1 -> 5 [] a = g2 -> 7 [] OTHER -> 3]]

Nowhere == [a \in {} |-> Nobody]
In1 == [a \in {v1, v2} |-> g1]
Only1 == [a \in {v1} |-> g1]

MCPlans == {
  \* A group, its first member and its commission.
  [plan |-> PlanOf(Goal("join", g1, 3), Bystander, Goal("lead", v1, 99), Bystander),
   chain |-> ChainOf(<<m2, m3>>, <<g2, g3>>, Nowhere, <<>>, <<g2, g3>>, "old"),
   mishaps |-> 1],
  \* Two members, of whom one has not got the gold for it.
  [plan |-> PlanOf(Goal("join", g1, 1), Goal("join", g1, 3),
                   Goal("lead", v2, 99), Bystander),
   chain |-> ChainOf(<<m2, v2, m3>>, <<g1, g2, g3>>, Nowhere, <<>>, <<g2, g3>>,
                     "new"),
   mishaps |-> 1],
  \* One leaves and takes the place of nobody, or of somebody, in the list.
  [plan |-> PlanOf(Goal("leave", Nobody, 3), Bystander, Goal("close", Nobody, 99),
                   Bystander),
   chain |-> ChainOf(<<v1, m2, m3>>, <<g1, g2, g3>>, Only1, <<v1>>,
                     <<g2, g1, g3>>, "new"),
   mishaps |-> 1],
  \* Everybody leaves.
  [plan |-> PlanOf(Goal("leave", Nobody, 3), Goal("leave", Nobody, 3),
                   Goal("close", Nobody, 99), Bystander),
   chain |-> ChainOf(<<v1, m2, m3, v2>>, <<g1, g2, g3>>, In1, <<v1, v2>>,
                     <<g2, g1, g3>>, "new"),
   mishaps |-> 0],
  \* From one group that closes to another one, which has room for one of two.
  [plan |-> PlanOf(Goal("join", g2, 3), Goal("join", g2, 3), Goal("close", Nobody, 99),
                   Goal("lead", m2, 99)),
   chain |-> ChainOf(<<v1, m2, v2, m3>>, <<g1, g2, g3>>, In1, <<v1, v2>>,
                     <<g2, g1, g3>>, "new"),
   mishaps |-> 0],
  \* The order of a group.
  [plan |-> PlanOf(Bystander, Bystander, Goal("lead", v2, 99), Bystander),
   chain |-> ChainOf(<<v1, m2, v2, m3>>, <<g1, g2, g3>>, In1, <<v1, v2>>,
                     <<g2, g1, g3>>, "new"),
   mishaps |-> 1]}
=============================================================================
