------------------------------ MODULE MCEpochs ------------------------------
(* Three groups of which two are elected, one of them with two accounts;   *)
(* an operator with epochs:switch, and one with another command or a voter. *)
EXTENDS Epochs
CONSTANTS alice, bob, carol, dave, g1, g2, g3

MCCommandOf == [o \in Operators |-> CASE o = alice -> "switch"
                                     [] o = bob   -> "process-groups"
                                     [] o = carol -> "start"
                                     [] OTHER     -> "finish"]
MCCasts == {{alice, bob}, {carol, dave}, {alice, Voter}}
MCElected == <<g2, g1, g2>>

Chain(v1, v2, v3, r1, r2) ==
  [ok |-> TRUE, list |-> <<g1, g2, g3>>,
   votes |-> [g \in Groups |-> CASE g = g1 -> v1 [] g = g2 -> v2 [] OTHER -> v3],
   reward |-> [g \in Groups |-> CASE g = g1 -> r1 [] g = g2 -> r2 [] OTHER -> 0]]

\* Far apart; tied; rewards that reorder; a group without rewards.
MCChains == {Chain(9, 5, 1, 1, 1), Chain(3, 2, 2, 1, 1), Chain(2, 1, 1, 0, 2)}
=============================================================================
