-------------------------- MODULE MCActionsQueue --------------------------
(* Values of the constants of ActionsQueue for TLC. *)
EXTENDS ActionsQueue, TLC

CONSTANTS e1, e2, t1, t2, v1, d1, d2, a1

\* Two events of one target, or one of each of two.
OneTarget == e1 :> t1 @@ e2 :> t1
TwoTargets == e1 :> t1 @@ e2 :> t2

NoVars == [t \in Targets |-> {}]
UsesOne == [t \in Targets |-> {v1}]

Alike == Permutations({d1, d2})
=============================================================================
