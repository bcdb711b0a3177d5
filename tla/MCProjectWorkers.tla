------------------------- MODULE MCProjectWorkers -------------------------
(* ProjectWorkers for TLC. *)
EXTENDS ProjectWorkers, TLC

CONSTANTS q1, q2, q3, r1, r2, start, ender, disposer

=============================================================================
