------------------------- MODULE MCDispatcherLoop -------------------------
(* DispatcherLoop for TLC. *)
EXTENDS DispatcherLoop, TLC
=============================================================================
