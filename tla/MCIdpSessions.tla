--------------------------- MODULE MCIdpSessions ---------------------------
(* IdpSessions for TLC. *)
EXTENDS IdpSessions, TLC

CONSTANTS r1, r2, r3
=============================================================================
