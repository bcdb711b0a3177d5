------------------------- MODULE MCConnectionPool -------------------------
(* Values of the constants of ConnectionPool for TLC. *)
EXTENDS ConnectionPool, TLC

CONSTANTS c1, c2, c3, s1, s2, s3

Alike == Permutations({c1, c2, c3}) \cup Permutations({s1, s2, s3})
=============================================================================
