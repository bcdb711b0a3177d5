--------------------------- MODULE MCMigrations ---------------------------
(* Values of the constants of Migrations for TLC. *)
EXTENDS Migrations, TLC

CONSTANTS c1, c2, c3, a, b, c, s

At(v, x) == [version |-> v, content |-> x]
Migrate(ms) == [kind |-> "migrate", batch |-> ms, force |-> FALSE, state |-> None]
Force(ms) == [kind |-> "migrate", batch |-> ms, force |-> TRUE, state |-> None]

\* Batches that overlap, out of order, of data, empty, forced before another; a state
\* alone; a snapshot of two; the registry edited at both of them.
Mixed ==
    {Migrate(<<At(1, a)>>), Migrate(<<At(2, b), At(1, a)>>), Migrate(<<At(2, Data)>>),
     Migrate(<<At(3, c), At(2, Empty)>>), Force(<<At(1, b)>>),
     [kind |-> "migrate", batch |-> <<>>, force |-> FALSE, state |-> s],
     [kind |-> "snapshot", batch |-> <<At(2, b), At(1, a)>>, state |-> s],
     [kind |-> "delete", version |-> 2],
     [kind |-> "modify", version |-> 1, to |-> 3, as |-> None],
     [kind |-> "modify", version |-> 2, to |-> 1, as |-> None],
     [kind |-> "modify", version |-> 2, to |-> 2, as |-> b]}

=============================================================================
