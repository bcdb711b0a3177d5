-------------------------- MODULE MCTransactions --------------------------
(* Values of the constants of Transactions for TLC. *)
EXTENDS Transactions, TLC

CONSTANTS top, a, a1, b, k0, ka, ka1

\* A transaction with two nested transactions, a scope inside one of them, and flows in
\* the callbacks of the first three.
Nested == a :> top @@ a1 :> a @@ b :> top
NestedAbove == top :> {} @@ a :> {top} @@ a1 :> {top, a} @@ b :> {top}
WithScope == top :> "transaction" @@ a :> "transaction" @@ a1 :> "scope" @@ b :> "transaction"
Three == k0 :> top @@ ka :> a @@ ka1 :> a1
=============================================================================
