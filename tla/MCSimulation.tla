---------------------------- MODULE MCSimulation ----------------------------
(* A small instance of Simulation for TLC. *)
EXTENDS Simulation, MCPoolFiles, TLC

CONSTANTS program, table

\* Next to a streamed and prefetched account, a program and a lookup table, neither of
\* which the start-up asks for.
Subscribed == SubscribedOf(Accounts)
WarmUp == WarmUpOf(Accounts)

SomeTables == [t \in {table} |-> <<vault>>]

Tx(keys, lookups) == [keys |-> keys, lookups |-> lookups]

SomeTxs == {Tx({vault, program}, <<>>), Tx({program}, [t \in {table} |-> {1}])}

\* The callers are interchangeable.
Symmetry == Permutations(Callers)
=============================================================================
