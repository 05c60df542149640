--------------------------- MODULE MCExecutionStore ---------------------------
(***************************************************************************)
(* Small workflows for ExecutionStore: a chain of two nodes with one       *)
(* attempt each, and a single unkeyed mutation with two attempts.          *)
(***************************************************************************)
EXTENDS ExecutionStore, TLC

CONSTANTS a, b

ChainNodes == {a, b}
ChainDependsOn == (a :> {}) @@ (b :> {a})
ChainMaxAttempts == [n \in ChainNodes |-> 1]
ChainRetryAttempts == (a :> 2) @@ (b :> 1)

OneNode == {a}
OneDependsOn == (a :> {})
OneMaxAttempts == (a :> 2)

Symmetric == Permutations(Procs)

=============================================================================
