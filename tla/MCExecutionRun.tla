---------------------------- MODULE MCExecutionRun ----------------------------
(***************************************************************************)
(* A small workflow for ExecutionRun: two nodes, the second waiting for    *)
(* the first.  The first is a mutation without an idempotency key, the     *)
(* second a keyed mutation, and both may be tried twice.                   *)
(***************************************************************************)
EXTENDS ExecutionRun, TLC

CONSTANTS a, b

MCNodes == {a, b}
MCDependsOn == (a :> {}) @@ (b :> {a})
MCMutating == {a, b}
MCKeyed == {b}
MCMaxAttempts == [n \in MCNodes |-> 2]

=============================================================================
