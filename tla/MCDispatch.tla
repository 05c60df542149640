------------------------------ MODULE MCDispatch ------------------------------
(***************************************************************************)
(* A small workflow for Dispatch: one mutating node that may be tried      *)
(* twice.                                                                  *)
(***************************************************************************)
EXTENDS Dispatch, TLC

CONSTANT a

OneNode == {a}
OneDependsOn == (a :> {})
OneMaxAttempts == (a :> 2)

Symmetric == Permutations(Dispatchers)

=============================================================================
