----------------------------- MODULE MCAuditChain -----------------------------
(***************************************************************************)
(* A small fleet for AuditChain.                                           *)
(***************************************************************************)
EXTENDS AuditChain, TLC

Symmetric == Permutations(Instances)

=============================================================================
