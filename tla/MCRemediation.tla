----------------------------- MODULE MCRemediation -----------------------------
(***************************************************************************)
(* A small case for Remediation: a plan for a person to approve, one for   *)
(* policy, and an action of a person.  Four families of behaviours make it *)
(* up, because their union is small enough where their product is not.     *)
(***************************************************************************)
EXTENDS Remediation, TLC

CONSTANTS planned, autonomous, manual

Symmetric == Permutations(Instances)

OneProcess == \E i \in Instances : Doing(i, "down")

\* Two processes and one mishap; one at a time and two mishaps; a person's action
\* beside a plan and no mishap, or alone with one.
Small ==
    \/ approvals[manual].outcome = "absent" /\ mishaps <= 1
    \/ approvals[manual].outcome = "absent" /\ OneProcess
    \/ approvals[autonomous].outcome = "absent" /\ OneProcess /\ mishaps = 0
    \/ approvals[planned].outcome = "absent" /\ approvals[autonomous].outcome = "absent" /\ mishaps <= 1

SmallSpec == RemediationInit /\ [][RemediationNext /\ Small']_remediationVars
=============================================================================
