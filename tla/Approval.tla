------------------------------- MODULE Approval -------------------------------
(***************************************************************************)
(* The durable approvals (sql_approval.py) and what authorization makes of *)
(* one (ApprovalFacts.is_valid_for in authorization.py).  The store keeps  *)
(* rows and judges nothing: a decision lands only on a pending row, a      *)
(* withdrawal on any row, and the mark of use is a note that may be lost.  *)
(*                                                                         *)
(* Tenant, capability, operation and action digest are those the approval  *)
(* was requested for: their mismatches are refusals that depend on nothing *)
(* that changes here.                                                      *)
(***************************************************************************)
EXTENDS Naturals

CONSTANTS
    Approvals,        \* the approvals, named by what they are for
    MaxGeneration,    \* bound on the generations of the target
    MaxMishaps        \* bound on what goes wrong, here and in the modules that extend this

ASSUME ApprovalAssumption == MaxGeneration \in Nat \ {0} /\ MaxMishaps \in Nat

VARIABLES
    approvals,        \* approvals[a]: the row of a
    mishaps           \* how often time ran out, a call failed, a process died ...

approvalVars == <<approvals, mishaps>>

ApprovalOutcome == {"granted", "denied", "withdrawn"}

\* expects: the generation of the target that the payload names, 0 for none.
ApprovalRecord == [outcome : {"absent", "pending"} \cup ApprovalOutcome,
                   expired : BOOLEAN, consumed : BOOLEAN, expects : 0..MaxGeneration]

ApprovalInit ==
    /\ approvals = [a \in Approvals |-> [outcome |-> "absent", expired |-> FALSE,
                                         consumed |-> FALSE, expects |-> 0]]
    /\ mishaps = 0

Mishap == mishaps < MaxMishaps /\ mishaps' = mishaps + 1

IsValidFor(a) ==
    /\ approvals[a].outcome = "granted"
    /\ ~approvals[a].consumed
    /\ ~approvals[a].expired

\* Mutant: the payload names the generation the action will bring about.
RequestAhead(a, expects) ==
    approvals' = [approvals EXCEPT ![a] =
        IF @.outcome = "absent" THEN [@ EXCEPT !.outcome = "pending", !.expects = expects + 1]
                                ELSE @]

\* The identity of a request is unique: a second one changes nothing.
Request(a, expects) ==
    approvals' = [approvals EXCEPT ![a] =
        IF @.outcome = "absent" THEN [@ EXCEPT !.outcome = "pending", !.expects = expects]
                                ELSE @]

\* One statement, conditioned on the row being pending; else nothing changes.
Decide(a, outcome) ==
    /\ approvals[a].outcome = "pending"
    /\ approvals' = [approvals EXCEPT ![a].outcome = outcome]

MarkConsumed(a) == approvals' = [approvals EXCEPT ![a].consumed = TRUE]

\* The route refuses to grant a row it read as expired; as time may pass between
\* the reading and the decision, an expired row may be granted all the same.
PersonDecides(a) ==
    /\ \E outcome \in {"granted", "denied"} : Decide(a, outcome)
    /\ UNCHANGED mishaps

Withdraw(a) ==
    /\ approvals[a].outcome \notin {"absent", "withdrawn"}
    /\ approvals' = [approvals EXCEPT ![a].outcome = "withdrawn"]
    /\ Mishap

\* Time passes.
Expire(a) ==
    /\ approvals[a].outcome # "absent" /\ ~approvals[a].expired
    /\ approvals' = [approvals EXCEPT ![a].expired = TRUE]
    /\ Mishap

ApprovalNext ==
    \E a \in Approvals : PersonDecides(a) \/ Withdraw(a) \/ Expire(a)

ApprovalTypeOK == approvals \in [Approvals -> ApprovalRecord] /\ mishaps \in 0..MaxMishaps

=============================================================================
