---------------------------- MODULE ApprovalRoutes ----------------------------
(***************************************************************************)
(* The product's way from an approval to a write (approval_routes.py): a   *)
(* person asks for an approval, another decides, and whoever may execute   *)
(* has the granted action run, waiting for its end or not.                 *)
(***************************************************************************)
EXTENDS GovernedWrite

CONSTANT Plans        \* the approvals the remediation runtime requested

ASSUME RoutesAssumption == Plans \subseteq Approvals

routeVars == <<approvalVars, writeVars>>

RoutesInit == ApprovalInit /\ WriteInit

RequestByPerson(a) ==
    /\ a \notin Plans
    /\ approvals[a].outcome = "absent"
    /\ Request(a, 0)
    /\ UNCHANGED <<mishaps, writeVars>>

\* Mutant: the route runs any approval.
ExecutableByRoute(a) == TRUE

\* An approval of the platform belongs to its plan.
MayExecute(a) == a \notin Plans

\* wait = false leaves once the run is durable; wait = true stays.
ExecuteApproval(a, wait) ==
    /\ MayExecute(a)
    /\ Start(a, wait)
    /\ UNCHANGED approvalVars

\* The caller who stayed notes the use of an approval that served.
NoteUse(r) ==
    /\ InState(r, "succeeded") /\ runs[r].awaited
    /\ runs' = [runs EXCEPT ![r].awaited = FALSE]
    /\ MarkConsumed(runs[r].approval)
    /\ UNCHANGED <<mishaps, generation, asked, landed>>

RoutesNext ==
    \/ \E a \in Approvals :
          RequestByPerson(a) \/ \E wait \in BOOLEAN : ExecuteApproval(a, wait)
    \/ \E r \in DOMAIN runs : NoteUse(r)
    \/ ApprovalNext /\ UNCHANGED writeVars
    \/ WriteNext /\ UNCHANGED approvals

RoutesSpec == RoutesInit /\ [][RoutesNext]_routeVars

-----------------------------------------------------------------------------
RoutesTypeOK == ApprovalTypeOK /\ WriteTypeOK

=============================================================================
