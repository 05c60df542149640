---------------------------- MODULE GovernedWrite -----------------------------
(***************************************************************************)
(* Writes under an approval: GovernedCapabilityWriter starts a run of one  *)
(* node with one attempt, the gateway asks authorization again when the    *)
(* node is dispatched and asks the worker once it has admitted the call,   *)
(* and the contained worker writes only to the generation its payload      *)
(* names.  Whoever leads the scheduler dispatches the run: its caller may  *)
(* be gone by then.  What a lapsing lease does to the attempt is the       *)
(* subject of Dispatch.                                                    *)
(***************************************************************************)
EXTENDS Approval, Sequences

CONSTANT MaxRuns      \* bound on the runs

ASSUME GovernedWriteAssumption == MaxRuns \in Nat

VARIABLES
    runs,         \* the runs in the order they were started
    generation,   \* of the target, as the cluster counts it
    asked,        \* history: how often the worker was asked under each approval
    landed        \* history: how often its effect landed

writeVars == <<runs, generation, asked, landed>>

\* unbound: resolution refused after the run was started; bound: dispatchable;
\* admitted: authorization permitted the call and the worker is not asked yet;
\* ended: its one attempt failed, or nobody knows how it went.
RunState == {"unbound", "bound", "admitted", "invoked", "succeeded", "ended"}
Run == [approval : Approvals, state : RunState, awaited : BOOLEAN]

WriteInit ==
    /\ runs = <<>>
    /\ generation = 1
    /\ asked = [a \in Approvals |-> 0]
    /\ landed = [a \in Approvals |-> 0]

\* The run that follows an authorization, somebody perhaps waiting for its answer.
\* It is created as it is authorized: nobody looks at it in between, and Admit asks
\* again.
Start(a, awaited) ==
    /\ IsValidFor(a)
    /\ Len(runs) < MaxRuns
    /\ \E state \in {"bound", "unbound"} :
          runs' = Append(runs, [approval |-> a, state |-> state, awaited |-> awaited])
    /\ UNCHANGED <<generation, asked, landed>>

InState(r, state) == r \in DOMAIN runs /\ runs[r].state = state

\* Mutant: what authorization said when the run was started is good enough.
PermitsStarted(a) == approvals[a].outcome # "pending"

\* The gateway's second question, when the node is dispatched.
Permits(a) == IsValidFor(a)

Admit(r) ==
    /\ InState(r, "bound")
    /\ Permits(runs[r].approval)
    /\ runs' = [runs EXCEPT ![r].state = "admitted"]
    /\ UNCHANGED <<generation, asked, landed>>

\* Any check of admit, before or after that question, or an event that cannot be
\* published, ends the only attempt.
Refuse(r) ==
    /\ InState(r, "bound") \/ InState(r, "admitted")
    /\ runs' = [runs EXCEPT ![r].state = "ended"]
    /\ UNCHANGED <<generation, asked, landed>>

\* The worker is asked.  Nobody looks at the approval again.
Invoke(r) ==
    /\ InState(r, "admitted")
    /\ runs' = [runs EXCEPT ![r].state = "invoked"]
    /\ asked' = [asked EXCEPT ![runs[r].approval] = @ + 1]
    /\ UNCHANGED <<generation, landed>>

\* Mutant: the worker writes to whatever it finds.
ExpectedAlways(a) == TRUE

\* The worker's reading of the target, which the API server tests again.
Expected(a) == approvals[a].expects \in {0, generation}

\* The target is written, by this platform or by somebody else.
Written == generation < MaxGeneration /\ generation' = generation + 1

Land(r) ==
    /\ InState(r, "invoked")
    /\ Expected(runs[r].approval)
    /\ Written
    /\ landed' = [landed EXCEPT ![runs[r].approval] = @ + 1]
    /\ \E answer \in {"succeeded", "ended"} :
          runs' = [runs EXCEPT ![r].state = answer]
    /\ UNCHANGED asked

\* Nothing is written.  A target that somebody else brought to the approved
\* state is a success.
NotLanded(r) ==
    /\ InState(r, "invoked")
    /\ \/ runs' = [runs EXCEPT ![r].state = "ended"]
       \/ /\ ~Expected(runs[r].approval)
          /\ runs' = [runs EXCEPT ![r].state = "succeeded"]
    /\ UNCHANGED <<generation, asked, landed>>

Drift == Written /\ Mishap /\ UNCHANGED <<runs, asked, landed>>

RunStep(r) == Admit(r) \/ Refuse(r) \/ Invoke(r) \/ Land(r) \/ NotLanded(r)

WriteNext ==
    \/ Drift
    \/ (\E r \in DOMAIN runs : RunStep(r)) /\ UNCHANGED mishaps

WriteTypeOK ==
    /\ runs \in Seq(Run) /\ Len(runs) <= MaxRuns
    /\ generation \in 1..MaxGeneration
    /\ asked \in [Approvals -> 0..MaxRuns]
    /\ landed \in [Approvals -> 0..MaxRuns]

=============================================================================
