------------------------------ MODULE Remediation ------------------------------
(***************************************************************************)
(* The remediation runtime (remediation_runtime.py): it plans against a    *)
(* generation of the target, has the plan approved by a person or by       *)
(* policy, and carries it out behind two idempotency keys, a fresh look at *)
(* the world and the governed write.  The stages of a plan go to a ledger, *)
(* and a process that starts takes up from there what another one left.    *)
(*                                                                         *)
(* Each process has one thread; nothing keeps two processes from running   *)
(* at a time.  All plans are for one incident and one target.  A plan      *)
(* stands for its approval, its row and its events.                        *)
(***************************************************************************)
EXTENDS ApprovalRoutes, FiniteSets

CONSTANTS
    Instances,       \* the processes
    Autonomous,      \* the plans policy approves
    MaxExecutions,   \* max_executions_per_incident
    NoPlan

ASSUME RemediationAssumption ==
    /\ Autonomous \subseteq Plans
    /\ NoPlan \notin Approvals
    /\ MaxExecutions \in Nat

VARIABLES
    ledger,      \* ledger[p]: what the ledger says of p
    actionKeys,  \* the plans whose action key is claimed
    fenced,      \* the generations whose target key is claimed
    pending,     \* pending[i]: the plans whose approval i is waiting for
    todo,        \* todo[i]: the plans i has yet to look at as it starts
    task,        \* task[i]: what the thread of i is doing
    lost         \* history: how many calls to the ledger failed

keyVars == <<actionKeys, fenced>>
remediationVars == <<routeVars, ledger, keyVars, pending, todo, task, lost>>

\* The last stage as far as a starting process tells stages apart.
Stage == {"none", "approval_requested", "executing", "other"}
Closing == {"no_approval", "denied", "withdrawn", "expired", "budget", "stale",
            "fenced", "refused", "verified"}
Ledger == [last : Stage, executing : BOOLEAN, closed : SUBSET Closing]

Step == {"down", "resuming", "reconciling", "idle", "announcing", "delegating",
         "counting", "claiming", "checking", "fencing", "executing",
         "writing", "driving", "noting", "reporting", "verifying", "refused"}

\* expired: was the approval expired when execute_plan read the clock?
Task == [at : Step, plan : Plans \cup {NoPlan}, expired : BOOLEAN]

At(step, p) == [at |-> step, plan |-> p, expired |-> FALSE]
Idle == At("idle", NoPlan)

RemediationInit ==
    /\ RoutesInit
    /\ ledger = [p \in Plans |-> [last |-> "none", executing |-> FALSE, closed |-> {}]]
    /\ actionKeys = {} /\ fenced = {}
    /\ pending = [i \in Instances |-> {}]
    /\ todo = [i \in Instances |-> {}]
    /\ task = [i \in Instances |-> At("down", NoPlan)]
    /\ lost = 0

-----------------------------------------------------------------------------
(* The ledger.  An event that cannot be recorded is logged and forgotten.  *)

Told == UNCHANGED <<lost, mishaps>>
Lose == Mishap /\ lost' = lost + 1

Event(p, stage) ==
    \/ /\ Told
       /\ ledger' = [ledger EXCEPT ![p].last = stage,
                                   ![p].executing = @ \/ stage = "executing"]
    \/ Lose /\ UNCHANGED ledger

\* An event and what _close records after it: losing the last is what matters.
Close(p, closing) ==
    \/ /\ Told
       /\ ledger' = [ledger EXCEPT ![p].last = "other", ![p].closed = @ \cup {closing}]
    \/ /\ Lose
       /\ ledger' = [ledger EXCEPT ![p].last = "other"]

Doing(i, step) == task[i].at = step
GoTo(i, step) == task' = [task EXCEPT ![i].at = step]
Rest(i) == task' = [task EXCEPT ![i] = Idle]

OutsideUnchanged == UNCHANGED <<approvals, writeVars, keyVars>>
WaitingUnchanged == UNCHANGED <<pending, todo>>

-----------------------------------------------------------------------------
(* From a plan to its approval.                                            *)

\* _govern, as far as the approval's row: the plan names the generation it read.
Propose(i, p) ==
    /\ Doing(i, "idle")
    /\ p \in Plans /\ approvals[p].outcome = "absent"
    /\ Request(p, generation)
    /\ task' = [task EXCEPT ![i] = At("announcing", p)]
    /\ UNCHANGED <<writeVars, mishaps, ledger, keyVars, pending, todo, lost>>

Announce(i) ==
    LET p == task[i].plan IN
    /\ Doing(i, "announcing")
    /\ Event(p, "approval_requested")
    /\ IF p \in Autonomous
       THEN GoTo(i, "delegating") /\ UNCHANGED pending
       ELSE Rest(i) /\ pending' = [pending EXCEPT ![i] = @ \cup {p}]
    /\ OutsideUnchanged /\ UNCHANGED todo

\* Policy decides, unless somebody was faster.
Delegate(i) ==
    LET p == task[i].plan IN
    /\ Doing(i, "delegating")
    /\ \/ /\ Decide(p, "granted")
          /\ GoTo(i, "counting")
          /\ UNCHANGED <<ledger, lost, mishaps>>
       \/ /\ approvals[p].outcome # "pending"
          /\ Close(p, "no_approval")
          /\ Rest(i)
          /\ UNCHANGED approvals
    /\ UNCHANGED <<writeVars, keyVars>> /\ WaitingUnchanged

\* process_pending: one row that was decided, or that expired undecided.
Poll(i, p) ==
    /\ Doing(i, "idle")
    /\ p \in pending[i]
    /\ pending' = [pending EXCEPT ![i] = @ \ {p}]
    /\ \/ /\ approvals[p].outcome = "granted"
          /\ task' = [task EXCEPT ![i] = At("counting", p)]
          /\ UNCHANGED <<ledger, lost, mishaps>>
       \/ /\ approvals[p].outcome \in {"denied", "withdrawn"}
          /\ Close(p, approvals[p].outcome)
          /\ UNCHANGED task
       \/ /\ approvals[p].outcome = "pending" /\ approvals[p].expired
          /\ Close(p, "expired")
          /\ UNCHANGED task
    /\ OutsideUnchanged /\ UNCHANGED todo

-----------------------------------------------------------------------------
(* execute_plan.                                                           *)

\* Mutant: a plan that was closed as refused did not execute.
SpentUnrefused ==
    Cardinality({p \in Plans : ledger[p].executing /\ "refused" \notin ledger[p].closed})

\* The executions of the incident the ledger knows of.
Spent == Cardinality({p \in Plans : ledger[p].executing})

\* The grant is recorded, the clock is read, and the executions are counted; a
\* ledger that cannot be read knows of none.
Count(i) ==
    LET p == task[i].plan
        Proceed == task' = [task EXCEPT ![i].at = "claiming",
                                        ![i].expired = approvals[p].expired] IN
    /\ Doing(i, "counting")
    /\ \/ /\ Spent >= MaxExecutions
          /\ Close(p, "budget")
          /\ Rest(i)
       \/ Spent < MaxExecutions /\ Event(p, "other") /\ Proceed
       \/ /\ Spent >= MaxExecutions /\ Lose /\ Proceed
          /\ ledger' = [ledger EXCEPT ![p].last = "other"]
    /\ OutsideUnchanged /\ WaitingUnchanged

\* Mutant: a repetition goes on like a first claim.
FirstAlways(p) == TRUE

\* The insertion of the key tells the first claim from a repetition.
First(p) == p \notin actionKeys

ClaimAction(i) ==
    LET p == task[i].plan IN
    /\ Doing(i, "claiming")
    /\ \/ /\ First(p)
          /\ actionKeys' = actionKeys \cup {p}
          /\ GoTo(i, "checking")
          /\ UNCHANGED <<ledger, lost, mishaps>>
       \/ /\ ~First(p)
          /\ Event(p, "other")
          /\ Rest(i)
          /\ UNCHANGED actionKeys
    /\ UNCHANGED <<approvals, writeVars, fenced>> /\ WaitingUnchanged

\* _stale_reasons, its readings taken as one: what changes between them may as well
\* change after them.  A target that cannot be read counts as one that moved, and
\* the approval is judged at the moment execute_plan began.
CheckStale(i) ==
    LET p == task[i].plan IN
    /\ Doing(i, "checking")
    /\ \/ /\ generation = approvals[p].expects
          /\ approvals[p].outcome = "granted" /\ ~approvals[p].consumed /\ ~task[i].expired
          /\ GoTo(i, "fencing")
          /\ UNCHANGED <<ledger, lost, mishaps>>
       \/ Close(p, "stale") /\ Rest(i)
    /\ OutsideUnchanged /\ WaitingUnchanged

FenceTarget(i) ==
    LET p == task[i].plan IN
    /\ Doing(i, "fencing")
    /\ \/ /\ approvals[p].expects \notin fenced
          /\ fenced' = fenced \cup {approvals[p].expects}
          /\ GoTo(i, "executing")
          /\ UNCHANGED <<ledger, lost, mishaps>>
       \/ /\ approvals[p].expects \in fenced
          /\ Close(p, "fenced")
          /\ Rest(i)
          /\ UNCHANGED fenced
    /\ UNCHANGED <<approvals, writeVars, actionKeys>> /\ WaitingUnchanged

\* What is about to happen is on record before it can happen.
Executing(i) ==
    /\ Doing(i, "executing")
    /\ Event(task[i].plan, "executing")
    /\ GoTo(i, "writing")
    /\ OutsideUnchanged /\ WaitingUnchanged

\* The governed write starts a run, or refuses.
Write(i) ==
    LET p == task[i].plan IN
    /\ Doing(i, "writing")
    /\ \/ Start(p, FALSE) /\ GoTo(i, "driving")
       \/ UNCHANGED writeVars /\ GoTo(i, "refused")
    /\ UNCHANGED <<approvalVars, ledger, keyVars, lost>> /\ WaitingUnchanged

\* The run ended, was never bound, or its caller stopped waiting: all the same to
\* what follows, for only the world is asked how it went.
Drive(i) ==
    /\ Doing(i, "driving")
    /\ GoTo(i, "noting")
    /\ UNCHANGED <<routeVars, keyVars, ledger, lost>> /\ WaitingUnchanged

\* "an exception is a refusal, never a success": the run is lost from sight.
Break(i) ==
    /\ Doing(i, "driving")
    /\ GoTo(i, "refused")
    /\ Mishap
    /\ UNCHANGED <<approvals, writeVars, keyVars, ledger, lost>> /\ WaitingUnchanged

\* mark_consumed swallows its failure.
Note(i) ==
    /\ Doing(i, "noting")
    /\ GoTo(i, "reporting")
    /\ \/ MarkConsumed(task[i].plan) /\ UNCHANGED mishaps
       \/ Mishap /\ UNCHANGED approvals
    /\ UNCHANGED <<writeVars, keyVars, ledger, lost>> /\ WaitingUnchanged

Report(i) ==
    /\ \/ /\ Doing(i, "reporting")
          /\ Event(task[i].plan, "other") /\ GoTo(i, "verifying")
       \/ /\ Doing(i, "refused")
          /\ Close(task[i].plan, "refused") /\ Rest(i)
    /\ OutsideUnchanged /\ WaitingUnchanged

\* What an independent reading of the target makes of it is on record.
Verify(i) ==
    /\ Doing(i, "verifying")
    /\ Close(task[i].plan, "verified")
    /\ Rest(i)
    /\ OutsideUnchanged /\ WaitingUnchanged

-----------------------------------------------------------------------------
(* Starting and dying.                                                     *)

\* start: resume lists the plans before the thread runs.
StartUp(i) ==
    /\ Doing(i, "down")
    /\ GoTo(i, "resuming")
    /\ todo' = [todo EXCEPT ![i] = {p \in Plans : approvals[p].outcome # "absent"}]
    /\ OutsideUnchanged /\ UNCHANGED <<mishaps, ledger, pending, lost>>

\* Mutant: what was being executed is executed again.
Reexecute(i, p) == task' = [task EXCEPT ![i] = At("writing", p)] /\ UNCHANGED pending

\* It is never executed again: the world is asked.
Reconcile(i, p) == task' = [task EXCEPT ![i] = At("reconciling", p)] /\ UNCHANGED pending

\* Plans that are closed, or were left at any other stage, are passed over.
Resume(i, p) ==
    LET open == ledger[p].closed = {} IN
    /\ Doing(i, "resuming")
    /\ p \in todo[i]
    /\ todo' = [todo EXCEPT ![i] = @ \ {p}]
    /\ \/ /\ open /\ ledger[p].last = "approval_requested"
          /\ pending' = [pending EXCEPT ![i] = @ \cup {p}]
          /\ UNCHANGED task
       \/ /\ open /\ ledger[p].last = "executing"
          /\ Reconcile(i, p)
       \/ /\ ~open \/ ledger[p].last \in {"none", "other"}
          /\ UNCHANGED <<pending, task>>
    /\ OutsideUnchanged /\ UNCHANGED <<mishaps, ledger, lost>>

Reconciled(i) ==
    /\ Doing(i, "reconciling")
    /\ Close(task[i].plan, "verified")
    /\ task' = [task EXCEPT ![i] = At("resuming", NoPlan)]
    /\ OutsideUnchanged /\ WaitingUnchanged

Resumed(i) ==
    /\ Doing(i, "resuming")
    /\ todo[i] = {}
    /\ Rest(i)
    /\ OutsideUnchanged /\ WaitingUnchanged /\ UNCHANGED <<ledger, lost, mishaps>>

Crash(i) ==
    /\ ~Doing(i, "down")
    /\ Mishap
    /\ task' = [task EXCEPT ![i] = At("down", NoPlan)]
    /\ pending' = [pending EXCEPT ![i] = {}]
    /\ todo' = [todo EXCEPT ![i] = {}]
    /\ OutsideUnchanged /\ UNCHANGED <<ledger, lost>>

Execute(i) ==
    \/ Count(i) \/ ClaimAction(i) \/ CheckStale(i) \/ FenceTarget(i)
    \/ Executing(i) \/ Write(i) \/ Drive(i) \/ Break(i) \/ Note(i) \/ Report(i) \/ Verify(i)

RemediationStep(i) ==
    \/ Announce(i) \/ Delegate(i) \/ Execute(i)
    \/ StartUp(i) \/ Reconciled(i) \/ Resumed(i) \/ Crash(i)
    \/ \E p \in Plans : Propose(i, p) \/ Poll(i, p) \/ Resume(i, p)

RemediationNext ==
    \/ \E i \in Instances : RemediationStep(i)
    \/ /\ RoutesNext
       /\ UNCHANGED <<ledger, keyVars, pending, todo, task, lost>>

RemediationSpec == RemediationInit /\ [][RemediationNext]_remediationVars

-----------------------------------------------------------------------------
(* Type invariant.                                                         *)
RemediationTypeOK ==
    /\ RoutesTypeOK
    /\ ledger \in [Plans -> Ledger]
    /\ actionKeys \subseteq Plans /\ fenced \subseteq 1..MaxGeneration
    /\ pending \in [Instances -> SUBSET Plans]
    /\ todo \in [Instances -> SUBSET Plans]
    /\ task \in [Instances -> Task]
    /\ lost \in 0..mishaps

\* An approval as GovernedAction sees it: anything that makes it invalid is for
\* good, whatever its outcome still says.
Standing(a) ==
    IF approvals[a].outcome \in {"denied", "withdrawn"} \/ approvals[a].expired
          \/ approvals[a].consumed
    THEN "revoked"
    ELSE IF approvals[a].outcome = "granted" THEN "permitted" ELSE "open"

\* The runs under a that are in one of the states.
RunsIn(a, states) == {r \in DOMAIN runs : runs[r].approval = a /\ runs[r].state \in states}

Action == INSTANCE GovernedAction WITH
    Actions <- Approvals, Once <- Plans,
    standing <- [a \in Approvals |-> Standing(a)],
    admitted <- [a \in Approvals |-> Cardinality(RunsIn(a, {"admitted"}))]

(* The worker is asked only on an admission that the gateway gave while    *)
(* the approval stood, each serving once, and once for each plan, whatever *)
(* is retried, resumed or run twice.  An approval that falls admits        *)
(* nothing more; it does not stop the call that is being made.             *)
ImplementsGovernedAction == Action!ActionSpec

(* The incident's plans take effect no more often than its budget allows,  *)
(* although each process counts before it executes and nothing holds the   *)
(* others back meanwhile; only a ledger that failed can let more pass.     *)
EffectsWithinBudget ==
    Cardinality({p \in Plans : landed[p] > 0}) <= MaxExecutions + lost

(* A plan closed as stale, fenced, denied or expired was never started and *)
(* never will be, whichever process closed it.                             *)
NotExecutedMeansNot ==
    \A p \in Plans :
        ledger[p].closed \cap {"stale", "fenced", "denied", "expired"} # {} =>
            \A r \in DOMAIN runs : runs[r].approval # p

-----------------------------------------------------------------------------
(* What documents and comments say and the code does not keep; the README  *)
(* tells how each of the three fails.                                      *)

(* "Every one of those must be able to stop work already in flight"        *)
(* (ADR-038, of a grant withdrawn and an approval expired): when the       *)
(* worker is asked, the approval stands.                                   *)
AskedUnderStandingApproval ==
    [][\A a \in Approvals : asked'[a] # asked[a] => Standing(a) = "permitted"]_remediationVars

(* A stage that closes a plan is one after which it "performs nothing      *)
(* further on its own" (contracts/remediation.py): neither is the worker   *)
(* asked on its account, nor does its effect land.                         *)
ClosedPerformsNothing ==
    [][\A p \in Plans : ledger[p].closed # {} => asked'[p] = asked[p] /\ landed'[p] = landed[p]
      ]_remediationVars

(* "Every re-check of the execution it authorized precedes" the mark of    *)
(* use of an approval (authorization.py): none is left to be made.         *)
RecheckPrecedesUse ==
    \A p \in Plans : approvals[p].consumed => RunsIn(p, {"bound"}) = {}

=============================================================================
