-------------------------- MODULE ExecutionAggregate --------------------------
(***************************************************************************)
(* The execution aggregate of backend/contexts/execution/domain: one run   *)
(* of a compiled workflow, as a value.  A run holds its own state, the     *)
(* runtime state of every node (state, lease, attempts) and the            *)
(* checkpoints recorded so far.  The aggregate is immutable: each method   *)
(* of the code returns a new aggregate or raises.  Each is modelled by a   *)
(* pair, Can<Method> (it does not raise) and the aggregate it returns.     *)
(*                                                                         *)
(* Abstracted away: identifiers (an attempt is its number), reasons,       *)
(* digests of content, the advisory heartbeat time of a lease, and what a  *)
(* result carries.                                                         *)
(***************************************************************************)
EXTENDS Naturals, Sequences, FiniteSets

CONSTANTS
    Nodes,          \* the nodes of the compiled workflow
    DependsOn,      \* DependsOn[n]: the nodes n waits for
    Mutating,       \* the nodes whose side effect mutates
    Keyed,          \* the nodes that carry an idempotency key
    MaxAttempts,    \* MaxAttempts[n]: the attempts the workflow allows n
    Workers,        \* the identities a lease can be granted to
    LeaseSeconds,   \* how long a lease lasts, in ticks of the clock
    NoLease         \* a node that was never leased

ASSUME AggregateAssumption ==
    /\ DependsOn \in [Nodes -> SUBSET Nodes]
    /\ \A n \in Nodes : n \notin DependsOn[n]
    /\ Mutating \subseteq Nodes
    /\ Keyed \subseteq Nodes
    /\ MaxAttempts \in [Nodes -> Nat \ {0}]
    /\ LeaseSeconds \in Nat \ {0}
    /\ NoLease \notin [holder : Workers, expires : Nat, released : BOOLEAN]

-----------------------------------------------------------------------------
(* States and their transition tables (domain/state.py).                   *)

ExecutionState ==
    {"pending", "running", "paused", "completed", "failed", "cancelled", "timed_out"}

TerminalStates == {"completed", "failed", "cancelled", "timed_out"}

NodeState ==
    {"waiting", "ready", "leased", "succeeded", "failed", "unknown", "skipped",
     "compensated"}

\* Node states a run may complete over.
FinishedStates == {"succeeded", "skipped", "compensated"}

\* Node states that let the nodes waiting on this one proceed.
SatisfyingStates == {"succeeded", "skipped"}

ExecutionTransitions ==
    [s \in ExecutionState |->
        CASE s = "pending" -> {"running", "cancelled", "timed_out"}
          [] s = "running" -> {"paused"} \cup TerminalStates
          [] s = "paused"  -> {"running", "failed", "cancelled", "timed_out"}
          [] OTHER         -> {}]

NodeTransitions ==
    [s \in NodeState |->
        CASE s = "waiting"   -> {"ready", "skipped"}
          [] s = "ready"     -> {"leased", "skipped"}
          [] s = "leased"    -> {"succeeded", "failed", "unknown"}
          [] s = "succeeded" -> {"compensated"}
          [] s = "failed"    -> {"ready", "skipped"}
          [] s = "unknown"   -> {"ready", "skipped", "compensated"}
          [] OTHER           -> {}]

-----------------------------------------------------------------------------
(* Failure classes (domain/failure.py).  NoFailure: nothing was classified.*)

NoFailure == "none"

AmbiguousClasses == {"unknown_outcome", "network_failure", "timeout"}

TerminalClasses ==
    {"validation_failure", "authorization_failure", "permanent_failure",
     "policy_refusal", "cancellation"}

FailureClass ==
    AmbiguousClasses \cup TerminalClasses \cup
    {"transient_failure", "worker_failure", "external_system_failure",
     "concurrency_conflict", "recovery_required"}

-----------------------------------------------------------------------------
(* The shape of a run.                                                     *)

Lease == [holder : Workers, expires : Nat, released : BOOLEAN]

\* One try at a node: outcome "leased" while it is in flight.
Attempt == [worker : Workers, outcome : NodeState, failure : FailureClass \cup {NoFailure}]

NodeRun == [state : NodeState, lease : Lease \cup {NoLease}, attempts : Seq(Attempt)]

\* A checkpoint is the set of nodes that had finished when it was taken.
Run == [state : ExecutionState, node : [Nodes -> NodeRun], checkpoints : Seq(SUBSET Nodes)]

-----------------------------------------------------------------------------
(* A lease against the clock (domain/lease.py, ExecutionLease).            *)

HasExpiredAt(lease, t) == ~lease.released /\ t >= lease.expires

IsLiveAt(lease, t) == ~lease.released /\ t < lease.expires

HeldBy(lease, w) == lease.holder = w /\ ~lease.released

-----------------------------------------------------------------------------
(* Queries over the nodes of a run (domain/execution.py).                  *)

Satisfied(node) == {n \in Nodes : node[n].state \in SatisfyingStates}

FinishedNodes(run) == {n \in Nodes : run.node[n].state \in FinishedStates}

OutstandingNodes(run) == Nodes \ FinishedNodes(run)

AmbiguousNodes(run) == {n \in Nodes : run.node[n].state = "unknown"}

ReadyNodes(run) ==
    {n \in Nodes : run.node[n].state = "ready" /\ DependsOn[n] \subseteq Satisfied(run.node)}

\* What cancellation has to answer for.
MutatedNodes(run) ==
    {n \in Mutating : run.node[n].state \in {"succeeded", "unknown"}}

IsOpen(attempt) == attempt.outcome = "leased"

AttemptsRemaining(n, nr) == MaxAttempts[n] - Len(nr.attempts)

\* Refuse a repeat that could apply a non-idempotent change twice.
RetryableAfter(n, state) == state # "unknown" \/ n \notin Mutating \/ n \in Keyed

-----------------------------------------------------------------------------
(* Moves of one node (domain/lease.py, NodeRun).                           *)

CanMove(nr, to) == to \in NodeTransitions[nr.state]

CanLease(n, nr) ==
    /\ nr.state # "leased"
    /\ AttemptsRemaining(n, nr) >= 1
    /\ RetryableAfter(n, nr.state)
    /\ CanMove(nr, "leased")

LeasedTo(nr, w, t) ==
    [state    |-> "leased",
     lease    |-> [holder |-> w, expires |-> t + LeaseSeconds, released |-> FALSE],
     attempts |-> Append(nr.attempts,
                         [worker |-> w, outcome |-> "leased", failure |-> NoFailure])]

\* assert_held_by: only the holder of a lease that has not lapsed may report.
HoldsLease(nr, w, t) ==
    /\ nr.state = "leased"
    /\ nr.lease # NoLease
    /\ HeldBy(nr.lease, w)
    /\ ~HasExpiredAt(nr.lease, t)

\* Mutant: closing rewrites the whole history.
CloseEvery(attempts, outcome, failure) ==
    [i \in 1..Len(attempts) |-> [attempts[i] EXCEPT !.outcome = outcome, !.failure = failure]]

\* The open attempt of a node is its current one; it is closed with an outcome.
CloseCurrent(attempts, outcome, failure) ==
    [i \in 1..Len(attempts) |->
        IF IsOpen(attempts[i]) /\ \A j \in (i + 1)..Len(attempts) : ~IsOpen(attempts[j])
        THEN [attempts[i] EXCEPT !.outcome = outcome, !.failure = failure]
        ELSE attempts[i]]

Concluded(nr, outcome, failure) ==
    [state    |-> outcome,
     lease    |-> [nr.lease EXCEPT !.released = TRUE],
     attempts |-> CloseCurrent(nr.attempts, outcome, failure)]

CanAbandon(nr, t) ==
    /\ nr.state = "leased"
    /\ nr.lease # NoLease => ~IsLiveAt(nr.lease, t)

\* Mutant: the lease is given back but the attempt is left in flight.
AbandonedLeaseOnly(nr) ==
    [nr EXCEPT !.state = "unknown",
               !.lease = IF @ = NoLease THEN NoLease ELSE [@ EXCEPT !.released = TRUE]]

\* Mutant: a lapsed lease is taken for a failure.
AbandonedAsFailure(nr) ==
    [state    |-> "failed",
     lease    |-> IF nr.lease = NoLease THEN NoLease ELSE [nr.lease EXCEPT !.released = TRUE],
     attempts |-> CloseCurrent(nr.attempts, "failed", "transient_failure")]

Abandoned(nr) ==
    [state    |-> "unknown",
     lease    |-> IF nr.lease = NoLease THEN NoLease ELSE [nr.lease EXCEPT !.released = TRUE],
     attempts |-> CloseCurrent(nr.attempts, "unknown", "unknown_outcome")]

CanReady(n, nr) ==
    /\ AttemptsRemaining(n, nr) >= 1
    /\ RetryableAfter(n, nr.state)
    /\ CanMove(nr, "ready")

-----------------------------------------------------------------------------
(* Whether a node may run again (domain/retry.py, domain/effects.py).      *)

\* A repeat after an ambiguous outcome is safe for a read and for a keyed
\* write; any other mutation is delivered at most once.
MayRetryAfterAmbiguity(n) == n \notin Mutating \/ n \in Keyed

LastFailure(nr) ==
    IF nr.attempts = <<>> THEN NoFailure ELSE nr.attempts[Len(nr.attempts)].failure

\* Mutant: worthwhileness before safety; what may clear is tried again.
DecideRetryUnsafe(n, nr) ==
    CASE LastFailure(nr) \in TerminalClasses -> "not_retryable"
      [] Len(nr.attempts) >= MaxAttempts[n] -> "exhausted"
      [] OTHER                              -> "retry"

DecideRetry(n, nr) ==
    CASE LastFailure(nr) \in AmbiguousClasses /\ ~MayRetryAfterAmbiguity(n) -> "unsafe_to_retry"
      [] LastFailure(nr) \in TerminalClasses                                -> "not_retryable"
      [] Len(nr.attempts) >= MaxAttempts[n]                                 -> "exhausted"
      [] OTHER                                                              -> "retry"

-----------------------------------------------------------------------------
(* Moves of the run (domain/execution.py, Execution).                      *)

IsTerminal(run) == run.state \in TerminalStates

\* _promote_ready: waiting nodes whose dependencies are satisfied become ready.
PromoteReady(node) ==
    [n \in Nodes |->
        IF node[n].state = "waiting" /\ DependsOn[n] \subseteq Satisfied(node)
        THEN [node[n] EXCEPT !.state = "ready"]
        ELSE node[n]]

\* _with_run: replace one node's run and let its dependents become ready.
WithRun(run, n, nr) == [run EXCEPT !.node = PromoteReady([run.node EXCEPT ![n] = nr])]

CanMoveTo(run, to) == ~IsTerminal(run) /\ to \in ExecutionTransitions[run.state]

MovedTo(run, to) == [run EXCEPT !.state = to]

\* A run may resume from no checkpoint (0) or from one that claims no node
\* finished that the record says did not.
CanResume(run, c) ==
    /\ CanMoveTo(run, "running")
    /\ c # 0 => run.checkpoints[c] \subseteq FinishedNodes(run)

\* Mutant: only the open question is asked (X2), not whether work is left (X1).
CanCompleteEarly(run) == CanMoveTo(run, "completed") /\ AmbiguousNodes(run) = {}

\* The policy's rules X1 and X2, and the aggregate's own refusal.
CanComplete(run) ==
    /\ CanMoveTo(run, "completed")
    /\ OutstandingNodes(run) = {}
    /\ AmbiguousNodes(run) = {}

CanAssign(run, n) ==
    /\ run.state = "running"
    /\ DependsOn[n] \subseteq Satisfied(run.node)
    /\ CanLease(n, run.node[n])

Assigned(run, n, w, t) == WithRun(run, n, LeasedTo(run.node[n], w, t))

\* _sealed_if_done: a recorded success that leaves nothing to do completes the run.
SealedIfDone(run) ==
    IF run.state = "running" /\ \A n \in Nodes : run.node[n].state \in SatisfyingStates
    THEN MovedTo(run, "completed")
    ELSE run

CanRecord(run, n, w, t) == ~IsTerminal(run) /\ HoldsLease(run.node[n], w, t)

SuccessRecorded(run, n) ==
    SealedIfDone(WithRun(run, n, Concluded(run.node[n], "succeeded", NoFailure)))

FailureRecorded(run, n, class) ==
    WithRun(run, n, Concluded(run.node[n], "failed", class))

CanReclaim(run, n, t) == ~IsTerminal(run) /\ CanAbandon(run.node[n], t)

Reclaimed(run, n) == WithRun(run, n, Abandoned(run.node[n]))

CanRetry(run, n) == ~IsTerminal(run) /\ CanReady(n, run.node[n])

\* Mutant: the published vocabulary written into the record.
RetriedAsPublished(run, n) == WithRun(run, n, [run.node[n] EXCEPT !.state = "pending"])

Retried(run, n) == WithRun(run, n, [run.node[n] EXCEPT !.state = "ready"])

\* Mutant: skips without asking whether the run is still open.
CanSkipAnyRun(run, n) == CanMove(run.node[n], "skipped")

CanSkip(run, n) == ~IsTerminal(run) /\ CanMove(run.node[n], "skipped")

\* Mutant: the node is replaced without promoting its dependents.
SkippedAlone(run, n) == [run EXCEPT !.node[n].state = "skipped"]

Skipped(run, n) == WithRun(run, n, [run.node[n] EXCEPT !.state = "skipped"])

CanCompensate(run, n) == ~IsTerminal(run) /\ CanMove(run.node[n], "compensated")

Compensated(run, n) == WithRun(run, n, [run.node[n] EXCEPT !.state = "compensated"])

CanCheckpoint(run) == ~IsTerminal(run) /\ run.state # "pending"

\* Mutant: records the nodes that ended rather than those that finished.
CheckpointedEnded(run) ==
    [run EXCEPT !.checkpoints =
        Append(@, {n \in Nodes : run.node[n].state \in FinishedStates \cup {"failed", "unknown"}})]

Checkpointed(run) ==
    [run EXCEPT !.checkpoints = Append(run.checkpoints, FinishedNodes(run))]

-----------------------------------------------------------------------------
(* What to do with a run that stopped badly (domain/recovery.py).  A plan  *)
(* names an action and the nodes it is about; nothing is carried out.      *)

\* Nodes that can never become ready, because something they need ended badly.
BlockedNodes(run) ==
    LET unusable == {n \in Nodes : run.node[n].state \in {"failed", "unknown", "compensated"}}
    IN  {n \in Nodes :
            /\ run.node[n].state \in {"waiting", "ready", "leased"}
            /\ DependsOn[n] \cap unusable # {}}

\* Mutant: the state of a node is taken for the whole story.
InDoubtByState(run) == AmbiguousNodes(run)

\* A node is in doubt by its state, or by how its last attempt ended.
InDoubt(run) ==
    AmbiguousNodes(run) \cup {n \in Nodes : LastFailure(run.node[n]) \in AmbiguousClasses}

\* The most dangerous condition decides.
PlanRecovery(run, retryable) ==
    LET plan(action, nodes) == [action |-> action, nodes |-> nodes]
        blocked == BlockedNodes(run)
        mutated == MutatedNodes(run)
    IN  IF InDoubt(run) # {}
        THEN plan("reconcile_external_state", InDoubt(run))
        ELSE IF IsTerminal(run)              THEN plan("wait_for_human", {})
        ELSE IF retryable # {}               THEN plan("retry_attempt", retryable)
        ELSE IF blocked # {} /\ mutated # {} THEN plan("compensate", mutated)
        ELSE IF blocked # {}                 THEN plan("fail_execution", blocked)
        ELSE IF OutstandingNodes(run) = {}   THEN plan("wait_for_human", {})
        ELSE plan("resume_from_checkpoint", ReadyNodes(run))

\* What a startup scan takes for retryable: an attempt is left, whatever ended the last.
AttemptsLeft(run) ==
    {n \in Nodes :
        /\ run.node[n].state \in {"failed", "unknown"}
        /\ AttemptsRemaining(n, run.node[n]) > 0}

\* Mutant: an operator is told what the scan goes by.
AttemptsLeftOfFailed(run) ==
    {n \in Nodes : run.node[n].state = "failed" /\ AttemptsRemaining(n, run.node[n]) > 0}

\* What an operator is told is retryable: failed, and the retry decision permits it.
RetryPermitted(run) ==
    {n \in Nodes : run.node[n].state = "failed" /\ DecideRetry(n, run.node[n]) = "retry"}

\* The run as start() first stores it: opened, its entry nodes ready.
Started ==
    [state       |-> "running",
     node        |-> [n \in Nodes |->
                        [state    |-> IF DependsOn[n] = {} THEN "ready" ELSE "waiting",
                         lease    |-> NoLease,
                         attempts |-> <<>>]],
     checkpoints |-> <<>>]

=============================================================================
