----------------------------- MODULE ExecutionRun -----------------------------
(***************************************************************************)
(* What the execution service promises: every command takes the stored     *)
(* run, decides on it and writes it back as one step, so that commands     *)
(* happen one after the other.  The commands are the handlers of           *)
(* backend/contexts/execution/application/service.py.                      *)
(*                                                                         *)
(* A handler reads the clock before it writes, so the moment t it decides  *)
(* with may lie behind the clock at the write: t ranges over 0..now.       *)
(* ExecutionStore models the same handlers against the database, where     *)
(* loading and writing are steps of their own.                             *)
(***************************************************************************)
EXTENDS ExecutionAggregate

CONSTANTS
    Classes,         \* the failure classes workers report
    MaxTime,         \* bound on the clock
    MaxCheckpoints   \* bound on the checkpoints of a run

ASSUME RunAssumption ==
    /\ Classes \subseteq FailureClass
    /\ MaxTime \in Nat
    /\ MaxCheckpoints \in Nat

VARIABLES
    run,   \* the stored run
    now    \* the clock

vars == <<run, now>>

Init ==
    /\ run = Started
    /\ now = 0

-----------------------------------------------------------------------------
(* Lifecycle.  _gated refuses a terminal run and an illegal transition.    *)

Pause ==
    /\ CanMoveTo(run, "paused")
    /\ run' = MovedTo(run, "paused")
    /\ UNCHANGED now

Resume ==
    /\ \E c \in 0..Len(run.checkpoints) : CanResume(run, c)
    /\ run' = MovedTo(run, "running")
    /\ UNCHANGED now

Complete ==
    /\ CanComplete(run)
    /\ run' = MovedTo(run, "completed")
    /\ UNCHANGED now

\* fail, cancel and time_out.
Abort(to) ==
    /\ to \in {"failed", "cancelled", "timed_out"}
    /\ CanMoveTo(run, to)
    /\ run' = MovedTo(run, to)
    /\ UNCHANGED now

-----------------------------------------------------------------------------
(* Dispatch and results.                                                   *)

Assign(n, w, t) ==
    /\ CanAssign(run, n)
    /\ run' = Assigned(run, n, w, t)
    /\ UNCHANGED now

RecordSuccess(n, w, t) ==
    /\ CanRecord(run, n, w, t)
    /\ run' = SuccessRecorded(run, n)
    /\ UNCHANGED now

RecordFailure(n, w, class, t) ==
    /\ CanRecord(run, n, w, t)
    /\ run' = FailureRecorded(run, n, class)
    /\ UNCHANGED now

Reclaim(n, t) ==
    /\ CanReclaim(run, n, t)
    /\ run' = Reclaimed(run, n)
    /\ UNCHANGED now

\* No silent retry: the decision must permit it before the aggregate is asked.
Retry(n) ==
    /\ DecideRetry(n, run.node[n]) = "retry"
    /\ CanRetry(run, n)
    /\ run' = Retried(run, n)
    /\ UNCHANGED now

Skip(n) ==
    /\ CanSkip(run, n)
    /\ run' = Skipped(run, n)
    /\ UNCHANGED now

Compensate(n) ==
    /\ CanCompensate(run, n)
    /\ run' = Compensated(run, n)
    /\ UNCHANGED now

Checkpoint ==
    /\ CanCheckpoint(run)
    /\ Len(run.checkpoints) < MaxCheckpoints
    /\ run' = Checkpointed(run)
    /\ UNCHANGED now

Tick ==
    /\ now < MaxTime
    /\ now' = now + 1
    /\ UNCHANGED run

-----------------------------------------------------------------------------

Next ==
    \/ Tick
    \/ Pause \/ Resume \/ Complete \/ Checkpoint
    \/ \E to \in TerminalStates : Abort(to)
    \/ \E n \in Nodes :
        \/ Retry(n) \/ Skip(n) \/ Compensate(n)
        \/ \E t \in 0..now :
            \/ Reclaim(n, t)
            \/ \E w \in Workers :
                \/ Assign(n, w, t)
                \/ RecordSuccess(n, w, t)
                \/ \E class \in Classes : RecordFailure(n, w, class, t)

Spec == Init /\ [][Next]_vars

-----------------------------------------------------------------------------
(* Type invariant.  The stored run is a run, and the clock a time.         *)
TypeOK ==
    /\ run \in Run
    /\ now \in Nat

(* The state of a node, its lease and its attempts tell one story: exactly *)
(* the nodes in flight have an open attempt, it is the last one, and it    *)
(* belongs to the worker the unreleased lease names.  Every reader of the  *)
(* aggregate (reclaim, the gateway's lease check, late-answer              *)
(* classification) takes one of the three for the others.                  *)
LeaseMatchesAttempt ==
    \A n \in Nodes :
        LET nr == run.node[n]
            last == Len(nr.attempts)
        IN  /\ \A i \in 1..last : IsOpen(nr.attempts[i]) => nr.state = "leased" /\ i = last
            /\ nr.state = "leased" =>
                /\ last > 0 /\ IsOpen(nr.attempts[last])
                /\ nr.lease # NoLease /\ HeldBy(nr.lease, nr.attempts[last].worker)
            /\ nr.lease # NoLease /\ nr.state # "leased" => nr.lease.released

(* A mutation that carries no idempotency key is never tried again after   *)
(* an attempt whose outcome nobody knows, whether the lease lapsed or a    *)
(* worker reported an ambiguous failure: such an attempt stays the last.   *)
(* decide_retry and assert_retryable_after uphold it together; neither     *)
(* does alone.                                                             *)
AmbiguousMutationNeverRepeated ==
    \A n \in Mutating \ Keyed :
        LET attempts == run.node[n].attempts
        IN  \A i \in 1..Len(attempts) :
                attempts[i].failure \in AmbiguousClasses => i = Len(attempts)

(* A run reported completed is settled: every node finished, nothing in    *)
(* flight and no unreleased lease behind it.                               *)
CompletedIsSettled ==
    run.state = "completed" =>
        /\ OutstandingNodes(run) = {}
        /\ \A n \in Nodes : run.node[n].lease = NoLease \/ run.node[n].lease.released

(* No node is forgotten: whichever dependency lands last, and however it   *)
(* lands (a success, a skip), the nodes it was holding back become ready   *)
(* in the same write.                                                      *)
NoNodeForgotten ==
    \A n \in Nodes :
        run.node[n].state = "waiting" => ~(DependsOn[n] \subseteq Satisfied(run.node))

(* A checkpoint is never ahead of the record, so that resuming from any    *)
(* recorded checkpoint is never disputed: a node that counted as finished  *)
(* when it was taken still does, compensated ones included.                *)
CheckpointsNeverAhead ==
    \A c \in 1..Len(run.checkpoints) : run.checkpoints[c] \subseteq FinishedNodes(run)

(* Recovery acts on nothing that is in doubt.  Unless it sends somebody to *)
(* look, or leaves the run alone, no attempt ever made at a mutation that  *)
(* carries no key ended without a known outcome, however its node has been *)
(* recorded since; and it reports that nothing was left behind only when   *)
(* every such mutation that succeeded was walked back.  So it is for both  *)
(* callers: the scan of a starting process, and the operator's query.      *)
RecoveryLeavesNoDoubt ==
    \A retryable \in {AttemptsLeft(run), RetryPermitted(run)}, n \in Mutating \ Keyed :
        LET action == PlanRecovery(run, retryable).action
            attempts == run.node[n].attempts
        IN  \A i \in DOMAIN attempts :
                /\ attempts[i].failure \in AmbiguousClasses =>
                    action \in {"reconcile_external_state", "wait_for_human"}
                /\ attempts[i].outcome = "succeeded" /\ action = "fail_execution" =>
                    run.node[n].state = "compensated"

(* What recovery tells an operator to do can be done: the retry it names   *)
(* is one the retry decision and the record both permit, and every node it *)
(* names for walking back may be compensated.                              *)
RecoveryCanBeDone ==
    LET plan == PlanRecovery(run, RetryPermitted(run))
    IN  \A n \in plan.nodes :
            /\ plan.action = "retry_attempt" =>
                DecideRetry(n, run.node[n]) = "retry" /\ CanRetry(run, n)
            /\ plan.action = "compensate" => CanCompensate(run, n)

(* A run that reported its outcome is never changed again, by any command. *)
TerminalIsFinal == [][IsTerminal(run) => run' = run]_vars

(* The record of attempts only grows: no command drops an attempt or       *)
(* rewrites one that has ended ("how many times did we touch production"). *)
AttemptHistoryKept ==
    [][\A n \in Nodes :
          LET old == run.node[n].attempts
              new == run'.node[n].attempts
          IN  /\ Len(new) >= Len(old)
              /\ \A i \in 1..Len(old) : ~IsOpen(old[i]) => new[i] = old[i]]_vars

=============================================================================
