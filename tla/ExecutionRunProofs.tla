-------------------------- MODULE ExecutionRunProofs --------------------------
(***************************************************************************)
(* Proofs about ExecutionRun: for every workflow, every set of workers and *)
(* every length of a lease.  Each step is first reduced to one of a few    *)
(* kinds of change of a run (StepMoves); the invariants are then shown     *)
(* once for each kind, with the lemmas of ExecutionAggregateProofs.        *)
(***************************************************************************)
EXTENDS ExecutionRun, ExecutionAggregateProofs

-----------------------------------------------------------------------------
(* Type correctness of every step.                                         *)

LEMMA TypeStep ==
    ASSUME TypeOK, [Next]_vars
    PROVE  TypeOK'
<1> USE DEF TypeOK
<1>1. run \in Run /\ now \in Nat /\ 0..now \subseteq Nat
  OBVIOUS
<1>2. CASE Tick
  BY <1>2 DEF Tick
<1>3. CASE Pause \/ Resume \/ Complete
  BY <1>3, MovedToType DEF Pause, Resume, Complete, ExecutionState
<1>4. CASE Checkpoint
  BY <1>4, CheckpointedType DEF Checkpoint
<1>5. ASSUME NEW to \in TerminalStates, Abort(to)
      PROVE  TypeOK'
  BY <1>5, MovedToType DEF Abort, ExecutionState, TerminalStates
<1>6. ASSUME NEW n \in Nodes, Retry(n) \/ Skip(n) \/ Compensate(n)
      PROVE  TypeOK'
  BY <1>6, RestatedType DEF Retry, Skip, Compensate
<1>7. ASSUME NEW n \in Nodes, NEW t \in 0..now, Reclaim(n, t)
      PROVE  TypeOK'
  BY <1>7, ReclaimedType DEF Reclaim
<1>8. ASSUME NEW n \in Nodes, NEW t \in 0..now, NEW w \in Workers, Assign(n, w, t)
      PROVE  TypeOK'
  BY <1>1, <1>8, AssignedType DEF Assign
<1>9. ASSUME NEW n \in Nodes, NEW t \in 0..now, NEW w \in Workers,
             \/ RecordSuccess(n, w, t)
             \/ \E class \in Classes : RecordFailure(n, w, class, t)
      PROVE  TypeOK'
  BY <1>9, RecordedType, RunAssumption DEF RecordSuccess, RecordFailure, CanRecord, HoldsLease
<1>10. CASE UNCHANGED vars
  BY <1>10 DEF vars
<1> QED
  BY <1>2, <1>3, <1>4, <1>5, <1>6, <1>7, <1>8, <1>9, <1>10 DEF Next

LEMMA InitType ==
    ASSUME Init
    PROVE  TypeOK
<1>1. <<>> \in Seq(Attempt) /\ <<>> \in Seq(SUBSET Nodes)
  BY EmptySeq
<1> QED
  BY <1>1 DEF Init, TypeOK, Started, Run, NodeRun, ExecutionState, NodeState

(* Every reachable run is well formed and the clock is a time.             *)
THEOREM TypeCorrect == Spec => []TypeOK
<1>1. Init => TypeOK
  BY InitType
<1>2. TypeOK /\ [Next]_vars => TypeOK'
  BY TypeStep
<1> QED
  BY <1>1, <1>2, PTL DEF Spec

-----------------------------------------------------------------------------
(* Every step leaves the run as it is, or changes a run that is not        *)
(* terminal in one of three ways.                                          *)

RunMoved(to) ==
    /\ run' = MovedTo(run, to)
    /\ to = "completed" => CanComplete(run)

NodeRunMoved(n, nr) ==
    /\ NodeMoved(n, run.node[n], nr)
    /\ nr.state = "ready" => DecideRetry(n, run.node[n]) = "retry"
    /\ run' \in {WithRun(run, n, nr), SealedIfDone(WithRun(run, n, nr))}

LEMMA StepMoves ==
    ASSUME TypeOK, [Next]_vars
    PROVE  \/ run' = run
           \/ /\ ~IsTerminal(run)
              /\ \/ \E to \in ExecutionState : RunMoved(to)
                 \/ run' = Checkpointed(run)
                 \/ \E n \in Nodes : \E nr : NodeRunMoved(n, nr)
<1> DEFINE Moved == \E n \in Nodes : \E nr : NodeRunMoved(n, nr)
<1>1. run \in Run /\ now \in Nat /\ 0..now \subseteq Nat
  BY DEF TypeOK
<1>2. CASE Tick \/ UNCHANGED vars
  BY <1>2 DEF Tick, vars
<1>3. CASE Pause \/ Resume \/ Complete
  BY <1>3 DEF Pause, Resume, Complete, CanMoveTo, CanResume, CanComplete, RunMoved, ExecutionState
<1>4. CASE Checkpoint
  BY <1>4 DEF Checkpoint, CanCheckpoint
<1>5. ASSUME NEW to \in TerminalStates, Abort(to)
      PROVE  ~IsTerminal(run) /\ \E s \in ExecutionState : RunMoved(s)
  BY <1>5 DEF Abort, CanMoveTo, RunMoved, ExecutionState
<1>6. ASSUME NEW n \in Nodes, Retry(n) \/ Skip(n) \/ Compensate(n)
      PROVE  ~IsTerminal(run) /\ Moved
  <2>1. PICK s \in {"ready", "skipped", "compensated"} :
          /\ ~IsTerminal(run) /\ CanMove(run.node[n], s)
          /\ s = "ready" => CanReady(n, run.node[n]) /\ DecideRetry(n, run.node[n]) = "retry"
          /\ run' = WithRun(run, n, [run.node[n] EXCEPT !.state = s])
    BY <1>6 DEF Retry, Skip, Compensate, CanRetry, CanSkip, CanCompensate, CanReady,
                Retried, Skipped, Compensated
  <2> DEFINE nr == [run.node[n] EXCEPT !.state = s]
  <2>2. run.node[n] \in NodeRun
    BY <1>1 DEF Run
  <2>3. nr.state = s
    BY <2>2 DEF NodeRun
  <2>4. NodeMoved(n, run.node[n], nr)
    BY <2>1 DEF NodeMoved, Restated
  <2>5. NodeRunMoved(n, nr)
    BY <2>1, <2>3, <2>4 DEF NodeRunMoved
  <2> QED
    BY <2>1, <2>5
<1>7. ASSUME NEW n \in Nodes, NEW t \in 0..now, Reclaim(n, t)
      PROVE  ~IsTerminal(run) /\ Moved
  <2>1. NodeMoved(n, run.node[n], Abandoned(run.node[n]))
    BY <1>7 DEF Reclaim, CanReclaim, CanAbandon, NodeMoved
  <2>2. Abandoned(run.node[n]).state = "unknown"
    BY DEF Abandoned
  <2>3. NodeRunMoved(n, Abandoned(run.node[n]))
    BY <1>7, <2>1, <2>2 DEF Reclaim, Reclaimed, NodeRunMoved
  <2> QED
    BY <1>7, <2>3 DEF Reclaim, CanReclaim
<1>8. ASSUME NEW n \in Nodes, NEW t \in 0..now, NEW w \in Workers, Assign(n, w, t)
      PROVE  ~IsTerminal(run) /\ Moved
  <2>1. NodeMoved(n, run.node[n], LeasedTo(run.node[n], w, t))
    BY <1>1, <1>8 DEF Assign, CanAssign, NodeMoved
  <2>2. LeasedTo(run.node[n], w, t).state = "leased"
    BY DEF LeasedTo
  <2>3. NodeRunMoved(n, LeasedTo(run.node[n], w, t))
    BY <1>8, <2>1, <2>2 DEF Assign, Assigned, NodeRunMoved
  <2>4. ~IsTerminal(run)
    BY <1>8 DEF Assign, CanAssign, IsTerminal, TerminalStates
  <2> QED
    BY <2>3, <2>4
<1>9. ASSUME NEW n \in Nodes, NEW t \in 0..now, NEW w \in Workers,
             \/ RecordSuccess(n, w, t)
             \/ \E class \in Classes : RecordFailure(n, w, class, t)
      PROVE  ~IsTerminal(run) /\ Moved
  <2>1. /\ ~IsTerminal(run) /\ run.node[n].state = "leased" /\ run.node[n].lease # NoLease
    BY <1>9 DEF RecordSuccess, RecordFailure, CanRecord, HoldsLease
  <2>2. PICK outcome \in {"succeeded", "failed"}, failure \in FailureClass \cup {NoFailure} :
          LET nr == Concluded(run.node[n], outcome, failure)
          IN  /\ Answered(run.node[n], nr)
              /\ run' \in {WithRun(run, n, nr), SealedIfDone(WithRun(run, n, nr))}
    BY <1>9, <2>1, RunAssumption
       DEF RecordSuccess, RecordFailure, SuccessRecorded, FailureRecorded, Answered
  <2> DEFINE nr == Concluded(run.node[n], outcome, failure)
  <2>3. nr.state = outcome
    BY DEF Concluded
  <2>4. NodeRunMoved(n, nr)
    BY <2>2, <2>3 DEF NodeRunMoved, NodeMoved
  <2> QED
    BY <2>1, <2>4
<1> QED
  BY <1>2, <1>3, <1>4, <1>5, <1>6, <1>7, <1>8, <1>9 DEF Next

-----------------------------------------------------------------------------
(* The inductive invariant of the stored run.                              *)

RunInv ==
    /\ TypeOK
    /\ RunCoherent(run)
    /\ Settled(run)
    /\ \A n \in Nodes : NodeUnrepeated(n, run.node[n])

LEMMA RunInvInit ==
    ASSUME Init
    PROVE  RunInv
<1>1. /\ run.state = "running" /\ run.checkpoints = <<>> /\ Len(<<>>) = 0
      /\ \A n \in Nodes :
            /\ run.node[n].state = IF DependsOn[n] = {} THEN "ready" ELSE "waiting"
            /\ run.node[n].lease = NoLease /\ run.node[n].attempts = <<>>
  BY EmptySeq DEF Init, Started
<1>2. \A n \in Nodes : NodeCoherent(run.node[n]) /\ NodeUnrepeated(n, run.node[n])
  BY <1>1 DEF NodeCoherent, NodeUnrepeated
<1>3. NoneForgotten(run)
  <2>1. Satisfied(run.node) = {}
    BY <1>1 DEF Satisfied, SatisfyingStates
  <2>2. \A n \in Nodes : DependsOn[n] \subseteq {} => DependsOn[n] = {}
    OBVIOUS
  <2> QED
    BY <1>1, <2>1, <2>2 DEF NoneForgotten
<1>4. NoneAhead(run) /\ Settled(run)
  BY <1>1 DEF NoneAhead, Settled
<1> QED
  BY <1>2, <1>3, <1>4, InitType DEF RunInv, RunCoherent

(* Each kind of change keeps the invariant and the attempts that ended.    *)
LEMMA RunInvStep ==
    ASSUME RunInv, [Next]_vars
    PROVE  /\ RunInv'
           /\ \A n \in Nodes : HistoryKept(run.node[n].attempts, run'.node[n].attempts)
<1>1. TypeOK /\ run \in Run /\ TypeOK' /\ RunCoherent(run)
  BY TypeStep DEF RunInv, TypeOK
<1>2. \A n \in Nodes : run.node[n] \in NodeRun /\ Len(run.node[n].attempts) \in Nat
  BY <1>1, LenProperties DEF Run, NodeRun
<1>3. ASSUME run'.node = run.node
      PROVE  /\ \A n \in Nodes : NodeUnrepeated(n, run'.node[n])
             /\ \A n \in Nodes : HistoryKept(run.node[n].attempts, run'.node[n].attempts)
  BY <1>2, <1>3 DEF RunInv, HistoryKept
<1>4. CASE run' = run
  BY <1>1, <1>3, <1>4 DEF RunInv
<1>5. ASSUME NEW to \in ExecutionState, ~IsTerminal(run), RunMoved(to)
      PROVE  /\ RunInv'
             /\ \A n \in Nodes : HistoryKept(run.node[n].attempts, run'.node[n].attempts)
  <2>1. /\ RunCoherent(run') /\ run'.node = run.node /\ run'.state = to
        /\ OutstandingNodes(run') = OutstandingNodes(run)
    BY <1>1, <1>5, MovedToCoherent DEF RunMoved
  <2>2. Settled(run')
    BY <1>5, <2>1 DEF Settled, RunMoved, CanComplete
  <2> QED
    BY <1>1, <1>3, <2>1, <2>2 DEF RunInv
<1>6. ASSUME ~IsTerminal(run), run' = Checkpointed(run)
      PROVE  /\ RunInv'
             /\ \A n \in Nodes : HistoryKept(run.node[n].attempts, run'.node[n].attempts)
  <2>1. RunCoherent(run') /\ run'.node = run.node /\ run'.state = run.state
    BY <1>1, <1>6, CheckpointedCoherent
  <2>2. Settled(run')
    BY <1>6, <2>1 DEF Settled, IsTerminal, TerminalStates
  <2> QED
    BY <1>1, <1>3, <2>1, <2>2 DEF RunInv
<1>7. ASSUME NEW n \in Nodes, NEW nr, ~IsTerminal(run), NodeRunMoved(n, nr)
      PROVE  /\ RunInv'
             /\ \A m \in Nodes : HistoryKept(run.node[m].attempts, run'.node[m].attempts)
  <2> DEFINE old == run.node[n]
             q == WithRun(run, n, nr)
  <2>1. old \in NodeRun /\ NodeCoherent(old) /\ NodeUnrepeated(n, old)
    BY <1>1, <1>2 DEF RunInv, RunCoherent
  <2>2. /\ nr \in NodeRun /\ NodeCoherent(nr) /\ HistoryKept(old.attempts, nr.attempts)
        /\ old.state \in FinishedStates => nr.state \in FinishedStates
    BY <1>7, <2>1, NodeMovedCoherent DEF NodeRunMoved
  <2>3. NodeUnrepeated(n, nr)
    BY <1>7, <2>1, NodeMovedUnrepeated DEF NodeRunMoved
  <2>4. /\ q \in Run /\ q.state = run.state
        /\ \A m \in Nodes : Kept(IF m = n THEN nr ELSE run.node[m], q.node[m])
    BY <1>1, <2>2, WithRunKeeps
  <2>5. RunCoherent(q)
    BY <1>1, <2>2, WithRunCoherent
  <2>6. Settled(q)
    BY <1>7, <2>4 DEF Settled, IsTerminal, TerminalStates
  <2>7. RunCoherent(run') /\ Settled(run') /\ run'.node = q.node
    BY <1>7, <2>4, <2>5, <2>6, SealedCoherent DEF NodeRunMoved
  <2>8. ASSUME NEW m \in Nodes
        PROVE  /\ NodeUnrepeated(m, run'.node[m])
               /\ HistoryKept(run.node[m].attempts, run'.node[m].attempts)
    <3>1. run'.node[m] \in NodeRun
      BY <2>4, <2>7 DEF Run
    <3>2. CASE m = n
      BY <2>1, <2>2, <2>3, <2>4, <2>7, <3>1, <3>2, KeptCoherent DEF Kept
    <3>3. CASE m # n
      BY <1>2, <2>4, <2>7, <3>1, <3>3, KeptCoherent DEF RunInv, RunCoherent
    <3> QED
      BY <3>2, <3>3
  <2> QED
    BY <1>1, <2>7, <2>8 DEF RunInv
<1> QED
  BY <1>1, <1>4, <1>5, <1>6, <1>7, StepMoves

LEMMA RunInvariant == Spec => []RunInv
<1>1. Init => RunInv
  BY RunInvInit
<1>2. RunInv /\ [Next]_vars => RunInv'
  BY RunInvStep
<1> QED
  BY <1>1, <1>2, PTL DEF Spec

-----------------------------------------------------------------------------
(* What the invariant says.                                                *)

(* Every reader of the aggregate may take state, lease and attempts for    *)
(* one another.                                                            *)
THEOREM LeaseAlwaysMatchesAttempt == Spec => []LeaseMatchesAttempt
<1>1. RunInv => LeaseMatchesAttempt
  BY DEF RunInv, RunCoherent, NodeCoherent, LeaseMatchesAttempt
<1> QED
  BY <1>1, RunInvariant, PTL

(* No node waits behind dependencies that have all landed.                 *)
THEOREM NobodyForgotten == Spec => []NoNodeForgotten
<1>1. RunInv => NoNodeForgotten
  BY DEF RunInv, RunCoherent, NoneForgotten, NoNodeForgotten
<1> QED
  BY <1>1, RunInvariant, PTL

(* Resuming from any recorded checkpoint is never disputed.                *)
THEOREM CheckpointsTrustworthy == Spec => []CheckpointsNeverAhead
<1>1. RunInv => CheckpointsNeverAhead
  BY DEF RunInv, RunCoherent, NoneAhead, CheckpointsNeverAhead
<1> QED
  BY <1>1, RunInvariant, PTL

(* An unkeyed mutation is never tried again over an unknown outcome.       *)
THEOREM AmbiguityNeverRepeated == Spec => []AmbiguousMutationNeverRepeated
<1>1. RunInv => AmbiguousMutationNeverRepeated
  BY AggregateAssumption DEF RunInv, NodeUnrepeated, AmbiguousMutationNeverRepeated
<1> QED
  BY <1>1, RunInvariant, PTL

(* A run reported completed left nothing undone and holds no lease.        *)
THEOREM CompletedSettled == Spec => []CompletedIsSettled
<1>1. ASSUME RunInv, run.state = "completed"
      PROVE  /\ OutstandingNodes(run) = {}
             /\ \A n \in Nodes : run.node[n].lease = NoLease \/ run.node[n].lease.released
  <2>1. OutstandingNodes(run) = {}
    BY <1>1 DEF RunInv, Settled
  <2>2. \A n \in Nodes : run.node[n].state # "leased"
    BY <2>1 DEF OutstandingNodes, FinishedNodes, FinishedStates
  <2> QED
    BY <1>1, <2>1, <2>2 DEF RunInv, RunCoherent, NodeCoherent
<1>2. RunInv => CompletedIsSettled
  BY <1>1 DEF CompletedIsSettled
<1> QED
  BY <1>2, RunInvariant, PTL

-----------------------------------------------------------------------------
(* What recovery is told rests on the record.                              *)

\* The plan of a run nobody doubts asks for nothing in doubt, and reports a
\* failure only over mutations that are not standing.
LEMMA PlanOfUndoubted ==
    ASSUME NEW retryable
    PROVE  LET plan == PlanRecovery(run, retryable)
           IN  /\ InDoubt(run) # {} => plan.action = "reconcile_external_state"
               /\ plan.action = "retry_attempt" =>
                    plan.nodes = retryable /\ ~IsTerminal(run)
               /\ plan.action = "compensate" =>
                    /\ plan.nodes = MutatedNodes(run) /\ ~IsTerminal(run)
                    /\ AmbiguousNodes(run) = {}
               /\ plan.action = "fail_execution" => MutatedNodes(run) = {}
BY DEF PlanRecovery, InDoubt

(* Recovery acts on nothing in doubt, whoever asks for the plan.           *)
THEOREM RecoveryNeverInDoubt == Spec => []RecoveryLeavesNoDoubt
<1>1. ASSUME RunInv, NEW retryable, NEW n \in Mutating \ Keyed,
             NEW i \in DOMAIN run.node[n].attempts
      PROVE  LET action == PlanRecovery(run, retryable).action
                 attempts == run.node[n].attempts
             IN  /\ attempts[i].failure \in AmbiguousClasses =>
                     action \in {"reconcile_external_state", "wait_for_human"}
                 /\ attempts[i].outcome = "succeeded" /\ action = "fail_execution" =>
                     run.node[n].state = "compensated"
  <2> DEFINE attempts == run.node[n].attempts
  <2>1. n \in Nodes /\ run.node[n] \in NodeRun
    BY <1>1, AggregateAssumption DEF RunInv, TypeOK, Run
  <2>2. DOMAIN attempts = 1..Len(attempts) /\ Len(attempts) \in Nat
    BY <2>1, LenProperties DEF NodeRun
  <2>3. ASSUME attempts[i].failure \in AmbiguousClasses
        PROVE  InDoubt(run) # {}
    <3>1. i = Len(attempts) /\ i > 0
      BY <1>1, <2>1, <2>2, <2>3 DEF RunInv, NodeUnrepeated
    <3>2. attempts # <<>>
      BY <2>2, <3>1, EmptySeq
    <3>3. LastFailure(run.node[n]) \in AmbiguousClasses
      BY <2>3, <3>1, <3>2 DEF LastFailure
    <3> QED
      BY <2>1, <3>3 DEF InDoubt
  <2>4. ASSUME attempts[i].outcome = "succeeded", MutatedNodes(run) = {}
        PROVE  run.node[n].state = "compensated"
    <3>1. run.node[n].state \in {"succeeded", "compensated"}
      BY <1>1, <2>1, <2>2, <2>4 DEF RunInv, RunCoherent, NodeCoherent
    <3> QED
      BY <2>4, <3>1 DEF MutatedNodes
  <2> QED
    BY <2>3, <2>4, PlanOfUndoubted
<1>2. RunInv => RecoveryLeavesNoDoubt
  BY <1>1 DEF RecoveryLeavesNoDoubt
<1> QED
  BY <1>2, RunInvariant, PTL

(* What recovery tells an operator to do, the record and the retry         *)
(* decision permit.                                                        *)
THEOREM RecoveryAlwaysDoable == Spec => []RecoveryCanBeDone
<1>1. ASSUME TypeOK
      PROVE  RecoveryCanBeDone
  <2> DEFINE plan == PlanRecovery(run, RetryPermitted(run))
  <2>1. ASSUME NEW n \in Nodes, run.node[n].state = "failed",
               DecideRetry(n, run.node[n]) = "retry", ~IsTerminal(run)
        PROVE  CanRetry(run, n)
    <3>1. ~(Len(run.node[n].attempts) >= MaxAttempts[n])
      BY <2>1 DEF DecideRetry
    <3>2. Len(run.node[n].attempts) \in Nat /\ MaxAttempts[n] \in Nat
      BY <1>1, LenProperties, AggregateAssumption DEF TypeOK, Run, NodeRun
    <3>3. AttemptsRemaining(n, run.node[n]) >= 1
      BY <3>1, <3>2 DEF AttemptsRemaining
    <3>4. CanMove(run.node[n], "ready")
      BY <2>1 DEF CanMove, NodeTransitions, NodeState
    <3> QED
      BY <2>1, <3>3, <3>4 DEF CanRetry, CanReady, RetryableAfter
  <2>2. ASSUME NEW n \in MutatedNodes(run), AmbiguousNodes(run) = {}, ~IsTerminal(run)
        PROVE  CanCompensate(run, n)
    <3>1. n \in Nodes /\ run.node[n].state \in {"succeeded", "unknown"}
      BY <2>2, AggregateAssumption DEF MutatedNodes
    <3>2. run.node[n].state = "succeeded"
      BY <2>2, <3>1 DEF AmbiguousNodes
    <3> QED
      BY <2>2, <3>2 DEF CanCompensate, CanMove, NodeTransitions, NodeState
  <2>3. ASSUME NEW n \in plan.nodes, plan.action = "retry_attempt"
        PROVE  DecideRetry(n, run.node[n]) = "retry" /\ CanRetry(run, n)
    <3>1. n \in RetryPermitted(run) /\ ~IsTerminal(run)
      BY <2>3, PlanOfUndoubted
    <3> QED
      BY <2>1, <3>1 DEF RetryPermitted
  <2>4. ASSUME NEW n \in plan.nodes, plan.action = "compensate"
        PROVE  CanCompensate(run, n)
    BY <2>2, <2>4, PlanOfUndoubted
  <2> QED
    BY <2>3, <2>4 DEF RecoveryCanBeDone
<1> QED
  BY <1>1, TypeCorrect, PTL

-----------------------------------------------------------------------------
(* What no step may do.                                                    *)

(* No command changes a run that reported its outcome.                     *)
THEOREM TerminalNeverChanges == Spec => TerminalIsFinal
<1>1. TypeOK /\ [Next]_vars => [IsTerminal(run) => run' = run]_vars
  BY StepMoves
<1> QED
  BY <1>1, TypeCorrect, PTL DEF Spec, TerminalIsFinal

(* No command drops an attempt or rewrites one that has ended.             *)
THEOREM AttemptsNeverRewritten == Spec => AttemptHistoryKept
<1> DEFINE Grows ==
      \A n \in Nodes :
          LET old == run.node[n].attempts
              new == run'.node[n].attempts
          IN  /\ Len(new) >= Len(old)
              /\ \A i \in 1..Len(old) : ~IsOpen(old[i]) => new[i] = old[i]
<1>1. RunInv /\ [Next]_vars => [Grows]_vars
  BY RunInvStep DEF HistoryKept
<1> QED
  BY <1>1, RunInvariant, PTL DEF Spec, AttemptHistoryKept

=============================================================================
