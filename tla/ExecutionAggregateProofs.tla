------------------------ MODULE ExecutionAggregateProofs ------------------------
(***************************************************************************)
(* Facts about the commands of the execution aggregate: what each returns, *)
(* and what it keeps of the node it moves and of the others.  They are     *)
(* stated of any run, so that the proofs about the stored run, about the   *)
(* copies processes hold and about dispatchers rest on the same lemmas.    *)
(***************************************************************************)
EXTENDS ExecutionAggregate, SequenceTheorems, TLAPS

-----------------------------------------------------------------------------
(* The moves of one node return the runtime state of a node.               *)

(* Closing the current attempt keeps the attempts a sequence of the same   *)
(* length (CloseCurrent, the loop of NodeRun.concluded and abandoned).     *)
LEMMA CloseCurrentType ==
    ASSUME NEW attempts \in Seq(Attempt), NEW outcome \in NodeState,
           NEW failure \in FailureClass \cup {NoFailure}
    PROVE  /\ CloseCurrent(attempts, outcome, failure) \in Seq(Attempt)
           /\ Len(CloseCurrent(attempts, outcome, failure)) = Len(attempts)
<1> DEFINE closed == CloseCurrent(attempts, outcome, failure)
<1>1. \A i \in 1..Len(attempts) : attempts[i] \in Attempt
  BY ElementOfSeq
<1>2. \A i \in 1..Len(attempts) :
        [attempts[i] EXCEPT !.outcome = outcome, !.failure = failure] \in Attempt
  BY <1>1 DEF Attempt
<1>3. closed \in [1..Len(attempts) -> Attempt]
  BY <1>1, <1>2 DEF CloseCurrent
<1>4. Len(attempts) \in Nat
  BY LenProperties
<1> QED
  BY <1>3, <1>4, IsASeq, LenProperties

LEMMA LeasedToType ==
    ASSUME NEW nr \in NodeRun, NEW w \in Workers, NEW t \in Nat
    PROVE  LeasedTo(nr, w, t) \in NodeRun
<1>1. [holder |-> w, expires |-> t + LeaseSeconds, released |-> FALSE] \in Lease
  BY AggregateAssumption DEF Lease
<1>2. [worker |-> w, outcome |-> "leased", failure |-> NoFailure] \in Attempt
  BY DEF Attempt, NodeState, NoFailure
<1>3. nr.attempts \in Seq(Attempt)
  BY DEF NodeRun
<1>4. Append(nr.attempts, [worker |-> w, outcome |-> "leased", failure |-> NoFailure])
        \in Seq(Attempt)
  BY <1>2, <1>3, AppendProperties
<1> QED
  BY <1>1, <1>4 DEF LeasedTo, NodeRun, NodeState

LEMMA ConcludedType ==
    ASSUME NEW nr \in NodeRun, nr.lease # NoLease,
           NEW outcome \in NodeState, NEW failure \in FailureClass \cup {NoFailure}
    PROVE  Concluded(nr, outcome, failure) \in NodeRun
<1>1. nr.attempts \in Seq(Attempt) /\ nr.lease \in Lease
  BY DEF NodeRun
<1>2. [nr.lease EXCEPT !.released = TRUE] \in Lease
  BY <1>1 DEF Lease
<1>3. CloseCurrent(nr.attempts, outcome, failure) \in Seq(Attempt)
  BY <1>1, CloseCurrentType
<1> QED
  BY <1>2, <1>3 DEF Concluded, NodeRun

LEMMA AbandonedType ==
    ASSUME NEW nr \in NodeRun
    PROVE  Abandoned(nr) \in NodeRun
<1>1. nr.attempts \in Seq(Attempt) /\ nr.lease \in Lease \cup {NoLease}
  BY DEF NodeRun
<1>2. nr.lease # NoLease => [nr.lease EXCEPT !.released = TRUE] \in Lease
  BY <1>1 DEF Lease
<1>3. CloseCurrent(nr.attempts, "unknown", "unknown_outcome") \in Seq(Attempt)
  BY <1>1, CloseCurrentType DEF NodeState, FailureClass, AmbiguousClasses
<1> QED
  BY <1>2, <1>3 DEF Abandoned, NodeRun, NodeState

-----------------------------------------------------------------------------
(* The moves of the run return a run.                                      *)

LEMMA PromoteReadyType ==
    ASSUME NEW node \in [Nodes -> NodeRun]
    PROVE  PromoteReady(node) \in [Nodes -> NodeRun]
<1>1. \A n \in Nodes : [node[n] EXCEPT !.state = "ready"] \in NodeRun
  BY DEF NodeRun, NodeState
<1> QED
  BY <1>1 DEF PromoteReady

LEMMA WithRunType ==
    ASSUME NEW r \in Run, NEW n \in Nodes, NEW nr \in NodeRun
    PROVE  WithRun(r, n, nr) \in Run
<1>1. [r.node EXCEPT ![n] = nr] \in [Nodes -> NodeRun]
  BY DEF Run
<1>2. PromoteReady([r.node EXCEPT ![n] = nr]) \in [Nodes -> NodeRun]
  BY <1>1, PromoteReadyType
<1> QED
  BY <1>2 DEF WithRun, Run

LEMMA MovedToType ==
    ASSUME NEW r \in Run, NEW to \in ExecutionState
    PROVE  MovedTo(r, to) \in Run
BY DEF MovedTo, Run

LEMMA SealedIfDoneType ==
    ASSUME NEW r \in Run
    PROVE  SealedIfDone(r) \in Run
BY MovedToType DEF SealedIfDone, ExecutionState

LEMMA AssignedType ==
    ASSUME NEW r \in Run, NEW n \in Nodes, NEW w \in Workers, NEW t \in Nat
    PROVE  Assigned(r, n, w, t) \in Run
BY LeasedToType, WithRunType DEF Assigned, Run

LEMMA RecordedType ==
    ASSUME NEW r \in Run, NEW n \in Nodes, r.node[n].lease # NoLease
    PROVE  /\ SuccessRecorded(r, n) \in Run
           /\ \A class \in FailureClass : FailureRecorded(r, n, class) \in Run
<1>1. r.node[n] \in NodeRun
  BY DEF Run
<1>2. Concluded(r.node[n], "succeeded", NoFailure) \in NodeRun
  BY <1>1, ConcludedType DEF NodeState
<1>3. \A class \in FailureClass : Concluded(r.node[n], "failed", class) \in NodeRun
  BY <1>1, ConcludedType DEF NodeState
<1> QED
  BY <1>2, <1>3, WithRunType, SealedIfDoneType DEF SuccessRecorded, FailureRecorded

LEMMA ReclaimedType ==
    ASSUME NEW r \in Run, NEW n \in Nodes
    PROVE  Reclaimed(r, n) \in Run
BY AbandonedType, WithRunType DEF Reclaimed, Run

\* retry, skip and compensate change the state of one node and nothing else of it.
LEMMA RestatedType ==
    ASSUME NEW r \in Run, NEW n \in Nodes
    PROVE  Retried(r, n) \in Run /\ Skipped(r, n) \in Run /\ Compensated(r, n) \in Run
<1>1. \A s \in NodeState : [r.node[n] EXCEPT !.state = s] \in NodeRun
  BY DEF Run, NodeRun
<1>2. \A s \in NodeState : WithRun(r, n, [r.node[n] EXCEPT !.state = s]) \in Run
  BY <1>1, WithRunType
<1> QED
  BY <1>2 DEF Retried, Skipped, Compensated, NodeState

LEMMA CheckpointedType ==
    ASSUME NEW r \in Run
    PROVE  Checkpointed(r) \in Run
<1>1. FinishedNodes(r) \in SUBSET Nodes
  BY DEF FinishedNodes
<1>2. Append(r.checkpoints, FinishedNodes(r)) \in Seq(SUBSET Nodes)
  BY <1>1, AppendProperties DEF Run
<1> QED
  BY <1>2 DEF Checkpointed, Run

-----------------------------------------------------------------------------
(* What each command does to the record of attempts.                       *)

\* Replacing the run of one node leaves the attempts of the others alone.
LEMMA WithRunAttempts ==
    ASSUME NEW r \in Run, NEW n \in Nodes, NEW nr \in NodeRun, NEW m \in Nodes
    PROVE  WithRun(r, n, nr).node[m].attempts =
                IF m = n THEN nr.attempts ELSE r.node[m].attempts
<1>1. [r.node EXCEPT ![n] = nr] \in [Nodes -> NodeRun]
  BY DEF Run
<1>2. \A node \in [Nodes -> NodeRun] : PromoteReady(node)[m].attempts = node[m].attempts
  BY DEF PromoteReady, NodeRun
<1>3. WithRun(r, n, nr).node = PromoteReady([r.node EXCEPT ![n] = nr])
  BY DEF WithRun, Run
<1> QED
  BY <1>1, <1>2, <1>3 DEF Run

\* Only assign adds to the record, and it adds one attempt at one node.
LEMMA AssignedAttempts ==
    ASSUME NEW r \in Run, NEW n \in Nodes, NEW w \in Workers, NEW t \in Nat, NEW m \in Nodes
    PROVE  /\ Len(Assigned(r, n, w, t).node[n].attempts) = Len(r.node[n].attempts) + 1
           /\ m # n => Assigned(r, n, w, t).node[m].attempts = r.node[m].attempts
<1>1. r.node[n] \in NodeRun /\ r.node[n].attempts \in Seq(Attempt)
  BY DEF Run, NodeRun
<1>2. LeasedTo(r.node[n], w, t) \in NodeRun
  BY <1>1, LeasedToType
<1>3. [worker |-> w, outcome |-> "leased", failure |-> NoFailure] \in Attempt
  BY DEF Attempt, NodeState, NoFailure
<1>4. Len(LeasedTo(r.node[n], w, t).attempts) = Len(r.node[n].attempts) + 1
  BY <1>1, <1>3, AppendProperties DEF LeasedTo
<1>5. Assigned(r, n, w, t).node[n].attempts = LeasedTo(r.node[n], w, t).attempts
  BY <1>2, WithRunAttempts DEF Assigned
<1>6. m # n => Assigned(r, n, w, t).node[m].attempts = r.node[m].attempts
  BY <1>2, WithRunAttempts DEF Assigned
<1> QED
  BY <1>4, <1>5, <1>6

LEMMA RecordedAttempts ==
    ASSUME NEW r \in Run, NEW n \in Nodes, r.node[n].lease # NoLease, NEW m \in Nodes
    PROVE  /\ Len(SuccessRecorded(r, n).node[m].attempts) = Len(r.node[m].attempts)
           /\ \A class \in FailureClass :
                Len(FailureRecorded(r, n, class).node[m].attempts) = Len(r.node[m].attempts)
<1>1. r.node[n] \in NodeRun /\ r.node[n].attempts \in Seq(Attempt)
  BY DEF Run, NodeRun
<1>2. ASSUME NEW s \in NodeState, NEW failure \in FailureClass \cup {NoFailure}
      PROVE  /\ Concluded(r.node[n], s, failure) \in NodeRun
             /\ Len(WithRun(r, n, Concluded(r.node[n], s, failure)).node[m].attempts)
                    = Len(r.node[m].attempts)
  <2>1. Concluded(r.node[n], s, failure) \in NodeRun
    BY <1>1, ConcludedType
  <2>2. Len(Concluded(r.node[n], s, failure).attempts) = Len(r.node[n].attempts)
    BY <1>1, CloseCurrentType DEF Concluded
  <2> QED
    BY <2>1, <2>2, WithRunAttempts
<1>3. \A q \in Run : SealedIfDone(q).node = q.node
  BY DEF SealedIfDone, MovedTo, Run
<1>4. Concluded(r.node[n], "succeeded", NoFailure) \in NodeRun
  BY <1>2 DEF NodeState
<1>5. Len(SuccessRecorded(r, n).node[m].attempts) = Len(r.node[m].attempts)
  BY <1>2, <1>3, <1>4, WithRunType DEF SuccessRecorded, NodeState
<1>6. \A class \in FailureClass :
        Len(FailureRecorded(r, n, class).node[m].attempts) = Len(r.node[m].attempts)
  BY <1>2 DEF FailureRecorded, NodeState
<1> QED
  BY <1>5, <1>6

LEMMA ReclaimedAttempts ==
    ASSUME NEW r \in Run, NEW n \in Nodes, NEW m \in Nodes
    PROVE  Len(Reclaimed(r, n).node[m].attempts) = Len(r.node[m].attempts)
<1>1. r.node[n] \in NodeRun /\ r.node[n].attempts \in Seq(Attempt)
  BY DEF Run, NodeRun
<1>2. Len(Abandoned(r.node[n]).attempts) = Len(r.node[n].attempts)
  BY <1>1, CloseCurrentType DEF Abandoned, NodeState, FailureClass, AmbiguousClasses
<1> QED
  BY <1>1, <1>2, AbandonedType, WithRunAttempts DEF Reclaimed

-----------------------------------------------------------------------------
(* What is true of one node in every run: its state, its lease and its     *)
(* attempts tell one story, and a success stays the last attempt.          *)

NodeCoherent(nr) ==
    LET last == Len(nr.attempts)
    IN  /\ \A i \in 1..last : IsOpen(nr.attempts[i]) => nr.state = "leased" /\ i = last
        /\ nr.state = "leased" =>
            /\ last > 0 /\ IsOpen(nr.attempts[last])
            /\ nr.lease # NoLease /\ HeldBy(nr.lease, nr.attempts[last].worker)
        /\ nr.lease # NoLease /\ nr.state # "leased" => nr.lease.released
        /\ \A i \in 1..last : nr.attempts[i].outcome = "succeeded" =>
            i = last /\ nr.state \in {"succeeded", "compensated"}

\* An attempt whose outcome nobody knows stays the last of an unkeyed mutation.
NodeUnrepeated(n, nr) ==
    n \in Mutating \ Keyed =>
        \A i \in 1..Len(nr.attempts) : nr.attempts[i].failure \in AmbiguousClasses =>
            /\ i = Len(nr.attempts)
            /\ nr.state \in {"failed", "unknown", "skipped", "compensated"}

\* Ended attempts stay as they are.
HistoryKept(old, new) ==
    /\ Len(new) >= Len(old)
    /\ \A i \in 1..Len(old) : ~IsOpen(old[i]) => new[i] = old[i]

\* What a command may do to a node it is not about: promote it.
Kept(old, new) ==
    /\ new.lease = old.lease
    /\ new.attempts = old.attempts
    /\ new.state = old.state \/ (old.state = "waiting" /\ new.state = "ready")

\* What a command may do to the node it is about.
Restated(n, old, new) ==
    \E s \in {"ready", "skipped", "compensated"} :
        /\ CanMove(old, s)
        /\ s = "ready" => CanReady(n, old)
        /\ new = [old EXCEPT !.state = s]

Answered(old, new) ==
    /\ old.state = "leased" /\ old.lease # NoLease
    /\ \/ new = Concluded(old, "succeeded", NoFailure)
       \/ \E class \in FailureClass : new = Concluded(old, "failed", class)

NodeMoved(n, old, new) ==
    \/ CanLease(n, old) /\ \E w \in Workers, t \in Nat : new = LeasedTo(old, w, t)
    \/ Answered(old, new)
    \/ old.state = "leased" /\ new = Abandoned(old)
    \/ Restated(n, old, new)

-----------------------------------------------------------------------------
(* The moves of a node.                                                    *)

(* Closing the current attempt of a node in flight closes its last one and *)
(* leaves the others alone.                                                *)
LEMMA CloseCurrentLast ==
    ASSUME NEW nr \in NodeRun, NodeCoherent(nr), nr.state = "leased",
           NEW outcome \in NodeState, NEW failure \in FailureClass \cup {NoFailure}
    PROVE  LET closed == CloseCurrent(nr.attempts, outcome, failure)
               last == Len(nr.attempts)
           IN  /\ closed \in Seq(Attempt) /\ Len(closed) = last /\ last \in Nat \ {0}
               /\ closed[last].outcome = outcome /\ closed[last].failure = failure
               /\ \A i \in 1..last : i # last => closed[i] = nr.attempts[i] /\ ~IsOpen(closed[i])
<1> DEFINE closed == CloseCurrent(nr.attempts, outcome, failure)
           last == Len(nr.attempts)
<1>1. nr.attempts \in Seq(Attempt) /\ last \in Nat
  BY LenProperties DEF NodeRun
<1>2. last > 0 /\ IsOpen(nr.attempts[last])
  BY DEF NodeCoherent
<1>3. \A i \in 1..last : IsOpen(nr.attempts[i]) => i = last
  BY DEF NodeCoherent
<1>4. closed \in Seq(Attempt) /\ Len(closed) = last
  BY <1>1, CloseCurrentType
<1>5. \A i \in 1..last : closed[i] =
        IF IsOpen(nr.attempts[i]) /\ \A j \in (i + 1)..last : ~IsOpen(nr.attempts[j])
        THEN [nr.attempts[i] EXCEPT !.outcome = outcome, !.failure = failure]
        ELSE nr.attempts[i]
  BY DEF CloseCurrent
<1>6. \A i \in 1..last : i # last => closed[i] = nr.attempts[i] /\ ~IsOpen(closed[i])
  BY <1>3, <1>5
<1>7. last \in 1..last /\ (last + 1)..last = {}
  BY <1>1, <1>2
<1>8. closed[last] = [nr.attempts[last] EXCEPT !.outcome = outcome, !.failure = failure]
  BY <1>2, <1>5, <1>7
<1>9. nr.attempts[last] \in Attempt
  BY <1>1, <1>7, ElementOfSeq
<1>10. closed[last].outcome = outcome /\ closed[last].failure = failure
  BY <1>8, <1>9 DEF Attempt
<1> QED
  BY <1>1, <1>2, <1>4, <1>6, <1>10

(* A node in flight that is concluded or abandoned stays coherent.         *)
LEMMA ClosedCoherent ==
    ASSUME NEW nr \in NodeRun, NodeCoherent(nr), nr.state = "leased",
           NEW outcome \in {"succeeded", "failed", "unknown"},
           NEW failure \in FailureClass \cup {NoFailure},
           NEW new \in NodeRun,
           new.state = outcome,
           new.lease = [nr.lease EXCEPT !.released = TRUE],
           new.attempts = CloseCurrent(nr.attempts, outcome, failure)
    PROVE  NodeCoherent(new) /\ HistoryKept(nr.attempts, new.attempts)
<1> DEFINE last == Len(nr.attempts)
<1>1. outcome \in NodeState
  BY DEF NodeState
<1>2. /\ new.attempts \in Seq(Attempt) /\ Len(new.attempts) = last /\ last \in Nat \ {0}
      /\ new.attempts[last].outcome = outcome
      /\ \A i \in 1..last : i # last =>
            new.attempts[i] = nr.attempts[i] /\ ~IsOpen(new.attempts[i])
  BY <1>1, CloseCurrentLast
<1>3. nr.lease # NoLease /\ nr.lease \in Lease
  BY DEF NodeCoherent, NodeRun
<1>4. new.lease.released = TRUE
  BY <1>3 DEF Lease
<1>5. \A i \in 1..last : ~IsOpen(new.attempts[i])
  BY <1>2 DEF IsOpen
<1>6. \A i \in 1..last : new.attempts[i].outcome = "succeeded" =>
        i = last /\ new.state \in {"succeeded", "compensated"}
  BY <1>2 DEF NodeCoherent
<1>7. NodeCoherent(new)
  BY <1>2, <1>4, <1>5, <1>6 DEF NodeCoherent
<1>8. \A i \in 1..last : ~IsOpen(nr.attempts[i]) => new.attempts[i] = nr.attempts[i]
  BY <1>2 DEF NodeCoherent
<1> QED
  BY <1>2, <1>7, <1>8 DEF HistoryKept

LEMMA LeasedCoherent ==
    ASSUME NEW n \in Nodes, NEW nr \in NodeRun, NodeCoherent(nr), CanLease(n, nr),
           NEW w \in Workers, NEW t \in Nat
    PROVE  LET new == LeasedTo(nr, w, t)
               last == Len(nr.attempts)
           IN  /\ NodeCoherent(new) /\ HistoryKept(nr.attempts, new.attempts)
               /\ last \in Nat /\ Len(new.attempts) = last + 1
               /\ IsOpen(new.attempts[last + 1]) /\ new.attempts[last + 1].failure = NoFailure
               /\ \A i \in 1..last : new.attempts[i] = nr.attempts[i]
<1> DEFINE new == LeasedTo(nr, w, t)
           last == Len(nr.attempts)
           tried == [worker |-> w, outcome |-> "leased", failure |-> NoFailure]
<1>1. nr.attempts \in Seq(Attempt) /\ last \in Nat /\ tried \in Attempt
  BY LenProperties DEF NodeRun, Attempt, NodeState, NoFailure
<1>2. /\ new.state = "leased"
      /\ new.lease = [holder |-> w, expires |-> t + LeaseSeconds, released |-> FALSE]
      /\ new.attempts = Append(nr.attempts, tried)
  BY DEF LeasedTo
<1>3. /\ Len(new.attempts) = last + 1
      /\ \A i \in 1..last : new.attempts[i] = nr.attempts[i]
      /\ new.attempts[last + 1] = tried
  BY <1>1, <1>2, AppendProperties
<1>4. nr.state \notin {"leased", "succeeded", "compensated"}
  BY DEF CanLease, CanMove, NodeTransitions, NodeRun, NodeState
<1>5. \A i \in 1..last : ~IsOpen(nr.attempts[i]) /\ nr.attempts[i].outcome # "succeeded"
  BY <1>4 DEF NodeCoherent
<1>6. IsOpen(new.attempts[last + 1]) /\ new.attempts[last + 1].outcome # "succeeded"
      /\ new.attempts[last + 1].worker = w /\ new.attempts[last + 1].failure = NoFailure
  BY <1>3 DEF IsOpen
<1>7. \A i \in 1..(last + 1) : i \in 1..last \/ i = last + 1
  BY <1>1
<1>8. new.lease # NoLease
  <2>1. t + LeaseSeconds \in Nat
    BY AggregateAssumption
  <2>2. [holder |-> w, expires |-> t + LeaseSeconds, released |-> FALSE]
          \in [holder : Workers, expires : Nat, released : BOOLEAN]
    BY <2>1
  <2> QED
    BY <1>2, <2>2, AggregateAssumption
<1>9. HeldBy(new.lease, w)
  BY <1>2 DEF HeldBy
<1>10. \A i \in 1..(last + 1) :
         /\ IsOpen(new.attempts[i]) => i = last + 1
         /\ new.attempts[i].outcome # "succeeded"
  BY <1>3, <1>5, <1>6, <1>7
<1>11. NodeCoherent(new)
  BY <1>1, <1>2, <1>3, <1>6, <1>8, <1>9, <1>10 DEF NodeCoherent
<1>12. HistoryKept(nr.attempts, new.attempts)
  BY <1>1, <1>3 DEF HistoryKept
<1> QED
  BY <1>1, <1>3, <1>6, <1>11, <1>12

LEMMA ConcludedCoherent ==
    ASSUME NEW old \in NodeRun, NEW new, NodeCoherent(old), Answered(old, new)
    PROVE  /\ new \in NodeRun /\ new.state \in {"succeeded", "failed"}
           /\ NodeCoherent(new) /\ HistoryKept(old.attempts, new.attempts)
<1>1. PICK outcome \in {"succeeded", "failed"}, failure \in FailureClass \cup {NoFailure} :
        new = Concluded(old, outcome, failure)
  BY DEF Answered
<1>2. outcome \in NodeState
  BY DEF NodeState
<1>3. new \in NodeRun
  BY <1>1, <1>2, ConcludedType DEF Answered
<1>4. /\ new.state = outcome
      /\ new.lease = [old.lease EXCEPT !.released = TRUE]
      /\ new.attempts = CloseCurrent(old.attempts, outcome, failure)
  BY <1>1 DEF Concluded
<1> QED
  BY <1>3, <1>4, ClosedCoherent DEF Answered

LEMMA AbandonedCoherent ==
    ASSUME NEW old \in NodeRun, NodeCoherent(old), old.state = "leased"
    PROVE  /\ Abandoned(old) \in NodeRun /\ Abandoned(old).state = "unknown"
           /\ NodeCoherent(Abandoned(old)) /\ HistoryKept(old.attempts, Abandoned(old).attempts)
<1>1. old.lease # NoLease
  BY DEF NodeCoherent
<1>2. /\ Abandoned(old).state = "unknown"
      /\ Abandoned(old).lease = [old.lease EXCEPT !.released = TRUE]
      /\ Abandoned(old).attempts = CloseCurrent(old.attempts, "unknown", "unknown_outcome")
  BY <1>1 DEF Abandoned
<1>3. "unknown_outcome" \in FailureClass \cup {NoFailure}
  BY DEF FailureClass, AmbiguousClasses
<1> QED
  BY <1>2, <1>3, AbandonedType, ClosedCoherent

LEMMA RestatedCoherent ==
    ASSUME NEW n \in Nodes, NEW old \in NodeRun, NEW new, NodeCoherent(old), Restated(n, old, new)
    PROVE  /\ new \in NodeRun /\ new.state \in {"ready", "skipped", "compensated"}
           /\ new.lease = old.lease /\ new.attempts = old.attempts
           /\ old.state = "succeeded" => new.state = "compensated"
           /\ old.state \notin {"leased", "skipped", "compensated"}
           /\ NodeCoherent(new) /\ HistoryKept(old.attempts, new.attempts)
<1>1. PICK s \in {"ready", "skipped", "compensated"} :
        CanMove(old, s) /\ new = [old EXCEPT !.state = s]
  BY DEF Restated
<1>2. old.state \in NodeState /\ s \in NodeState
  BY DEF NodeRun, NodeState
<1>3. new \in NodeRun /\ new.state = s /\ new.lease = old.lease /\ new.attempts = old.attempts
  BY <1>1, <1>2 DEF NodeRun
<1>4. s \in NodeTransitions[old.state]
  BY <1>1 DEF CanMove
<1>5. old.state \notin {"leased", "skipped", "compensated"}
      /\ (old.state = "succeeded" => s = "compensated")
  BY <1>2, <1>4 DEF NodeTransitions, NodeState
<1>6. NodeCoherent(new)
  BY <1>3, <1>5 DEF NodeCoherent
<1>7. HistoryKept(old.attempts, new.attempts)
  <2>1. Len(old.attempts) \in Nat
    BY LenProperties DEF NodeRun
  <2> QED
    BY <1>3, <2>1 DEF HistoryKept
<1> QED
  BY <1>3, <1>5, <1>6, <1>7

(* Whatever a command does to its node, the node stays coherent, no ended  *)
(* attempt is rewritten, and a finished node stays finished.               *)
LEMMA NodeMovedCoherent ==
    ASSUME NEW n \in Nodes, NEW old \in NodeRun, NEW new,
           NodeCoherent(old), NodeMoved(n, old, new)
    PROVE  /\ new \in NodeRun /\ new.state # "waiting"
           /\ NodeCoherent(new) /\ HistoryKept(old.attempts, new.attempts)
           /\ old.state \in FinishedStates => new.state \in FinishedStates
<1>1. ASSUME CanLease(n, old), NEW w \in Workers, NEW t \in Nat, new = LeasedTo(old, w, t)
      PROVE  /\ new \in NodeRun /\ new.state = "leased"
             /\ NodeCoherent(new) /\ HistoryKept(old.attempts, new.attempts)
             /\ old.state \notin FinishedStates
  <2>1. old.state = "ready"
    BY <1>1 DEF CanLease, CanMove, NodeTransitions, NodeRun, NodeState
  <2> QED
    BY <1>1, <2>1, LeasedToType, LeasedCoherent DEF LeasedTo, FinishedStates
<1>2. CASE Answered(old, new)
  BY <1>2, ConcludedCoherent DEF Answered, FinishedStates
<1>3. CASE old.state = "leased" /\ new = Abandoned(old)
  BY <1>3, AbandonedCoherent DEF FinishedStates
<1>4. CASE Restated(n, old, new)
  BY <1>4, RestatedCoherent DEF FinishedStates
<1> QED
  BY <1>1, <1>2, <1>3, <1>4 DEF NodeMoved

(* A retry that decide_retry permits keeps an ambiguous attempt at an      *)
(* unkeyed mutation the last one; so does every other move.                *)
LEMMA NodeMovedUnrepeated ==
    ASSUME NEW n \in Nodes, NEW old \in NodeRun, NEW new,
           NodeCoherent(old), NodeUnrepeated(n, old), NodeMoved(n, old, new),
           new.state = "ready" => DecideRetry(n, old) = "retry"
    PROVE  NodeUnrepeated(n, new)
<1> SUFFICES ASSUME n \in Mutating \ Keyed
             PROVE  NodeUnrepeated(n, new)
  BY DEF NodeUnrepeated
<1> DEFINE last == Len(old.attempts)
<1>1. last \in Nat
  BY LenProperties DEF NodeRun
<1>2. NoFailure \notin AmbiguousClasses
  BY DEF NoFailure, AmbiguousClasses
<1>3. ASSUME old.state \notin {"failed", "unknown", "skipped", "compensated"}
      PROVE  \A i \in 1..last : old.attempts[i].failure \notin AmbiguousClasses
  BY <1>3 DEF NodeUnrepeated
<1>4. ASSUME CanLease(n, old), NEW w \in Workers, NEW t \in Nat, new = LeasedTo(old, w, t)
      PROVE  NodeUnrepeated(n, new)
  <2>1. old.state = "ready"
    BY <1>4 DEF CanLease, CanMove, NodeTransitions, NodeRun, NodeState
  <2>2. /\ Len(new.attempts) = last + 1
        /\ new.attempts[last + 1].failure = NoFailure
        /\ \A i \in 1..last : new.attempts[i] = old.attempts[i]
    BY <1>4, LeasedCoherent
  <2>3. \A i \in 1..(last + 1) : new.attempts[i].failure \notin AmbiguousClasses
    BY <1>1, <1>2, <1>3, <2>1, <2>2
  <2> QED
    BY <2>2, <2>3 DEF NodeUnrepeated
<1>5. ASSUME old.state = "leased", new.state \in {"failed", "unknown", "succeeded"},
             NEW outcome \in NodeState, NEW failure \in FailureClass \cup {NoFailure},
             new.attempts = CloseCurrent(old.attempts, outcome, failure),
             new.state = "succeeded" => failure = NoFailure
      PROVE  NodeUnrepeated(n, new)
  <2>1. /\ Len(new.attempts) = last
        /\ new.attempts[last].failure = failure
        /\ \A i \in 1..last : i # last => new.attempts[i] = old.attempts[i]
    BY <1>5, CloseCurrentLast
  <2>2. \A i \in 1..last : new.attempts[i].failure \in AmbiguousClasses =>
            i = last /\ new.state # "succeeded"
    BY <1>2, <1>3, <1>5, <2>1
  <2> QED
    BY <1>5, <2>1, <2>2 DEF NodeUnrepeated
<1>6. CASE Answered(old, new)
  <2>1. PICK outcome \in {"succeeded", "failed"}, failure \in FailureClass \cup {NoFailure} :
          /\ new = Concluded(old, outcome, failure)
          /\ outcome = "succeeded" => failure = NoFailure
    BY <1>6 DEF Answered
  <2>2. outcome \in NodeState /\ new.state = outcome
        /\ new.attempts = CloseCurrent(old.attempts, outcome, failure)
    BY <2>1 DEF Concluded, NodeState
  <2> QED
    BY <1>5, <1>6, <2>1, <2>2 DEF Answered
<1>7. CASE old.state = "leased" /\ new = Abandoned(old)
  <2>1. "unknown" \in NodeState /\ "unknown_outcome" \in FailureClass \cup {NoFailure}
    BY DEF NodeState, FailureClass, AmbiguousClasses
  <2>2. new.state = "unknown"
        /\ new.attempts = CloseCurrent(old.attempts, "unknown", "unknown_outcome")
    BY <1>7 DEF Abandoned
  <2> QED
    BY <1>5, <1>7, <2>1, <2>2
<1>8. CASE Restated(n, old, new)
  <2>1. new.state \in {"ready", "skipped", "compensated"} /\ new.attempts = old.attempts
    BY <1>8, RestatedCoherent
  <2>2. CASE new.state \in {"skipped", "compensated"}
    BY <2>1, <2>2 DEF NodeUnrepeated
  <2>3. CASE new.state = "ready"
    <3>1. LastFailure(old) \notin AmbiguousClasses
      BY <2>3 DEF DecideRetry, MayRetryAfterAmbiguity
    <3>2. last > 0 => old.attempts[last].failure \notin AmbiguousClasses
      BY <1>1, <3>1, EmptySeq DEF LastFailure, NodeRun
    <3>3. \A i \in 1..last : old.attempts[i].failure \notin AmbiguousClasses
      BY <1>1, <3>2 DEF NodeUnrepeated
    <3> QED
      BY <2>1, <3>3 DEF NodeUnrepeated
  <2> QED
    BY <2>1, <2>2, <2>3
<1> QED
  BY <1>4, <1>6, <1>7, <1>8 DEF NodeMoved

-----------------------------------------------------------------------------
(* The moves of a run.  A run is coherent when every node is, no waiting   *)
(* node is left behind its dependencies, and no checkpoint is ahead.       *)

NoneForgotten(r) ==
    \A n \in Nodes :
        r.node[n].state = "waiting" => ~(DependsOn[n] \subseteq Satisfied(r.node))

NoneAhead(r) ==
    \A c \in 1..Len(r.checkpoints) : r.checkpoints[c] \subseteq FinishedNodes(r)

RunCoherent(r) ==
    /\ \A n \in Nodes : NodeCoherent(r.node[n])
    /\ NoneForgotten(r)
    /\ NoneAhead(r)

\* A run that says it is completed has nothing left to do.
Settled(r) == r.state = "completed" => OutstandingNodes(r) = {}

LEMMA KeptCoherent ==
    ASSUME NEW n \in Nodes, NEW old \in NodeRun, NEW new \in NodeRun,
           Kept(old, new), NodeCoherent(old)
    PROVE  /\ NodeCoherent(new) /\ HistoryKept(old.attempts, new.attempts)
           /\ NodeUnrepeated(n, old) => NodeUnrepeated(n, new)
           /\ new.state \in FinishedStates <=> old.state \in FinishedStates
           /\ new.state \in SatisfyingStates <=> old.state \in SatisfyingStates
<1>1. Len(old.attempts) \in Nat
  BY LenProperties DEF NodeRun
<1> QED
  BY <1>1 DEF Kept, NodeCoherent, NodeUnrepeated, HistoryKept, FinishedStates, SatisfyingStates

(* Replacing the run of one node keeps all there is of the others, except  *)
(* that it may promote them; and it forgets none.                          *)
LEMMA WithRunKeeps ==
    ASSUME NEW r \in Run, NEW n \in Nodes, NEW nr \in NodeRun
    PROVE  LET q == WithRun(r, n, nr)
           IN  /\ q \in Run /\ q.state = r.state /\ q.checkpoints = r.checkpoints
               /\ \A m \in Nodes : Kept(IF m = n THEN nr ELSE r.node[m], q.node[m])
               /\ nr.state # "waiting" => q.node[n] = nr
               /\ NoneForgotten(q)
<1> DEFINE q == WithRun(r, n, nr)
           node == [r.node EXCEPT ![n] = nr]
<1>1. node \in [Nodes -> NodeRun] /\ node[n] = nr /\ \A m \in Nodes : m # n => node[m] = r.node[m]
  BY DEF Run
<1>2. q \in Run /\ q.state = r.state /\ q.checkpoints = r.checkpoints /\ q.node = PromoteReady(node)
  BY WithRunType DEF WithRun, Run
<1> HIDE DEF node
<1>3. \A m \in Nodes : q.node[m] =
        IF node[m].state = "waiting" /\ DependsOn[m] \subseteq Satisfied(node)
        THEN [node[m] EXCEPT !.state = "ready"]
        ELSE node[m]
  BY <1>2 DEF PromoteReady
<1>4. ASSUME NEW m \in Nodes
      PROVE  Kept(node[m], q.node[m])
  <2>1. node[m] \in NodeRun
    BY <1>1
  <2>2. LET new == [node[m] EXCEPT !.state = "ready"]
        IN  new.state = "ready" /\ new.lease = node[m].lease /\ new.attempts = node[m].attempts
    BY <2>1 DEF NodeRun
  <2> QED
    BY <1>3, <2>2 DEF Kept
<1>5. \A m \in Nodes : q.node[m].state \in SatisfyingStates <=> node[m].state \in SatisfyingStates
  BY <1>4 DEF Kept, SatisfyingStates
<1>6. Satisfied(q.node) = Satisfied(node)
  BY <1>5 DEF Satisfied
<1>7. NoneForgotten(q)
  <2> SUFFICES ASSUME NEW m \in Nodes, q.node[m].state = "waiting"
               PROVE  ~(DependsOn[m] \subseteq Satisfied(node))
    BY <1>6 DEF NoneForgotten
  <2>1. [node[m] EXCEPT !.state = "ready"].state = "ready"
    BY <1>1 DEF NodeRun
  <2> QED
    BY <1>3, <2>1
<1>8. nr.state # "waiting" => q.node[n] = nr
  BY <1>1, <1>3
<1> QED
  BY <1>1, <1>2, <1>4, <1>7, <1>8

(* Replacing the run of a node keeps a run coherent, whatever became of    *)
(* the node, provided the node is coherent and stays finished if it was.   *)
LEMMA WithRunCoherent ==
    ASSUME NEW r \in Run, RunCoherent(r), NEW n \in Nodes, NEW nr \in NodeRun, NodeCoherent(nr),
           r.node[n].state \in FinishedStates => nr.state \in FinishedStates
    PROVE  RunCoherent(WithRun(r, n, nr))
<1> DEFINE q == WithRun(r, n, nr)
           before(m) == IF m = n THEN nr ELSE r.node[m]
<1>1. /\ q \in Run /\ q.checkpoints = r.checkpoints /\ NoneForgotten(q)
      /\ \A m \in Nodes : Kept(before(m), q.node[m])
  BY WithRunKeeps
<1>2. \A m \in Nodes : before(m) \in NodeRun /\ NodeCoherent(before(m)) /\ q.node[m] \in NodeRun
  BY <1>1 DEF RunCoherent, Run
<1>3. \A m \in Nodes :
        /\ NodeCoherent(q.node[m])
        /\ r.node[m].state \in FinishedStates => q.node[m].state \in FinishedStates
  BY <1>1, <1>2, KeptCoherent
<1>4. FinishedNodes(r) \subseteq FinishedNodes(q)
  BY <1>3 DEF FinishedNodes
<1>5. NoneAhead(q)
  BY <1>1, <1>4 DEF NoneAhead, RunCoherent
<1> QED
  BY <1>1, <1>3, <1>5 DEF RunCoherent

LEMMA MovedToCoherent ==
    ASSUME NEW r \in Run, RunCoherent(r), NEW to \in ExecutionState
    PROVE  /\ RunCoherent(MovedTo(r, to))
           /\ MovedTo(r, to).node = r.node /\ MovedTo(r, to).state = to
           /\ OutstandingNodes(MovedTo(r, to)) = OutstandingNodes(r)
<1>1. /\ MovedTo(r, to).node = r.node /\ MovedTo(r, to).checkpoints = r.checkpoints
      /\ MovedTo(r, to).state = to
  BY DEF MovedTo, Run
<1> QED
  BY <1>1 DEF RunCoherent, NoneForgotten, NoneAhead, FinishedNodes, OutstandingNodes

LEMMA SealedCoherent ==
    ASSUME NEW r \in Run, RunCoherent(r)
    PROVE  /\ RunCoherent(SealedIfDone(r)) /\ SealedIfDone(r).node = r.node
           /\ Settled(r) => Settled(SealedIfDone(r))
<1>1. "completed" \in ExecutionState
  BY DEF ExecutionState
<1>2. ASSUME \A n \in Nodes : r.node[n].state \in SatisfyingStates
      PROVE  OutstandingNodes(r) = {}
  BY <1>2 DEF OutstandingNodes, FinishedNodes, FinishedStates, SatisfyingStates
<1> QED
  BY <1>1, <1>2, MovedToCoherent DEF SealedIfDone, Settled

LEMMA CheckpointedCoherent ==
    ASSUME NEW r \in Run, RunCoherent(r)
    PROVE  /\ RunCoherent(Checkpointed(r))
           /\ Checkpointed(r).node = r.node /\ Checkpointed(r).state = r.state
<1> DEFINE q == Checkpointed(r)
           last == Len(r.checkpoints)
<1>1. q.node = r.node /\ q.state = r.state /\ q.checkpoints = Append(r.checkpoints, FinishedNodes(r))
  BY DEF Checkpointed, Run
<1>2. r.checkpoints \in Seq(SUBSET Nodes) /\ FinishedNodes(r) \in SUBSET Nodes /\ last \in Nat
  BY LenProperties DEF Run, FinishedNodes
<1>3. /\ Len(q.checkpoints) = last + 1
      /\ \A c \in 1..last : q.checkpoints[c] = r.checkpoints[c]
      /\ q.checkpoints[last + 1] = FinishedNodes(r)
  BY <1>1, <1>2, AppendProperties
<1>4. FinishedNodes(q) = FinishedNodes(r)
  BY <1>1 DEF FinishedNodes
<1>5. \A c \in 1..(last + 1) : c \in 1..last \/ c = last + 1
  BY <1>2
<1>6. NoneAhead(q)
  BY <1>3, <1>4, <1>5 DEF NoneAhead, RunCoherent
<1> QED
  BY <1>1, <1>6 DEF RunCoherent, NoneForgotten

LEMMA MovedCoherent ==
    ASSUME NEW r \in Run, RunCoherent(r), NEW n \in Nodes, NEW nr, NodeMoved(n, r.node[n], nr)
    PROVE  RunCoherent(WithRun(r, n, nr)) /\ RunCoherent(SealedIfDone(WithRun(r, n, nr)))
<1>1. r.node[n] \in NodeRun /\ NodeCoherent(r.node[n])
  BY DEF Run, RunCoherent
<1>2. /\ nr \in NodeRun /\ NodeCoherent(nr)
      /\ r.node[n].state \in FinishedStates => nr.state \in FinishedStates
  BY <1>1, NodeMovedCoherent
<1> QED
  BY <1>2, WithRunType, WithRunCoherent, SealedCoherent

(* What any command about one node returns from a coherent run is          *)
(* coherent, whatever run it was decided on.                               *)
LEMMA CommandsCoherent ==
    ASSUME NEW r \in Run, RunCoherent(r), NEW n \in Nodes
    PROVE  /\ CanAssign(r, n) =>
                \A w \in Workers, t \in Nat : RunCoherent(Assigned(r, n, w, t))
           /\ r.node[n].state = "leased" /\ r.node[n].lease # NoLease =>
                /\ RunCoherent(SuccessRecorded(r, n))
                /\ \A class \in FailureClass : RunCoherent(FailureRecorded(r, n, class))
           /\ r.node[n].state = "leased" => RunCoherent(Reclaimed(r, n))
           /\ CanRetry(r, n) => RunCoherent(Retried(r, n))
           /\ CanSkip(r, n) => RunCoherent(Skipped(r, n))
           /\ CanCompensate(r, n) => RunCoherent(Compensated(r, n))
           /\ RunCoherent(WithRun(r, n, r.node[n]))
<1> DEFINE old == r.node[n]
<1>1. CanAssign(r, n) => \A w \in Workers, t \in Nat : NodeMoved(n, old, LeasedTo(old, w, t))
  BY DEF CanAssign, NodeMoved
<1>2. old.state = "leased" /\ old.lease # NoLease =>
        /\ NodeMoved(n, old, Concluded(old, "succeeded", NoFailure))
        /\ \A class \in FailureClass : NodeMoved(n, old, Concluded(old, "failed", class))
  BY DEF NodeMoved, Answered
<1>3. old.state = "leased" => NodeMoved(n, old, Abandoned(old))
  BY DEF NodeMoved
<1>4. /\ CanRetry(r, n) => NodeMoved(n, old, [old EXCEPT !.state = "ready"])
      /\ CanSkip(r, n) => NodeMoved(n, old, [old EXCEPT !.state = "skipped"])
      /\ CanCompensate(r, n) => NodeMoved(n, old, [old EXCEPT !.state = "compensated"])
  BY DEF CanRetry, CanReady, CanSkip, CanCompensate, NodeMoved, Restated
<1>5. RunCoherent(WithRun(r, n, old))
  BY WithRunCoherent DEF Run, RunCoherent
<1>6. /\ CanRetry(r, n) => RunCoherent(Retried(r, n))
      /\ CanSkip(r, n) => RunCoherent(Skipped(r, n))
      /\ CanCompensate(r, n) => RunCoherent(Compensated(r, n))
  BY <1>4, MovedCoherent DEF Retried, Skipped, Compensated
<1> QED
  BY <1>1, <1>2, <1>3, <1>5, <1>6, MovedCoherent
     DEF Assigned, SuccessRecorded, FailureRecorded, Reclaimed

=============================================================================
