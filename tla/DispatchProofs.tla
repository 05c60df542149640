---------------------------- MODULE DispatchProofs ----------------------------
(***************************************************************************)
(* Proofs about Dispatch, for any workflow, any number of dispatchers and  *)
(* any interleaving of their steps with operators, crashes and the clock.  *)
(*                                                                         *)
(* As every command a dispatcher or an operator issues is one of the       *)
(* atomic service's, Dispatch implements ExecutionRun and inherits its     *)
(* invariant.  What is added ties each dispatcher to the record: the       *)
(* dispatchers that have a node in hand and have not yet been answered     *)
(* stand for attempts that are on record and not invoked.                  *)
(***************************************************************************)
EXTENDS Dispatch, ExecutionRunProofs, FiniteSetTheorems

\* Unkeyed mutations: what must not happen twice.
AtRisk == Mutating \ Keyed

\* Dispatcher d has node n in hand, and has not handed over an answer.
Working(d, n) ==
    task[d].node = n /\ task[d].stage \in {"leased", "named", "admitted", "answered"}

\* It has not called the worker yet.
Early(d, n) == task[d].node = n /\ task[d].stage \in {"leased", "named", "admitted"}

EarlyAt(n) == {d \in Dispatchers : Early(d, n)}

\* The last attempt is in flight, or ended without a known outcome.
Doubtful(attempts) ==
    /\ Len(attempts) > 0
    /\ \/ IsOpen(attempts[Len(attempts)])
       \/ attempts[Len(attempts)].failure \in AmbiguousClasses

\* ... or succeeded: no attempt can follow it.
Spent(attempts) ==
    \/ Doubtful(attempts)
    \/ Len(attempts) > 0 /\ attempts[Len(attempts)].outcome = "succeeded"

\* At most one dispatcher works on an unkeyed mutation, and while it does
\* nobody can begin another attempt.
OneHand ==
    \A n \in AtRisk, d \in Dispatchers : Working(d, n) =>
        /\ Doubtful(run.node[n].attempts)
        /\ \A e \in Dispatchers : Working(e, n) => e = d

\* Once a mutation landed nobody is about to invoke it again, whoever was
\* answered was not told that nothing was done, and its last attempt is spent.
LandedOnce ==
    \A n \in AtRisk :
        /\ applied[n] <= 1
        /\ applied[n] > 0 =>
            /\ Spent(run.node[n].attempts)
            /\ \A d \in Dispatchers : Working(d, n) =>
                /\ task[d].stage = "answered"
                /\ task[d].answer \in {"success"} \cup AmbiguousClasses

\* Every invocation and every dispatcher about to invoke has an attempt of its own.
AttemptsCover ==
    \A n \in Nodes :
        /\ IsFiniteSet(EarlyAt(n))
        /\ Len(invoked[n]) + Cardinality(EarlyAt(n)) <= Len(run.node[n].attempts)

\* Whoever is under way has a node in hand, and once answered an answer.
InHandOK ==
    \A d \in Dispatchers :
        /\ task[d].stage # "idle" => task[d].node \in Nodes
        /\ task[d].stage = "answered" => task[d].answer \in {"success"} \cup Classes

HandsInv == OneHand /\ LandedOnce /\ AttemptsCover

DispatchInv == RunInv /\ DispatchTypeOK /\ InHandOK /\ HandsInv

-----------------------------------------------------------------------------
(* What each step does to the dispatchers.                                 *)

LEMMA NowIsAMoment ==
    ASSUME TypeOK
    PROVE  now \in 0..now
BY DEF TypeOK

\* Only d moves, to the given stage and node.
Moves(d, stage, node) ==
    /\ task' \in [Dispatchers -> Task]
    /\ \A e \in Dispatchers : e # d => task'[e] = task[e]
    /\ task'[d].stage = stage /\ task'[d].node = node

LEMMA RestingIsTask ==
    ASSUME NEW todo \in SUBSET Nodes
    PROVE  /\ Resting(todo) \in Task
           /\ Resting(todo).stage = "idle" /\ Resting(todo).node = NoNode
BY DEF Resting, Task, Stages

\* One update of a task, field by field.
LEMMA TaskUpdate ==
    ASSUME task \in [Dispatchers -> Task], NEW d \in Dispatchers, NEW new \in Task,
           task' = [task EXCEPT ![d] = new]
    PROVE  Moves(d, new.stage, new.node) /\ task'[d] = new
BY DEF Moves

LEMMA AttemptNumber ==
    ASSUME TypeOK, NEW n \in Nodes
    PROVE  CurrentAttempt(n) \in Nat
<1>1. Len(run.node[n].attempts) \in Nat
  BY LenProperties DEF TypeOK, Run, NodeRun
<1> QED
  BY <1>1 DEF CurrentAttempt

LEMMA IdleMoves ==
    ASSUME DispatchTypeOK, NEW d \in Dispatchers,
           \/ Discover(d) \/ RequestUnavailable(d) \/ Refuse(d) \/ Classify(d) \/ Crash(d)
           \/ \E n \in Nodes : LoseLease(d, n)
    PROVE  Moves(d, "idle", task'[d].node)
<1> USE DEF InHand
<1>1. task \in [Dispatchers -> Task] /\ task[d] \in Task /\ task[d].todo \in SUBSET Nodes
  BY DEF DispatchTypeOK, Task
<1>2. CASE \E todo \in SUBSET Nodes : task' = [task EXCEPT ![d] = Resting(todo)]
  BY <1>1, <1>2, RestingIsTask DEF Moves
<1>3. CASE Discover(d)
  BY <1>2, <1>3 DEF Discover, Dispatchable, ReadyNodes
<1>4. CASE RequestUnavailable(d) \/ Refuse(d) \/ Classify(d)
  BY <1>1, <1>2, <1>4 DEF RequestUnavailable, Refuse, Classify, Put
<1>5. CASE Crash(d)
  BY <1>2, <1>5 DEF Crash
<1>6. ASSUME NEW n \in Nodes, LoseLease(d, n)
      PROVE  Moves(d, "idle", task'[d].node)
  <2> DEFINE new == [task[d] EXCEPT !.todo = task[d].todo \ {n}]
  <2>1. new \in Task /\ new.stage = "idle"
    BY <1>1, <1>6 DEF Task, LoseLease
  <2>2. task' = [task EXCEPT ![d] = new]
    BY <1>6 DEF LoseLease
  <2> HIDE DEF new
  <2> QED
    BY <1>1, <2>1, <2>2 DEF Moves
<1> QED
  BY <1>2, <1>3, <1>4, <1>5, <1>6

LEMMA TakeLeaseMoves ==
    ASSUME DispatchTypeOK, NEW d \in Dispatchers, NEW n \in Nodes, TakeLease(d, n)
    PROVE  Moves(d, "leased", n)
<1> DEFINE new == [task[d] EXCEPT !.stage = "leased", !.node = n, !.todo = task[d].todo \ {n}]
<1>1. task \in [Dispatchers -> Task] /\ task[d] \in Task
  BY DEF DispatchTypeOK
<1>2. new \in Task /\ new.stage = "leased" /\ new.node = n
  BY <1>1 DEF Task, Stages
<1>3. task' = [task EXCEPT ![d] = new]
  BY DEF TakeLease
<1> HIDE DEF new
<1> QED
  BY <1>1, <1>2, <1>3, TaskUpdate

LEMMA NameMoves ==
    ASSUME TypeOK, DispatchTypeOK, InHandOK, NEW d \in Dispatchers, NameAttempt(d)
    PROVE  Moves(d, "idle", NoNode) \/ Moves(d, "named", task[d].node)
<1> DEFINE k == CurrentAttempt(task[d].node)
           new == [task[d] EXCEPT !.stage = "named", !.named = k]
<1>1. task \in [Dispatchers -> Task] /\ task[d] \in Task /\ task[d].node \in Nodes
  BY DEF DispatchTypeOK, InHandOK, NameAttempt, InHand
<1>2. k \in Nat
  BY <1>1, AttemptNumber
<1>3. CASE k = 0
  BY <1>1, <1>3, TaskUpdate, RestingIsTask DEF NameAttempt
<1>4. CASE k # 0
  <2>1. new \in Task /\ new.stage = "named" /\ new.node = task[d].node
    BY <1>1, <1>2 DEF Task, Stages
  <2>2. task' = [task EXCEPT ![d] = new]
    BY <1>4 DEF NameAttempt
  <2> HIDE DEF new
  <2> QED
    BY <1>1, <2>1, <2>2, TaskUpdate
<1> QED
  BY <1>3, <1>4

LEMMA AdmitMoves ==
    ASSUME DispatchTypeOK, NEW d \in Dispatchers, Admit(d)
    PROVE  Moves(d, "admitted", task[d].node)
<1> DEFINE new == [task[d] EXCEPT !.stage = "admitted"]
<1>1. task \in [Dispatchers -> Task] /\ task[d] \in Task
  BY DEF DispatchTypeOK
<1>2. new \in Task /\ new.stage = "admitted" /\ new.node = task[d].node
  BY <1>1 DEF Task, Stages
<1>3. task' = [task EXCEPT ![d] = new]
  BY DEF Admit
<1> HIDE DEF new
<1> QED
  BY <1>1, <1>2, <1>3, TaskUpdate

LEMMA InvokeMoves ==
    ASSUME DispatchTypeOK, NEW d \in Dispatchers, NEW answer \in Classes \cup {"success"},
           Invoke(d, answer)
    PROVE  Moves(d, "answered", task[d].node) /\ task'[d].answer = answer
<1> DEFINE new == [task[d] EXCEPT !.stage = "answered", !.answer = answer]
<1>1. task \in [Dispatchers -> Task] /\ task[d] \in Task
  BY DEF DispatchTypeOK
<1>2. /\ new \in Task /\ new.stage = "answered" /\ new.node = task[d].node
      /\ new.answer = answer
  BY <1>1 DEF Task, Stages
<1>3. task' = [task EXCEPT ![d] = new]
  BY DEF Invoke
<1> HIDE DEF new
<1>4. Moves(d, new.stage, new.node) /\ task'[d] = new
  BY <1>1, <1>2, <1>3, TaskUpdate
<1> QED
  BY <1>2, <1>4

LEMMA RecordedMoves ==
    ASSUME TypeOK, DispatchTypeOK, InHandOK, NEW d \in Dispatchers,
           RecordAnswer(d) \/ RecordingLost(d)
    PROVE  Moves(d, "recorded", task[d].node)
<1> DEFINE k == CurrentAttempt(task[d].node)
           new(c) == [task[d] EXCEPT !.stage = "recorded", !.closed = c]
<1>1. task \in [Dispatchers -> Task] /\ task[d] \in Task /\ task[d].node \in Nodes
  BY DEF DispatchTypeOK, InHandOK, RecordAnswer, RecordingLost, InHand
<1>2. k \in Nat /\ task[d].closed \in Nat
  BY <1>1, AttemptNumber DEF Task
<1>3. \A c \in Nat : new(c) \in Task /\ new(c).stage = "recorded" /\ new(c).node = task[d].node
  BY <1>1 DEF Task, Stages
<1>4. CASE RecordAnswer(d)
  <2>1. task' = [task EXCEPT ![d] = new(k)]
    BY <1>4 DEF RecordAnswer
  <2> HIDE DEF new
  <2> QED
    BY <1>1, <1>2, <1>3, <2>1, TaskUpdate
<1>5. CASE RecordingLost(d)
  <2>1. [task[d] EXCEPT !.stage = "recorded"] \in Task
        /\ [task[d] EXCEPT !.stage = "recorded"].stage = "recorded"
        /\ [task[d] EXCEPT !.stage = "recorded"].node = task[d].node
    BY <1>1 DEF Task, Stages
  <2>2. task' = [task EXCEPT ![d] = [task[d] EXCEPT !.stage = "recorded"]]
    BY <1>5 DEF RecordingLost
  <2> QED
    BY <1>1, <2>1, <2>2, TaskUpdate
<1> QED
  BY <1>4, <1>5

-----------------------------------------------------------------------------
(* Every command is one of the service's.                                  *)

LEMMA DispatchStepRefines ==
    ASSUME TypeOK, DispatchTypeOK, InHandOK, [DispatchNext]_dispatchVars
    PROVE  [Next]_vars
<1> USE DEF vars
<1>1. CASE Tick \/ UNCHANGED dispatchVars
  BY <1>1 DEF Next, dispatchVars
<1>2. CASE Operate
  BY <1>2, NowIsAMoment DEF Operate, Next
<1>3. ASSUME NEW d \in Dispatchers, NEW n \in Nodes, TakeLease(d, n)
      PROVE  Next
  <2>1. Holder \in Workers
    BY DispatchAssumption
  <2> QED
    BY <1>3, <2>1, NowIsAMoment DEF TakeLease, Next
<1>4. ASSUME NEW d \in Dispatchers, Refuse(d)
      PROVE  [Next]_vars
  <2>1. task[d].node \in Nodes
    BY <1>4 DEF Refuse, InHand, InHandOK
  <2>2. CASE CanReclaim(run, task[d].node, now)
    BY <1>4, <2>1, <2>2, NowIsAMoment DEF Refuse, Reclaim, Next
  <2> QED
    BY <1>4, <2>2 DEF Refuse
<1>5. ASSUME NEW d \in Dispatchers, RecordAnswer(d)
      PROVE  Next
  <2> DEFINE n == task[d].node
  <2>1. n \in Nodes /\ task[d].answer \in {"success"} \cup Classes /\ Holder \in Workers
    BY <1>5, DispatchAssumption DEF RecordAnswer, InHand, InHandOK
  <2>2. RecordSuccess(n, Holder, now) \/ \E class \in Classes : RecordFailure(n, Holder, class, now)
    BY <1>5, <2>1 DEF RecordAnswer, RecordSuccess, RecordFailure
  <2> QED
    BY <2>1, <2>2, NowIsAMoment DEF Next
<1>6. ASSUME NEW d \in Dispatchers,
             \/ Discover(d) \/ NameAttempt(d) \/ Admit(d) \/ Classify(d)
             \/ RequestUnavailable(d) \/ RecordingLost(d) \/ Crash(d)
             \/ \E answer \in Classes \cup {"success"} : Invoke(d, answer)
             \/ \E n \in Nodes : LoseLease(d, n)
      PROVE  UNCHANGED vars
  BY <1>6 DEF Discover, NameAttempt, Admit, Classify, RequestUnavailable, RecordingLost, Crash,
              Invoke, LoseLease
<1> QED
  BY <1>1, <1>2, <1>3, <1>4, <1>5, <1>6 DEF DispatchNext, DispatchStep, Mishap

-----------------------------------------------------------------------------
(* Types.                                                                  *)

\* A call on a node is one more invocation of it, under the attempt named.
Called(d) ==
    /\ invoked' = [invoked EXCEPT ![task[d].node] = Append(invoked[task[d].node], task[d].named)]
    /\ \E landed \in {0, 1} :
        applied' = [applied EXCEPT ![task[d].node] = applied[task[d].node] + landed]

LEMMA CalledType ==
    ASSUME DispatchTypeOK, NEW d \in Dispatchers, task[d].node \in Nodes, Called(d)
    PROVE  invoked' \in [Nodes -> Seq(Nat)] /\ applied' \in [Nodes -> Nat]
<1> DEFINE n == task[d].node
<1>1. /\ task[d].named \in Nat /\ invoked \in [Nodes -> Seq(Nat)] /\ applied \in [Nodes -> Nat]
  BY DEF DispatchTypeOK, Task
<1>2. Append(invoked[n], task[d].named) \in Seq(Nat)
  BY <1>1, AppendProperties
<1>3. \A landed \in {0, 1} : applied[n] + landed \in Nat
  BY <1>1
<1> QED
  BY <1>1, <1>2, <1>3 DEF Called

LEMMA InvokeCalls ==
    ASSUME NEW d \in Dispatchers,
           \/ \E answer \in Classes \cup {"success"} : Invoke(d, answer)
           \/ Crash(d) /\ InHand(d, "admitted")
    PROVE  Called(d)
<1>1. ASSUME NEW answer \in Classes \cup {"success"}, Invoke(d, answer)
      PROVE  Called(d)
  BY <1>1 DEF Invoke, Called
<1>2. CASE Crash(d) /\ InHand(d, "admitted")
  BY <1>2 DEF Crash, Called
<1> QED
  BY <1>1, <1>2

LEMMA VerdictType ==
    ASSUME NEW n, NEW k
    PROVE  Verdict(n, k) \in Verdicts
BY DEF Verdict, Verdicts

LEMMA DispatchTypeStep ==
    ASSUME TypeOK, DispatchTypeOK, InHandOK, [DispatchNext]_dispatchVars
    PROVE  DispatchTypeOK' /\ InHandOK'
<1>1. TypeOK'
  BY DispatchStepRefines, TypeStep
<1>2. /\ task \in [Dispatchers -> Task] /\ invoked \in [Nodes -> Seq(Nat)]
      /\ applied \in [Nodes -> Nat]
      /\ \A a \in answers : a.node \in Nodes /\ a.verdict \in Verdicts
  BY DEF DispatchTypeOK
<1>3. ASSUME UNCHANGED taskVars
      PROVE  DispatchTypeOK' /\ InHandOK'
  BY <1>1, <1>2, <1>3 DEF DispatchTypeOK, InHandOK, taskVars
<1>4. ASSUME NEW d \in Dispatchers, NEW stage, NEW node, Moves(d, stage, node),
             stage # "idle" => node \in Nodes,
             stage = "answered" => task'[d].answer \in {"success"} \cup Classes
      PROVE  task' \in [Dispatchers -> Task] /\ InHandOK'
  BY <1>4 DEF Moves, InHandOK
<1>5. CASE (Tick /\ UNCHANGED taskVars) \/ Operate \/ UNCHANGED dispatchVars
  BY <1>3, <1>5 DEF Operate, dispatchVars
<1>6. ASSUME NEW d \in Dispatchers,
             \/ Discover(d) \/ RequestUnavailable(d) \/ Refuse(d) \/ Crash(d)
             \/ \E n \in Nodes : LoseLease(d, n)
      PROVE  DispatchTypeOK' /\ InHandOK'
  <2>1. Moves(d, "idle", task'[d].node)
    BY <1>6, IdleMoves
  <2>2. task' \in [Dispatchers -> Task] /\ InHandOK'
    BY <1>4, <2>1
  <2>3. invoked' \in [Nodes -> Seq(Nat)] /\ applied' \in [Nodes -> Nat]
    <3>1. CASE Crash(d) /\ InHand(d, "admitted")
      BY <3>1, InvokeCalls, CalledType DEF InHand, InHandOK
    <3>2. CASE ~(Crash(d) /\ InHand(d, "admitted"))
      BY <1>2, <1>6, <3>2 DEF Discover, RequestUnavailable, Refuse, Crash, LoseLease
    <3> QED
      BY <3>1, <3>2
  <2>4. answers' = answers
    BY <1>6 DEF Discover, RequestUnavailable, Refuse, Crash, LoseLease
  <2> QED
    BY <1>1, <1>2, <2>2, <2>3, <2>4 DEF DispatchTypeOK
<1>7. ASSUME NEW d \in Dispatchers, Classify(d)
      PROVE  DispatchTypeOK' /\ InHandOK'
  <2>1. task' \in [Dispatchers -> Task] /\ InHandOK'
    BY <1>4, <1>7, IdleMoves
  <2>2. task[d].node \in Nodes
    BY <1>7 DEF Classify, InHand, InHandOK
  <2>3. \A a \in answers' : a.node \in Nodes /\ a.verdict \in Verdicts
    BY <1>2, <1>7, <2>2, VerdictType DEF Classify
  <2>4. invoked' = invoked /\ applied' = applied
    BY <1>7 DEF Classify
  <2> QED
    BY <1>1, <1>2, <2>1, <2>3, <2>4 DEF DispatchTypeOK
<1>8. ASSUME NEW d \in Dispatchers,
             \/ NameAttempt(d) \/ Admit(d) \/ RecordAnswer(d) \/ RecordingLost(d)
             \/ \E n \in Nodes : TakeLease(d, n)
      PROVE  DispatchTypeOK' /\ InHandOK'
  <2>1. task' \in [Dispatchers -> Task] /\ InHandOK'
    <3>1. InHand(d, "idle") \/ task[d].node \in Nodes
      BY DEF InHand, InHandOK
    <3>2. CASE NameAttempt(d)
      BY <1>4, <3>1, <3>2, NameMoves DEF NameAttempt, InHand
    <3>3. CASE Admit(d)
      BY <1>4, <3>1, <3>3, AdmitMoves DEF Admit, InHand
    <3>4. CASE RecordAnswer(d) \/ RecordingLost(d)
      BY <1>4, <3>1, <3>4, RecordedMoves DEF RecordAnswer, RecordingLost, InHand
    <3>5. ASSUME NEW n \in Nodes, TakeLease(d, n)
          PROVE  task' \in [Dispatchers -> Task] /\ InHandOK'
      BY <1>4, <3>5, TakeLeaseMoves
    <3> QED
      BY <1>8, <3>2, <3>3, <3>4, <3>5
  <2>2. UNCHANGED <<invoked, applied, answers>>
    BY <1>8 DEF NameAttempt, Admit, RecordAnswer, RecordingLost, TakeLease
  <2> QED
    BY <1>1, <1>2, <2>1, <2>2 DEF DispatchTypeOK
<1>9. ASSUME NEW d \in Dispatchers, NEW answer \in Classes \cup {"success"}, Invoke(d, answer)
      PROVE  DispatchTypeOK' /\ InHandOK'
  <2>1. task[d].node \in Nodes
    BY <1>9 DEF Invoke, InHand, InHandOK
  <2>2. task' \in [Dispatchers -> Task] /\ InHandOK'
    BY <1>4, <1>9, <2>1, InvokeMoves
  <2>3. invoked' \in [Nodes -> Seq(Nat)] /\ applied' \in [Nodes -> Nat]
    BY <1>9, <2>1, InvokeCalls, CalledType
  <2>4. answers' = answers
    BY <1>9 DEF Invoke
  <2> QED
    BY <1>1, <1>2, <2>2, <2>3, <2>4 DEF DispatchTypeOK
<1> QED
  BY <1>5, <1>6, <1>7, <1>8, <1>9 DEF DispatchNext, DispatchStep, Mishap

-----------------------------------------------------------------------------
(* What each change of the run does to what the dispatchers rely on.       *)

\* No attempt is taken back, and one that is doubtful or spent stays so.
RunEases ==
    \A n \in Nodes :
        /\ Len(run'.node[n].attempts) >= Len(run.node[n].attempts)
        /\ n \in AtRisk =>
            /\ Doubtful(run.node[n].attempts) => Doubtful(run'.node[n].attempts)
            /\ Spent(run.node[n].attempts) => Spent(run'.node[n].attempts)

\* Nobody begins to work, and whoever goes on has not been answered since.
HandsEase ==
    \A d \in Dispatchers :
        \/ task'[d] = task[d]
        \/ task'[d].stage \in {"idle", "recorded"}
        \/ /\ task[d].stage \in {"leased", "named", "admitted"}
           /\ task'[d].stage \in {"named", "admitted"}
           /\ task'[d].node = task[d].node

LEMMA AttemptsOfRun ==
    ASSUME TypeOK, NEW n \in Nodes
    PROVE  /\ run.node[n] \in NodeRun /\ run.node[n].attempts \in Seq(Attempt)
           /\ Len(run.node[n].attempts) \in Nat
BY LenProperties DEF TypeOK, Run, NodeRun

(* No attempt at an unkeyed mutation can begin once the last one is spent. *)
LEMMA SpentIsNotReady ==
    ASSUME RunInv, NEW n \in AtRisk, Spent(run.node[n].attempts)
    PROVE  run.node[n].state \notin {"waiting", "ready"}
<1> DEFINE nr == run.node[n]
           last == Len(nr.attempts)
<1>1. n \in Nodes
  BY AggregateAssumption DEF AtRisk
<1>2. last \in Nat /\ last > 0 /\ last \in 1..last
  BY <1>1, AttemptsOfRun DEF RunInv, Spent, Doubtful
<1>3. NodeCoherent(nr) /\ NodeUnrepeated(n, nr)
  BY <1>1 DEF RunInv, RunCoherent
<1>4. CASE IsOpen(nr.attempts[last])
  BY <1>2, <1>3, <1>4 DEF NodeCoherent
<1>5. CASE nr.attempts[last].failure \in AmbiguousClasses
  BY <1>2, <1>3, <1>5 DEF NodeUnrepeated, AtRisk
<1>6. CASE nr.attempts[last].outcome = "succeeded"
  BY <1>2, <1>3, <1>6 DEF NodeCoherent
<1> QED
  BY <1>4, <1>5, <1>6 DEF Spent, Doubtful

LEMMA SameNodesEase ==
    ASSUME TypeOK, run'.node = run.node
    PROVE  RunEases
BY AttemptsOfRun DEF RunEases

LEMMA ReclaimEases ==
    ASSUME RunInv, NEW n \in Nodes, run.node[n].state = "leased", run' = Reclaimed(run, n)
    PROVE  RunEases
<1> DEFINE old == run.node[n]
           new == Abandoned(old)
           last == Len(old.attempts)
<1>1. TypeOK /\ run \in Run /\ old \in NodeRun /\ NodeCoherent(old)
  BY AttemptsOfRun DEF RunInv, TypeOK, RunCoherent
<1>2. "unknown" \in NodeState /\ "unknown_outcome" \in FailureClass \cup {NoFailure}
      /\ "unknown_outcome" \in AmbiguousClasses
  BY DEF NodeState, FailureClass, AmbiguousClasses
<1>3. new \in NodeRun /\ new.attempts = CloseCurrent(old.attempts, "unknown", "unknown_outcome")
  BY <1>1, AbandonedType DEF Abandoned
<1>4. /\ Len(new.attempts) = last /\ last \in Nat \ {0}
      /\ new.attempts[last].failure = "unknown_outcome"
  BY <1>1, <1>2, <1>3, CloseCurrentLast
<1>5. Doubtful(new.attempts)
  BY <1>2, <1>4 DEF Doubtful
<1>6. \A m \in Nodes : run'.node[m].attempts =
        IF m = n THEN new.attempts ELSE run.node[m].attempts
  BY <1>1, <1>3, WithRunAttempts DEF Reclaimed
<1> QED
  BY <1>1, <1>4, <1>5, <1>6, AttemptsOfRun DEF RunEases, Spent

LEMMA RestateEases ==
    ASSUME RunInv, NEW n \in Nodes, NEW s \in NodeState,
           run' = WithRun(run, n, [run.node[n] EXCEPT !.state = s])
    PROVE  RunEases
<1> DEFINE new == [run.node[n] EXCEPT !.state = s]
<1>1. TypeOK /\ run \in Run /\ run.node[n] \in NodeRun
  BY AttemptsOfRun DEF RunInv, TypeOK
<1>2. /\ new \in NodeRun /\ new.attempts = run.node[n].attempts
      /\ run' = WithRun(run, n, new)
  BY <1>1 DEF NodeRun
<1> HIDE DEF new
<1>3. \A m \in Nodes : run'.node[m].attempts = run.node[m].attempts
  BY <1>1, <1>2, WithRunAttempts
<1> QED
  BY <1>1, <1>3, AttemptsOfRun DEF RunEases

LEMMA OperateEases ==
    ASSUME RunInv, Operate
    PROVE  RunEases
<1>1. TypeOK /\ run \in Run
  BY DEF RunInv, TypeOK
<1>2. ASSUME NEW to, run' = MovedTo(run, to)
      PROVE  RunEases
  BY <1>1, <1>2, SameNodesEase DEF MovedTo, Run
<1>3. CASE Pause \/ Resume \/ Complete \/ \E to \in TerminalStates : Abort(to)
  BY <1>2, <1>3 DEF Pause, Resume, Complete, Abort
<1>4. ASSUME NEW n \in Nodes, Reclaim(n, now)
      PROVE  RunEases
  BY <1>4, ReclaimEases DEF Reclaim, CanReclaim, CanAbandon
<1>5. ASSUME NEW n \in Nodes, Retry(n) \/ Skip(n) \/ Compensate(n)
      PROVE  RunEases
  BY <1>5, RestateEases DEF Retry, Skip, Compensate, Retried, Skipped, Compensated, NodeState
<1> QED
  BY <1>3, <1>4, <1>5 DEF Operate

(* Granting a lease at a node that is ready adds one attempt, in flight.   *)
LEMMA AssignEases ==
    ASSUME RunInv, NEW n \in Nodes, Assign(n, Holder, now)
    PROVE  /\ RunEases
           /\ Len(run'.node[n].attempts) = Len(run.node[n].attempts) + 1
           /\ Doubtful(run'.node[n].attempts)
           /\ run.node[n].state = "ready"
<1> DEFINE old == run.node[n]
           new == LeasedTo(old, Holder, now)
           last == Len(old.attempts)
<1>1. /\ TypeOK /\ run \in Run /\ old \in NodeRun /\ NodeCoherent(old) /\ last \in Nat
      /\ now \in Nat /\ Holder \in Workers
  BY AttemptsOfRun, DispatchAssumption DEF RunInv, TypeOK, RunCoherent
<1>2. CanLease(n, old) /\ run' = WithRun(run, n, new)
  BY DEF Assign, CanAssign, Assigned
<1>3. old.state = "ready"
  BY <1>1, <1>2 DEF CanLease, CanMove, NodeTransitions, NodeRun, NodeState
<1>4. new \in NodeRun /\ Len(new.attempts) = last + 1 /\ IsOpen(new.attempts[last + 1])
  BY <1>1, <1>2, LeasedToType, LeasedCoherent
<1>5. \A m \in Nodes : run'.node[m].attempts =
        IF m = n THEN new.attempts ELSE run.node[m].attempts
  BY <1>1, <1>2, <1>4, WithRunAttempts
<1>6. Doubtful(new.attempts)
  BY <1>1, <1>4 DEF Doubtful
<1> QED
  BY <1>1, <1>3, <1>4, <1>5, <1>6, AttemptsOfRun DEF RunEases, Spent

(* Recording an answer closes the last attempt of its node with it: unless *)
(* the answer says that nothing was done, no attempt can follow.           *)
LEMMA RecordAnswerCloses ==
    ASSUME RunInv, DispatchTypeOK, InHandOK, NEW d \in Dispatchers, RecordAnswer(d)
    PROVE  /\ \A m \in Nodes :
                /\ Len(run'.node[m].attempts) = Len(run.node[m].attempts)
                /\ m # task[d].node => run'.node[m].attempts = run.node[m].attempts
           /\ task[d].answer \in {"success"} \cup AmbiguousClasses =>
                Spent(run'.node[task[d].node].attempts)
<1> DEFINE n == task[d].node
           old == run.node[n]
           last == Len(old.attempts)
<1>1. TypeOK /\ run \in Run /\ n \in Nodes /\ task[d].answer \in {"success"} \cup Classes
  BY DEF RunInv, TypeOK, RecordAnswer, InHand, InHandOK
<1>2. old \in NodeRun /\ NodeCoherent(old)
  BY <1>1, AttemptsOfRun DEF RunInv, RunCoherent
<1>3. old.state = "leased" /\ old.lease # NoLease
  BY DEF RecordAnswer, CanRecord, HoldsLease
<1>4. PICK outcome \in {"succeeded", "failed"}, failure \in FailureClass \cup {NoFailure} :
        /\ run' \in {WithRun(run, n, Concluded(old, outcome, failure)),
                     SealedIfDone(WithRun(run, n, Concluded(old, outcome, failure)))}
        /\ task[d].answer = "success" => outcome = "succeeded"
        /\ task[d].answer # "success" => failure = task[d].answer
  BY <1>1, RunAssumption DEF RecordAnswer, SuccessRecorded, FailureRecorded
<1> DEFINE new == Concluded(old, outcome, failure)
<1>5. outcome \in NodeState
  BY DEF NodeState
<1>6. new \in NodeRun /\ new.attempts = CloseCurrent(old.attempts, outcome, failure)
  BY <1>2, <1>3, <1>5, ConcludedType DEF Concluded
<1>7. /\ Len(new.attempts) = last /\ last \in Nat \ {0}
      /\ new.attempts[last].outcome = outcome /\ new.attempts[last].failure = failure
  BY <1>2, <1>3, <1>5, <1>6, CloseCurrentLast
<1>8. run'.node = WithRun(run, n, new).node
  BY <1>1, <1>4, <1>6, WithRunType DEF SealedIfDone, MovedTo, Run
<1>9. \A m \in Nodes : run'.node[m].attempts =
        IF m = n THEN new.attempts ELSE run.node[m].attempts
  BY <1>1, <1>6, <1>8, WithRunAttempts
<1>10. task[d].answer \in {"success"} \cup AmbiguousClasses => Spent(new.attempts)
  BY <1>4, <1>7 DEF Spent, Doubtful, AmbiguousClasses
<1> QED
  BY <1>1, <1>7, <1>9, <1>10

-----------------------------------------------------------------------------
(* The hands of the dispatchers.                                           *)

LEMMA AtRiskNodes == AtRisk \subseteq Nodes
BY AggregateAssumption DEF AtRisk

LEMMA HandsEaseWorking ==
    ASSUME HandsEase, NEW d \in Dispatchers, NEW n
    PROVE  /\ Working(d, n)' => Working(d, n)
           /\ Early(d, n)' => Early(d, n)
           /\ Working(d, n)' /\ task[d].stage = "answered" =>
                task'[d].stage = "answered" /\ task'[d].answer = task[d].answer
BY DEF HandsEase, Working, Early

LEMMA CoverArithmetic ==
    ASSUME NEW calls \in Nat, NEW early \in Nat, NEW attempts \in Nat,
           NEW early1 \in Nat, NEW attempts1 \in Nat,
           calls + early <= attempts, early1 <= early, attempts1 >= attempts
    PROVE  calls + early1 <= attempts1
OBVIOUS

(* A step that neither begins an attempt, nor calls a worker, nor records  *)
(* an answer keeps the ties between hands and record.                      *)
LEMMA EaseStep ==
    ASSUME TypeOK, HandsInv, HandsEase, RunEases, invoked' = invoked, applied' = applied,
           invoked \in [Nodes -> Seq(Nat)], TypeOK'
    PROVE  HandsInv'
<1>1. OneHand'
  BY HandsEaseWorking, AtRiskNodes DEF HandsInv, OneHand, RunEases
<1>2. LandedOnce'
  BY HandsEaseWorking, AtRiskNodes DEF HandsInv, LandedOnce, RunEases
<1>3. AttemptsCover'
  <2> SUFFICES ASSUME NEW n \in Nodes
               PROVE  /\ IsFiniteSet(EarlyAt(n)')
                      /\ Len(invoked'[n]) + Cardinality(EarlyAt(n)') <= Len(run'.node[n].attempts)
    BY DEF AttemptsCover
  <2>1. EarlyAt(n)' \in SUBSET EarlyAt(n)
    BY HandsEaseWorking DEF EarlyAt
  <2>2. /\ IsFiniteSet(EarlyAt(n)) /\ IsFiniteSet(EarlyAt(n)')
        /\ Cardinality(EarlyAt(n)') <= Cardinality(EarlyAt(n))
    BY <2>1, FS_Subset DEF HandsInv, AttemptsCover
  <2>3. Cardinality(EarlyAt(n)') \in Nat /\ Cardinality(EarlyAt(n)) \in Nat
    BY <2>2, FS_CardinalityType
  <2>4. Len(invoked[n]) \in Nat /\ Len(run.node[n].attempts) \in Nat
    BY AttemptsOfRun, LenProperties
  <2>5. Len(run'.node[n].attempts) \in Nat
    <3>1. run'.node[n].attempts \in Seq(Attempt)
      BY DEF TypeOK, Run, NodeRun
    <3> QED
      BY <3>1, LenProperties
  <2>6. Len(invoked[n]) + Cardinality(EarlyAt(n)) <= Len(run.node[n].attempts)
        /\ Len(run'.node[n].attempts) >= Len(run.node[n].attempts)
    BY DEF HandsInv, AttemptsCover, RunEases
  <2>7. Len(invoked[n]) + Cardinality(EarlyAt(n)') <= Len(run'.node[n].attempts)
    BY <2>2, <2>3, <2>4, <2>5, <2>6, CoverArithmetic, Zenon
  <2> QED
    BY <2>2, <2>7
<1> QED
  BY <1>1, <1>2, <1>3 DEF HandsInv

(* Taking a lease: nobody had the node in hand, and the new attempt is the *)
(* dispatcher's own.                                                       *)
LEMMA TakeLeaseStep ==
    ASSUME RunInv, DispatchTypeOK, HandsInv, NEW d \in Dispatchers, NEW n \in Nodes, TakeLease(d, n)
    PROVE  HandsInv'
<1>1. /\ Assign(n, Holder, now) /\ InHand(d, "idle")
      /\ invoked' = invoked /\ applied' = applied
  BY DEF TakeLease
<1>2. /\ RunEases /\ Doubtful(run'.node[n].attempts)
      /\ Len(run'.node[n].attempts) = Len(run.node[n].attempts) + 1
      /\ run.node[n].state = "ready"
  BY <1>1, AssignEases
<1>3. Moves(d, "leased", n)
  BY TakeLeaseMoves
<1>4. n \in AtRisk => ~Spent(run.node[n].attempts)
  BY <1>2, SpentIsNotReady
<1>5. n \in AtRisk => \A e \in Dispatchers : ~Working(e, n)
  BY <1>4 DEF HandsInv, OneHand, Spent
<1>6. \A e \in Dispatchers, m \in Nodes :
        /\ Working(e, m)' <=> Working(e, m) \/ (e = d /\ m = n)
        /\ Early(e, m)' <=> Early(e, m) \/ (e = d /\ m = n)
        /\ e # d => task'[e] = task[e]
  BY <1>1, <1>3 DEF Moves, Working, Early, InHand
<1>7. ~Working(d, n) /\ \A m \in Nodes : ~Early(d, m)
  BY <1>1 DEF InHand, Working, Early
<1>8. OneHand'
  <2> SUFFICES ASSUME NEW m \in AtRisk, NEW e \in Dispatchers, Working(e, m)'
               PROVE  /\ Doubtful(run'.node[m].attempts)
                      /\ \A f \in Dispatchers : Working(f, m)' => f = e
    BY DEF OneHand
  <2>1. m \in Nodes
    BY AtRiskNodes
  <2>2. CASE m = n
    BY <1>2, <1>5, <1>6, <2>1, <2>2
  <2>3. CASE m # n
    BY <1>2, <1>6, <2>1, <2>3 DEF HandsInv, OneHand, RunEases
  <2> QED
    BY <2>2, <2>3
<1>9. LandedOnce'
  <2> SUFFICES ASSUME NEW m \in AtRisk
               PROVE  /\ applied[m] <= 1
                      /\ applied[m] > 0 =>
                            /\ Spent(run'.node[m].attempts)
                            /\ \A e \in Dispatchers : Working(e, m)' =>
                                 /\ task'[e].stage = "answered"
                                 /\ task'[e].answer \in {"success"} \cup AmbiguousClasses
    BY <1>1 DEF LandedOnce
  <2>1. m \in Nodes
    BY AtRiskNodes
  <2>2. CASE m = n
    BY <1>4, <2>2 DEF HandsInv, LandedOnce
  <2>3. ASSUME m # n, NEW e \in Dispatchers, Working(e, m)'
        PROVE  Working(e, m) /\ task'[e] = task[e]
    BY <1>1, <1>6, <2>1, <2>3 DEF Working, InHand
  <2>4. CASE m # n
    BY <1>2, <2>1, <2>3, <2>4 DEF HandsInv, LandedOnce, RunEases
  <2> QED
    BY <2>2, <2>4
<1>10. AttemptsCover'
  <2> SUFFICES ASSUME NEW m \in Nodes
               PROVE  /\ IsFiniteSet(EarlyAt(m)')
                      /\ Len(invoked[m]) + Cardinality(EarlyAt(m)') <= Len(run'.node[m].attempts)
    BY <1>1 DEF AttemptsCover
  <2>1. /\ IsFiniteSet(EarlyAt(m)) /\ Cardinality(EarlyAt(m)) \in Nat
        /\ Len(invoked[m]) \in Nat /\ Len(run.node[m].attempts) \in Nat
        /\ Len(invoked[m]) + Cardinality(EarlyAt(m)) <= Len(run.node[m].attempts)
    BY AttemptsOfRun, LenProperties, FS_CardinalityType
       DEF HandsInv, AttemptsCover, DispatchTypeOK, RunInv
  <2>2. Len(run'.node[m].attempts) \in Nat /\ Len(run'.node[m].attempts) >= Len(run.node[m].attempts)
    <3>1. TypeOK'
      <4>1. Assigned(run, n, Holder, now) \in Run
        BY AssignedType, DispatchAssumption DEF RunInv, TypeOK
      <4> QED
        BY <1>1, <4>1 DEF Assign, RunInv, TypeOK
    <3>2. run'.node[m].attempts \in Seq(Attempt)
      BY <3>1 DEF TypeOK, Run, NodeRun
    <3> QED
      BY <1>2, <3>2, LenProperties DEF RunEases
  <2>3. CASE m = n
    <3>1. EarlyAt(m)' = EarlyAt(m) \cup {d} /\ d \notin EarlyAt(m)
      BY <1>6, <1>7, <2>3 DEF EarlyAt
    <3>2. IsFiniteSet(EarlyAt(m)') /\ Cardinality(EarlyAt(m)') = Cardinality(EarlyAt(m)) + 1
      BY <2>1, <3>1, FS_AddElement
    <3> HIDE DEF EarlyAt
    <3> QED
      BY <1>2, <2>1, <2>3, <3>2
  <2>4. CASE m # n
    <3>1. EarlyAt(m)' = EarlyAt(m)
      BY <1>6, <2>4 DEF EarlyAt
    <3>2. Cardinality(EarlyAt(m)) <= Cardinality(EarlyAt(m))
      BY <2>1
    <3>3. Len(invoked[m]) + Cardinality(EarlyAt(m)) <= Len(run'.node[m].attempts)
      BY <2>1, <2>2, <3>2, CoverArithmetic, Zenon
    <3> QED
      BY <2>1, <3>1, <3>3, Zenon
  <2> QED
    BY <2>3, <2>4
<1> QED
  BY <1>8, <1>9, <1>10 DEF HandsInv

LEMMA OnlyHand ==
    ASSUME HandsInv, NEW n \in AtRisk, NEW d \in Dispatchers, Working(d, n)
    PROVE  /\ Doubtful(run.node[n].attempts) /\ Spent(run.node[n].attempts)
           /\ \A e \in Dispatchers : Working(e, n) => e = d
           /\ applied[n] > 0 =>
                /\ task[d].stage = "answered"
                /\ task[d].answer \in {"success"} \cup AmbiguousClasses
BY DEF HandsInv, OneHand, LandedOnce, Spent

(* Calling the worker: the dispatcher that calls is the only one that has  *)
(* the node in hand and nothing landed before, so at most one change lands *)
(* and only an answer that says so, or nobody, is left to report it.       *)
LEMMA CallStep ==
    ASSUME RunInv, DispatchTypeOK, InHandOK, HandsInv, run' = run,
           NEW d \in Dispatchers, InHand(d, "admitted"), Called(d),
           \A e \in Dispatchers : e # d => task'[e] = task[e],
           \/ task'[d].stage = "idle"
           \/ /\ task'[d].stage = "answered" /\ task'[d].node = task[d].node
              /\ applied' # applied => task'[d].answer \in {"success"} \cup AmbiguousClasses
    PROVE  HandsInv'
<1>0. PICK n \in Nodes : n = task[d].node
  BY DEF InHand, InHandOK
<1>1. /\ invoked \in [Nodes -> Seq(Nat)] /\ applied \in [Nodes -> Nat]
      /\ task[d].named \in Nat
  BY DEF InHand, InHandOK, DispatchTypeOK, Task
<1>2. Working(d, n) /\ Early(d, n) /\ task[d].stage = "admitted"
  BY <1>0 DEF InHand, Working, Early
<1>3. PICK landed \in {0, 1} :
        /\ applied' = [applied EXCEPT ![n] = applied[n] + landed]
        /\ invoked' = [invoked EXCEPT ![n] = Append(invoked[n], task[d].named)]
  BY <1>0 DEF Called
<1>4. \A m \in Nodes : m # n => applied'[m] = applied[m] /\ invoked'[m] = invoked[m]
  BY <1>1, <1>3
<1>5. applied'[n] = applied[n] + landed /\ Len(invoked'[n]) = Len(invoked[n]) + 1
  BY <1>1, <1>3, AppendProperties
<1>6. \A e \in Dispatchers, m \in Nodes :
        /\ Working(e, m)' => Working(e, m)
        /\ Early(e, m)' <=> Early(e, m) /\ e # d
  BY <1>0 DEF InHand, Working, Early
<1>7. OneHand'
  BY <1>6, AtRiskNodes DEF HandsInv, OneHand
<1>8. LandedOnce'
  <2> SUFFICES ASSUME NEW m \in AtRisk
               PROVE  /\ applied'[m] <= 1
                      /\ applied'[m] > 0 =>
                            /\ Spent(run.node[m].attempts)
                            /\ \A e \in Dispatchers : Working(e, m)' =>
                                 /\ task'[e].stage = "answered"
                                 /\ task'[e].answer \in {"success"} \cup AmbiguousClasses
    BY DEF LandedOnce
  <2>1. m \in Nodes
    BY AtRiskNodes
  <2>2. CASE m # n
    <3>1. applied'[m] = applied[m]
      BY <1>4, <2>1, <2>2
    <3>2. \A e \in Dispatchers : Working(e, m)' => Working(e, m) /\ task'[e] = task[e]
      BY <1>0, <1>6, <2>1, <2>2 DEF Working
    <3> QED
      BY <3>1, <3>2 DEF HandsInv, LandedOnce
  <2>3. CASE m = n
    <3>1. ~(applied[n] > 0)
      BY <1>2, <2>3, OnlyHand
    <3>2. applied[n] = 0
      BY <1>1, <3>1
    <3>3. applied'[n] = landed
      BY <1>5, <3>2
    <3>4. Spent(run.node[n].attempts) /\ \A e \in Dispatchers : Working(e, n)' => e = d
      BY <1>2, <1>6, <2>1, <2>3, OnlyHand
    <3>5. applied'[n] > 0 => applied' # applied
      BY <3>2
    <3>6. applied'[n] > 0 /\ Working(d, n)' =>
            /\ task'[d].stage = "answered"
            /\ task'[d].answer \in {"success"} \cup AmbiguousClasses
      BY <3>5 DEF Working
    <3>7. landed <= 1
      OBVIOUS
    <3> QED
      BY <2>3, <3>3, <3>4, <3>6, <3>7
  <2> QED
    BY <2>2, <2>3
<1>9. AttemptsCover'
  <2> SUFFICES ASSUME NEW m \in Nodes
               PROVE  /\ IsFiniteSet(EarlyAt(m)')
                      /\ Len(invoked'[m]) + Cardinality(EarlyAt(m)') <= Len(run.node[m].attempts)
    BY DEF AttemptsCover
  <2>1. /\ IsFiniteSet(EarlyAt(m)) /\ Cardinality(EarlyAt(m)) \in Nat
        /\ Len(invoked[m]) \in Nat
        /\ Len(invoked[m]) + Cardinality(EarlyAt(m)) <= Len(run.node[m].attempts)
    BY <1>1, LenProperties, FS_CardinalityType DEF HandsInv, AttemptsCover
  <2>2. EarlyAt(m)' = EarlyAt(m) \ {d}
    BY <1>6 DEF EarlyAt
  <2>3. IsFiniteSet(EarlyAt(m)') /\ Cardinality(EarlyAt(m)') =
          IF d \in EarlyAt(m) THEN Cardinality(EarlyAt(m)) - 1 ELSE Cardinality(EarlyAt(m))
    BY <2>1, <2>2, FS_RemoveElement
  <2>4. d \in EarlyAt(m) <=> m = n
    BY <1>0, <1>2 DEF EarlyAt, Early
  <2>5. Len(run.node[m].attempts) \in Nat
    BY AttemptsOfRun DEF RunInv
  <2>6. CASE m = n
    <3>1. \A calls, early, attempts \in Nat :
            calls + early <= attempts => (calls + 1) + (early - 1) <= attempts
      OBVIOUS
    <3>2. Len(invoked'[m]) = Len(invoked[m]) + 1
          /\ Cardinality(EarlyAt(m)') = Cardinality(EarlyAt(m)) - 1
      BY <1>5, <2>3, <2>4, <2>6
    <3>3. (Len(invoked[m]) + 1) + (Cardinality(EarlyAt(m)) - 1) <= Len(run.node[m].attempts)
      BY <2>1, <2>5, <3>1, Zenon
    <3> QED
      BY <2>3, <3>2, <3>3, Zenon
  <2>7. CASE m # n
    <3>1. invoked'[m] = invoked[m] /\ Cardinality(EarlyAt(m)') = Cardinality(EarlyAt(m))
      BY <1>4, <2>3, <2>4, <2>7
    <3> QED
      BY <2>1, <2>3, <3>1, Zenon
  <2> QED
    BY <2>6, <2>7
<1> QED
  BY <1>7, <1>8, <1>9 DEF HandsInv

(* Recording: the attempt closes with the answer, and whoever recorded it  *)
(* was the only one with the node in hand.                                 *)
LEMMA RecordStep ==
    ASSUME RunInv, DispatchTypeOK, InHandOK, HandsInv, NEW d \in Dispatchers, RecordAnswer(d)
    PROVE  HandsInv'
<1>0. PICK n \in Nodes : n = task[d].node
  BY DEF RecordAnswer, InHand, InHandOK
<1>1. /\ Working(d, n) /\ task[d].stage = "answered"
      /\ invoked' = invoked /\ applied' = applied
  BY <1>0 DEF RecordAnswer, InHand, Working
<1>2. Moves(d, "recorded", n)
  BY <1>0, RecordedMoves DEF RunInv
<1>3. /\ \A m \in Nodes :
            /\ Len(run'.node[m].attempts) = Len(run.node[m].attempts)
            /\ m # n => run'.node[m].attempts = run.node[m].attempts
      /\ task[d].answer \in {"success"} \cup AmbiguousClasses => Spent(run'.node[n].attempts)
  BY <1>0, RecordAnswerCloses
<1>4. \A e \in Dispatchers, m \in Nodes :
        /\ Working(e, m)' <=> Working(e, m) /\ e # d
        /\ Early(e, m)' <=> Early(e, m)
        /\ Working(e, m)' => task'[e] = task[e]
  BY <1>1, <1>2 DEF Moves, Working, Early
<1>5. n \in AtRisk => \A e \in Dispatchers : ~Working(e, n)'
  BY <1>1, <1>4, OnlyHand
<1>6. OneHand'
  <2> SUFFICES ASSUME NEW m \in AtRisk, NEW e \in Dispatchers, Working(e, m)'
               PROVE  /\ Doubtful(run'.node[m].attempts)
                      /\ \A f \in Dispatchers : Working(f, m)' => f = e
    BY DEF OneHand
  <2>1. m \in Nodes /\ m # n /\ Working(e, m)
    BY <1>4, <1>5, AtRiskNodes
  <2>2. run'.node[m].attempts = run.node[m].attempts
    BY <1>3, <2>1
  <2> QED
    BY <1>4, <2>1, <2>2, OnlyHand
<1>7. LandedOnce'
  <2> SUFFICES ASSUME NEW m \in AtRisk
               PROVE  /\ applied[m] <= 1
                      /\ applied[m] > 0 =>
                            /\ Spent(run'.node[m].attempts)
                            /\ \A e \in Dispatchers : Working(e, m)' =>
                                 /\ task'[e].stage = "answered"
                                 /\ task'[e].answer \in {"success"} \cup AmbiguousClasses
    BY <1>1 DEF LandedOnce
  <2>1. m \in Nodes
    BY AtRiskNodes
  <2>2. CASE m = n
    <3>1. applied[n] > 0 => Spent(run'.node[n].attempts)
      BY <1>1, <1>3, <2>2, OnlyHand
    <3>2. applied[n] <= 1
      BY <2>2 DEF HandsInv, LandedOnce
    <3> QED
      BY <1>5, <2>2, <3>1, <3>2
  <2>3. CASE m # n
    BY <1>3, <1>4, <2>1, <2>3 DEF HandsInv, LandedOnce
  <2> QED
    BY <2>2, <2>3
<1>8. AttemptsCover'
  <2>1. \A m \in Nodes : EarlyAt(m)' = EarlyAt(m)
    BY <1>4 DEF EarlyAt
  <2> SUFFICES ASSUME NEW m \in Nodes
               PROVE  /\ IsFiniteSet(EarlyAt(m)')
                      /\ Len(invoked'[m]) + Cardinality(EarlyAt(m)') <= Len(run'.node[m].attempts)
    BY DEF AttemptsCover
  <2>2. /\ IsFiniteSet(EarlyAt(m))
        /\ Len(invoked[m]) + Cardinality(EarlyAt(m)) <= Len(run.node[m].attempts)
    BY DEF HandsInv, AttemptsCover
  <2> QED
    BY <1>1, <1>3, <2>1, <2>2, Zenon
<1> QED
  BY <1>6, <1>7, <1>8 DEF HandsInv

-----------------------------------------------------------------------------
(* The invariant of the dispatchers.                                       *)

LEMMA DispatchInvInit ==
    ASSUME DispatchInit
    PROVE  DispatchInv
<1>1. RunInv /\ TypeOK
  BY RunInvInit, InitType DEF DispatchInit
<1>2. \A d \in Dispatchers : task[d] = Resting({})
  BY DEF DispatchInit
<1>3. DispatchTypeOK /\ InHandOK
  <2>1. task \in [Dispatchers -> Task] /\ \A d \in Dispatchers : task[d].stage = "idle"
    BY <1>2, RestingIsTask DEF DispatchInit
  <2>2. invoked \in [Nodes -> Seq(Nat)] /\ applied \in [Nodes -> Nat] /\ answers = {}
    BY EmptySeq DEF DispatchInit
  <2> QED
    BY <1>1, <2>1, <2>2 DEF DispatchTypeOK, InHandOK
<1>4. \A d \in Dispatchers, n \in Nodes : ~Working(d, n) /\ ~Early(d, n)
  BY <1>2, RestingIsTask DEF Working, Early
<1>5. OneHand /\ LandedOnce
  BY <1>4, AtRiskNodes DEF OneHand, LandedOnce, DispatchInit
<1>6. AttemptsCover
  <2> SUFFICES ASSUME NEW n \in Nodes
               PROVE  /\ IsFiniteSet(EarlyAt(n))
                      /\ Len(invoked[n]) + Cardinality(EarlyAt(n)) <= Len(run.node[n].attempts)
    BY DEF AttemptsCover
  <2>1. EarlyAt(n) = {}
    BY <1>4 DEF EarlyAt
  <2>2. invoked[n] = <<>> /\ run.node[n].attempts = <<>> /\ Len(<<>>) = 0
    BY EmptySeq DEF DispatchInit, Init, Started
  <2>3. 0 + 0 <= 0
    OBVIOUS
  <2> QED
    BY <2>1, <2>2, <2>3, FS_EmptySet, Zenon
<1> QED
  BY <1>1, <1>3, <1>5, <1>6 DEF DispatchInv, HandsInv

LEMMA HandsStep ==
    ASSUME DispatchInv, [DispatchNext]_dispatchVars
    PROVE  HandsInv'
<1>1. /\ RunInv /\ TypeOK /\ DispatchTypeOK /\ InHandOK /\ HandsInv
      /\ task \in [Dispatchers -> Task]
      /\ invoked \in [Nodes -> Seq(Nat)] /\ applied \in [Nodes -> Nat]
  BY DEF DispatchInv, RunInv, DispatchTypeOK
<1>2. TypeOK'
  BY <1>1, DispatchStepRefines, TypeStep
<1>3. ASSUME HandsEase, RunEases, UNCHANGED <<invoked, applied>>
      PROVE  HandsInv'
  BY <1>1, <1>2, <1>3, EaseStep
<1>4. ASSUME NEW d \in Dispatchers, NEW stage, NEW node, Moves(d, stage, node),
             \/ stage \in {"idle", "recorded"}
             \/ /\ task[d].stage \in {"leased", "named", "admitted"}
                /\ stage \in {"named", "admitted"} /\ node = task[d].node
      PROVE  HandsEase
  BY <1>4 DEF Moves, HandsEase
<1>5. run' = run => RunEases
  BY <1>1, SameNodesEase
<1>6. CASE (Tick /\ UNCHANGED taskVars) \/ Operate \/ UNCHANGED dispatchVars
  <2>1. RunEases
    BY <1>1, <1>5, <1>6, OperateEases DEF Tick, dispatchVars
  <2>2. HandsEase /\ UNCHANGED <<invoked, applied>>
    BY <1>6 DEF Operate, taskVars, dispatchVars, HandsEase
  <2> QED
    BY <1>3, <2>1, <2>2
<1>7. ASSUME NEW d \in Dispatchers,
             \/ Discover(d) \/ RequestUnavailable(d) \/ Classify(d)
             \/ \E n \in Nodes : LoseLease(d, n)
      PROVE  HandsInv'
  <2>1. HandsEase
    BY <1>1, <1>4, <1>7, IdleMoves
  <2> QED
    BY <1>3, <1>5, <1>7, <2>1 DEF Discover, RequestUnavailable, Classify, LoseLease
<1>8. ASSUME NEW d \in Dispatchers, Refuse(d)
      PROVE  HandsInv'
  <2>1. HandsEase
    BY <1>1, <1>4, <1>8, IdleMoves
  <2>2. task[d].node \in Nodes
    BY <1>1, <1>8 DEF Refuse, InHand, InHandOK
  <2>3. RunEases
    BY <1>1, <1>5, <1>8, <2>2, ReclaimEases DEF Refuse, CanReclaim, CanAbandon
  <2> QED
    BY <1>3, <1>8, <2>1, <2>3 DEF Refuse
<1>9. ASSUME NEW d \in Dispatchers, NameAttempt(d) \/ Admit(d) \/ RecordingLost(d)
      PROVE  HandsInv'
  <2>1. HandsEase
    <3>1. CASE NameAttempt(d)
      BY <1>1, <1>4, <3>1, NameMoves DEF NameAttempt, InHand
    <3>2. CASE Admit(d)
      BY <1>1, <1>4, <3>2, AdmitMoves DEF Admit, InHand
    <3>3. CASE RecordingLost(d)
      BY <1>1, <1>4, <3>3, RecordedMoves
    <3> QED
      BY <1>9, <3>1, <3>2, <3>3
  <2> QED
    BY <1>3, <1>5, <1>9, <2>1 DEF NameAttempt, Admit, RecordingLost
<1>10. ASSUME NEW d \in Dispatchers, Crash(d)
       PROVE  HandsInv'
  <2>1. Moves(d, "idle", task'[d].node) /\ run' = run
    BY <1>1, <1>10, IdleMoves DEF Crash
  <2>2. CASE InHand(d, "admitted")
    BY <1>1, <1>10, <2>1, <2>2, InvokeCalls, CallStep DEF Moves
  <2>3. CASE ~InHand(d, "admitted")
    BY <1>3, <1>4, <1>5, <1>10, <2>1, <2>3 DEF Crash
  <2> QED
    BY <2>2, <2>3
<1>11. ASSUME NEW d \in Dispatchers, NEW answer \in Classes \cup {"success"}, Invoke(d, answer)
       PROVE  HandsInv'
  <2>1. /\ Moves(d, "answered", task[d].node) /\ task'[d].answer = answer
        /\ run' = run /\ InHand(d, "admitted") /\ Called(d)
    BY <1>1, <1>11, InvokeMoves, InvokeCalls DEF Invoke
  <2>2. applied' # applied => answer \in {"success"} \cup AmbiguousClasses
    <3> SUFFICES ASSUME answer \notin {"success"} \cup AmbiguousClasses
                 PROVE  applied' = applied
      OBVIOUS
    <3>1. applied' = [applied EXCEPT ![task[d].node] = applied[task[d].node] + 0]
      BY <1>11 DEF Invoke
    <3>2. task[d].node \in Nodes
      BY <1>1, <2>1 DEF InHand, InHandOK
    <3> QED
      BY <1>1, <3>1, <3>2
  <2> QED
    BY <1>1, <2>1, <2>2, CallStep DEF Moves
<1>12. ASSUME NEW d \in Dispatchers, RecordAnswer(d) \/ \E n \in Nodes : TakeLease(d, n)
       PROVE  HandsInv'
  BY <1>1, <1>12, RecordStep, TakeLeaseStep
<1> QED
  BY <1>6, <1>7, <1>8, <1>9, <1>10, <1>11, <1>12 DEF DispatchNext, DispatchStep, Mishap

LEMMA DispatchInvStep ==
    ASSUME DispatchInv, [DispatchNext]_dispatchVars
    PROVE  DispatchInv' /\ [Next]_vars
<1>1. RunInv /\ TypeOK /\ DispatchTypeOK /\ InHandOK
  BY DEF DispatchInv, RunInv
<1>2. [Next]_vars
  BY <1>1, DispatchStepRefines
<1>3. RunInv'
  BY <1>1, <1>2, RunInvStep
<1>4. DispatchTypeOK' /\ InHandOK'
  BY <1>1, DispatchTypeStep
<1> QED
  BY <1>2, <1>3, <1>4, HandsStep DEF DispatchInv

LEMMA DispatchInvariant == DispatchSpec => []DispatchInv
<1>1. DispatchInit => DispatchInv
  BY DispatchInvInit
<1>2. DispatchInv /\ [DispatchNext]_dispatchVars => DispatchInv'
  BY DispatchInvStep
<1> QED
  BY <1>1, <1>2, PTL DEF DispatchSpec

-----------------------------------------------------------------------------
(* What the dispatchers guarantee together.                                *)

(* Whatever dispatchers, operators and the clock do to each other, the run *)
(* only ever takes steps of the atomic service.                            *)
THEOREM DispatchImplementsRun == DispatchSpec => Spec
<1>1. DispatchInit => DispatchInv /\ Init
  BY DispatchInvInit DEF DispatchInit
<1>2. DispatchInv /\ [DispatchNext]_dispatchVars => DispatchInv' /\ [Next]_vars
  BY DispatchInvStep
<1> QED
  BY <1>1, <1>2, PTL DEF DispatchSpec, Spec

(* The state of dispatchers and their histories is well formed.            *)
THEOREM DispatchTypeCorrect == DispatchSpec => []DispatchTypeOK
<1>1. DispatchInv => DispatchTypeOK
  BY DEF DispatchInv
<1> QED
  BY <1>1, DispatchInvariant, PTL

(* A mutation without an idempotency key lands at most once, however many  *)
(* dispatchers run, stall, crash, and whatever operators do in between.    *)
THEOREM LandsAtMostOnce == DispatchSpec => []AtMostOnce
<1>1. DispatchInv => AtMostOnce
  BY DEF DispatchInv, HandsInv, LandedOnce, AtMostOnce, AtRisk
<1> QED
  BY <1>1, DispatchInvariant, PTL

(* A change that landed is never on record as a definite failure.          *)
THEOREM LandedOnRecord == DispatchSpec => []LandedIsOnRecord
<1>1. ASSUME DispatchInv, NEW n \in AtRisk, applied[n] > 0
      PROVE  \E i \in 1..Len(run.node[n].attempts) :
                LET attempt == run.node[n].attempts[i]
                IN  \/ IsOpen(attempt)
                    \/ attempt.outcome = "succeeded"
                    \/ attempt.failure \in AmbiguousClasses
  <2> DEFINE last == Len(run.node[n].attempts)
  <2>1. last \in Nat
    BY <1>1, AtRiskNodes, AttemptsOfRun DEF DispatchInv, RunInv
  <2>2. Spent(run.node[n].attempts)
    BY <1>1 DEF DispatchInv, HandsInv, LandedOnce
  <2>3. last \in 1..last
    BY <2>1, <2>2 DEF Spent, Doubtful
  <2> QED
    BY <2>2, <2>3 DEF Spent, Doubtful
<1>2. DispatchInv => LandedIsOnRecord
  BY <1>1 DEF LandedIsOnRecord, AtRisk
<1> QED
  BY <1>2, DispatchInvariant, PTL

(* The record counts every time a worker was sent out.                     *)
THEOREM EveryInvocationOnRecord == DispatchSpec => []InvocationsOnRecord
<1>1. ASSUME DispatchInv, NEW n \in Nodes
      PROVE  Len(invoked[n]) <= Len(run.node[n].attempts)
  <2>1. /\ Len(invoked[n]) + Cardinality(EarlyAt(n)) <= Len(run.node[n].attempts)
        /\ Cardinality(EarlyAt(n)) \in Nat
    BY <1>1, FS_CardinalityType DEF DispatchInv, HandsInv, AttemptsCover
  <2>2. Len(invoked[n]) \in Nat /\ Len(run.node[n].attempts) \in Nat
    BY <1>1, AttemptsOfRun, LenProperties DEF DispatchInv, DispatchTypeOK
  <2>3. \A calls, early, attempts \in Nat : calls + early <= attempts => calls <= attempts
    OBVIOUS
  <2> QED
    BY <2>1, <2>2, <2>3, Zenon
<1>2. DispatchInv => InvocationsOnRecord
  BY <1>1 DEF InvocationsOnRecord
<1> QED
  BY <1>2, DispatchInvariant, PTL

(* An unkeyed mutation is in the hands of one dispatcher at a time.        *)
THEOREM OneDispatcherInFlight == DispatchSpec => []OneInFlight
<1>1. DispatchInv => OneInFlight
  BY DEF DispatchInv, HandsInv, OneHand, OneInFlight, Working, AtRisk
<1> QED
  BY <1>1, DispatchInvariant, PTL

=============================================================================
