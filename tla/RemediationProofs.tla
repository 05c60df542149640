--------------------------- MODULE RemediationProofs ---------------------------
(***************************************************************************)
(* What the remediation runtime promises for any number of processes,      *)
(* plans, runs and mishaps.                                                *)
(*                                                                         *)
(* Three arguments carry it.  The action key: a plan is in the hands of    *)
(* the one process that claimed it until its one run is started.  The      *)
(* tally: what landed was asked for, what was asked for was started.  The  *)
(* generation: an effect moves the target past the generation its plan was *)
(* made for, so of all the plans that took effect each was proposed, and   *)
(* counted, after the one before it was on record.                         *)
(***************************************************************************)
EXTENDS Remediation, SequenceTheorems, FiniteSetTheorems, TLAPS

USE ApprovalAssumption, GovernedWriteAssumption, RoutesAssumption, RemediationAssumption

RunsOf(a) == {r \in DOMAIN runs : runs[r].approval = a}

\* The runs of a that may yet be asked for, and those the worker has.
Unasked(a) == RunsIn(a, {"bound", "admitted"})
Invoked(a) == RunsIn(a, {"invoked"})

Granted(a) == approvals[a].outcome \in {"granted", "withdrawn"}

\* From the grant to the write; after the count; under the action key.
Settling == {"counting", "claiming", "checking", "fencing", "executing", "writing"}
Has(i, p, steps) == task[i].plan = p /\ task[i].at \in steps
Committing(i, p) == Has(i, p, Settling \ {"counting"})
Holds(i, p) == Has(i, p, {"checking", "fencing", "executing", "writing"})
Writing(i, p) == Has(i, p, {"writing"})

-----------------------------------------------------------------------------
(* The invariant.                                                          *)

\* RemediationTypeOK, its counters not bounded yet.
Typed ==
    /\ ApprovalTypeOK
    /\ runs \in Seq(Run) /\ Len(runs) <= MaxRuns
    /\ generation \in 1..MaxGeneration
    /\ asked \in [Approvals -> Nat] /\ landed \in [Approvals -> Nat]
    /\ ledger \in [Plans -> Ledger]
    /\ actionKeys \subseteq Plans /\ fenced \subseteq 1..MaxGeneration
    /\ pending \in [Instances -> SUBSET Plans]
    /\ todo \in [Instances -> SUBSET Plans]
    /\ task \in [Instances -> Task]
    /\ lost \in 0..mishaps

\* A plan was made for a generation there was; what is carried out was granted.
PlansNamed ==
    /\ \A p \in Plans : approvals[p].outcome # "absent" => approvals[p].expects \in 1..generation
    /\ \A i \in Instances :
          /\ task[i].at \notin {"down", "resuming", "idle"} => task[i].plan \in Plans
          /\ task[i].at \in Settling => Granted(task[i].plan)
    /\ \A r \in DOMAIN runs : Granted(runs[r].approval)

OneRunEach ==
    \A p \in Plans :
        /\ p \notin actionKeys => RunsOf(p) = {}
        /\ \A i \in Instances : Holds(i, p) =>
              /\ p \in actionKeys
              /\ RunsOf(p) = {}
              /\ \A j \in Instances : Holds(j, p) => j = i
        /\ \A r, s \in RunsOf(p) : r = s

\* No run, and none to come.
NeverRun(p) ==
    /\ RunsOf(p) = {}
    /\ \/ approvals[p].outcome \in {"denied", "withdrawn"} \/ approvals[p].expired
       \/ p \in actionKeys /\ \A i \in Instances : ~Holds(i, p)

ClosedUnstarted(p) == ledger[p].closed \cap {"stale", "fenced", "denied", "expired"} # {}
UnstartedNeverRun == \A p \in Plans : ClosedUnstarted(p) => NeverRun(p)

Tallied(a) ==
    /\ asked[a] + Cardinality(Unasked(a)) <= Cardinality(RunsOf(a))
    /\ landed[a] + Cardinality(Invoked(a)) <= asked[a]
Tally == \A a \in Approvals : Tallied(a)

Effective == {p \in Plans : landed[p] > 0}
Earlier(p) == {q \in Effective : approvals[q].expects < approvals[p].expects}
Executed == {p \in Plans : ledger[p].executing}

Committed(p) == RunsOf(p) # {} \/ \E i \in Instances : Committing(i, p)
Ventured(p) == RunsOf(p) # {} \/ \E i \in Instances : Writing(i, p)
Unrecorded == {p \in Plans : Ventured(p) /\ ~ledger[p].executing}

Budgeted ==
    /\ IsFiniteSet(Effective) /\ IsFiniteSet(Executed) /\ IsFiniteSet(Unrecorded)
    /\ \A p \in Effective : approvals[p].expects < generation
    /\ \A p \in Plans : Committed(p) => Cardinality(Earlier(p)) < MaxExecutions + lost
    /\ Cardinality(Unrecorded) <= lost
    /\ Cardinality(Effective) <= MaxExecutions + lost

-----------------------------------------------------------------------------
(* What a step may do.                                                     *)

\* To the approvals: one row is requested, decided, withdrawn, expires, is used.
RowMove(a) ==
    \/ /\ approvals[a].outcome = "absent"
       /\ \E e \in 0..MaxGeneration :
             /\ a \in Plans => e = generation
             /\ approvals' = [approvals EXCEPT ![a] =
                   [approvals[a] EXCEPT !.outcome = "pending", !.expects = e]]
    \/ \E outcome \in {"granted", "denied"} : Decide(a, outcome)
    \/ /\ approvals[a].outcome # "absent"
       /\ approvals' = [approvals EXCEPT ![a].outcome = "withdrawn"]
    \/ /\ approvals[a].outcome # "absent"
       /\ approvals' = [approvals EXCEPT ![a].expired = TRUE]
    \/ MarkConsumed(a)

ApprovalMove ==
    \/ approvals' = approvals
    \/ /\ \E a \in Approvals : RowMove(a)
       /\ UNCHANGED <<generation, asked, landed>>

\* To the runs: a plan's is started by the process that writes.
Started(a) ==
    /\ IsValidFor(a)
    /\ Len(runs) < MaxRuns
    /\ \E x \in Run : x.approval = a /\ x.state \in {"bound", "unbound"} /\ runs' = Append(runs, x)
    /\ a \in Plans => \E i \in Instances :
          /\ Writing(i, a)
          /\ task' = [task EXCEPT ![i].at = "driving"]
    /\ UNCHANGED <<approvals, generation, asked, landed, keyVars, ledger, lost>>

RunMove(r) ==
    /\ RunStep(r)
    /\ UNCHANGED <<approvals, keyVars, ledger, lost, task>>

RunsMove ==
    \/ runs' = runs /\ generation' \in generation..MaxGeneration /\ UNCHANGED <<asked, landed>>
    \/ \E r \in DOMAIN runs :
          /\ runs' = [runs EXCEPT ![r].awaited = FALSE]
          /\ UNCHANGED <<generation, asked, landed>>
    \/ \E a \in Approvals : Started(a)
    \/ \E r \in DOMAIN runs : RunMove(r)

\* To the threads.
KeysMove ==
    /\ actionKeys \subseteq actionKeys'
    /\ \A i \in Instances, p \in Plans : Holds(i, p)' =>
          \/ Holds(i, p)
          \/ /\ p \notin actionKeys /\ p \in actionKeys'
             /\ \A j \in Instances \ {i} : task'[j] = task[j]

SettlingMove ==
    \A i \in Instances :
        /\ task'[i].at \notin {"down", "resuming", "idle"} => task'[i].plan \in Plans
        /\ task'[i].at \in Settling =>
              \/ task[i].at \in Settling /\ task'[i].plan = task[i].plan
              \/ approvals'[task'[i].plan].outcome \in {"granted", "withdrawn"}

ClosingMove ==
    \A p \in Plans : ClosedUnstarted(p)' =>
        \/ ClosedUnstarted(p)
        \/ /\ UNCHANGED <<approvals, runs, actionKeys>>
           /\ \/ \E i \in Instances : Holds(i, p) /\ task' = [task EXCEPT ![i] = Idle]
              \/ approvals[p].outcome = "denied"
              \/ approvals[p].outcome = "pending" /\ approvals[p].expired

CommitMove ==
    \A i \in Instances, p \in Plans : Committing(i, p)' =>
        \/ Committing(i, p)
        \/ /\ Has(i, p, {"counting"})
           /\ UNCHANGED <<approvals, writeVars>>
           /\ Spent < MaxExecutions \/ lost' = lost + 1

RecordMove ==
    /\ lost' \in {lost, lost + 1}
    /\ \A p \in Plans : ledger[p].executing => ledger'[p].executing
    /\ \A p, q \in Plans :
          ledger'[p].executing /\ ~ledger[p].executing
              /\ ledger'[q].executing /\ ~ledger[q].executing => p = q
    /\ \A i \in Instances, p \in Plans : Writing(i, p)' =>
          \/ Writing(i, p)
          \/ ledger'[p].executing
          \/ /\ lost' = lost + 1 /\ UNCHANGED runs
             /\ \A j \in Instances \ {i} : task'[j] = task[j]

ThreadMove == KeysMove /\ SettlingMove /\ ClosingMove /\ CommitMove /\ RecordMove

-----------------------------------------------------------------------------
(* The pieces steps are made of.                                           *)

(* What is counted stays within its bounds.                                *)
LEMMA CountersMove ==
    ASSUME Typed, Told \/ Lose \/ (Mishap /\ lost' = lost)
    PROVE  /\ mishaps' \in 0..MaxMishaps /\ lost' \in 0..mishaps'
           /\ lost' \in {lost, lost + 1}
           /\ Lose => lost' = lost + 1
<1>1. /\ mishaps \in Nat /\ lost \in Nat /\ lost <= mishaps
      /\ mishaps <= MaxMishaps /\ MaxMishaps \in Nat
  BY DEF Typed, ApprovalTypeOK
<1>2. CASE Told
  BY <1>1, <1>2 DEF Told, Lose
<1>3. CASE Lose
  BY <1>1, <1>3 DEF Lose, Mishap
<1>4. CASE Mishap /\ lost' = lost
  BY <1>1, <1>4 DEF Mishap, Lose
<1> QED BY <1>2, <1>3, <1>4

(* An event that is recorded, or lost.                                     *)
LEMMA EventWrites ==
    ASSUME Typed, NEW p \in Plans, NEW stage \in Stage, Event(p, stage)
    PROVE  /\ ledger' \in [Plans -> Ledger]
           /\ \A q \in Plans : ledger'[q].closed = ledger[q].closed
           /\ \A q \in Plans : ledger[q].executing => ledger'[q].executing
           /\ \A q \in Plans : q # p => ledger'[q] = ledger[q]
           /\ stage # "executing" => ledger'[p].executing = ledger[p].executing
           /\ stage = "executing" => ledger'[p].executing \/ lost' = lost + 1
           /\ mishaps' \in 0..MaxMishaps /\ lost' \in 0..mishaps'
           /\ lost' \in {lost, lost + 1}
<1>1. ledger \in [Plans -> Ledger] /\ ledger[p] \in Ledger
  BY DEF Typed
<1>2. /\ mishaps' \in 0..MaxMishaps /\ lost' \in 0..mishaps'
      /\ lost' \in {lost, lost + 1}
      /\ Lose => lost' = lost + 1
  BY CountersMove DEF Event
<1>3. CASE Lose /\ UNCHANGED ledger
  BY <1>1, <1>2, <1>3
<1>4. CASE Told /\ ledger' = [ledger EXCEPT ![p].last = stage,
                                   ![p].executing = @ \/ stage = "executing"]
  <2>1. PICK b \in BOOLEAN : b = (ledger[p].executing \/ stage = "executing")
    OBVIOUS
  <2>2. ledger' = [ledger EXCEPT ![p] = [ledger[p] EXCEPT !.last = stage, !.executing = b]]
    BY <1>1, <1>4, <2>1 DEF Ledger
  <2>3. [ledger[p] EXCEPT !.last = stage, !.executing = b] \in Ledger
    BY <1>1, <2>1 DEF Ledger
  <2>4. /\ ledger'[p].executing = b
        /\ ledger'[p].closed = ledger[p].closed
        /\ \A q \in Plans : q # p => ledger'[q] = ledger[q]
    BY <1>1, <2>2 DEF Ledger
  <2>5. ledger' \in [Plans -> Ledger]
    BY <1>1, <2>2, <2>3
  <2>6. ledger[p].executing \in BOOLEAN
    BY <1>1 DEF Ledger
  <2> QED BY <1>2, <2>1, <2>4, <2>5, <2>6
<1> QED BY <1>3, <1>4 DEF Event

(* A plan that is closed, or whose closing is lost.                        *)
LEMMA CloseWrites ==
    ASSUME Typed, NEW p \in Plans, NEW closing \in Closing, Close(p, closing)
    PROVE  /\ ledger' \in [Plans -> Ledger]
           /\ \A q \in Plans : ledger'[q].executing = ledger[q].executing
           /\ \A q \in Plans : q # p => ledger'[q] = ledger[q]
           /\ ledger'[p].closed \subseteq ledger[p].closed \cup {closing}
           /\ mishaps' \in 0..MaxMishaps /\ lost' \in 0..mishaps'
           /\ lost' \in {lost, lost + 1}
<1>1. ledger \in [Plans -> Ledger] /\ ledger[p] \in Ledger
  BY DEF Typed
<1>2. PICK c \in {ledger[p].closed, ledger[p].closed \cup {closing}} :
         ledger' = [ledger EXCEPT ![p] = [ledger[p] EXCEPT !.last = "other", !.closed = c]]
  BY <1>1 DEF Close, Ledger
<1>3. [ledger[p] EXCEPT !.last = "other", !.closed = c] \in Ledger
  BY <1>1, <1>2 DEF Ledger, Stage
<1>4. ledger' \in [Plans -> Ledger]
  BY <1>1, <1>2, <1>3
<1>5. /\ \A q \in Plans : q # p => ledger'[q] = ledger[q]
      /\ ledger'[p].executing = ledger[p].executing
      /\ ledger'[p].closed = c
  BY <1>1, <1>2 DEF Ledger
<1> QED BY <1>2, <1>4, <1>5, CountersMove DEF Close

(* A row of the approvals keeps its type.                                  *)
LEMMA RowTypes ==
    ASSUME Typed, NEW a \in Approvals, RowMove(a)
    PROVE  approvals' \in [Approvals -> ApprovalRecord]
<1>1. approvals \in [Approvals -> ApprovalRecord] /\ approvals[a] \in ApprovalRecord
  BY DEF Typed, ApprovalTypeOK
<1>2. PICK x \in ApprovalRecord : approvals' = [approvals EXCEPT ![a] = x]
  <2>1. CASE \E e \in 0..MaxGeneration : approvals' = [approvals EXCEPT ![a] =
                   [approvals[a] EXCEPT !.outcome = "pending", !.expects = e]]
    <3>1. PICK e \in 0..MaxGeneration : approvals' = [approvals EXCEPT ![a] =
                   [approvals[a] EXCEPT !.outcome = "pending", !.expects = e]]
      BY <2>1
    <3>2. [approvals[a] EXCEPT !.outcome = "pending", !.expects = e] \in ApprovalRecord
      BY <1>1 DEF ApprovalRecord
    <3> QED BY <3>1, <3>2
  <2>2. CASE \E o \in ApprovalOutcome : approvals' = [approvals EXCEPT ![a].outcome = o]
    <3>1. PICK o \in ApprovalOutcome : approvals' = [approvals EXCEPT ![a].outcome = o]
      BY <2>2
    <3>2. [approvals[a] EXCEPT !.outcome = o] \in ApprovalRecord
      BY <1>1 DEF ApprovalRecord
    <3> QED BY <3>1, <3>2
  <2>3. CASE approvals' = [approvals EXCEPT ![a].expired = TRUE]
    <3>1. [approvals[a] EXCEPT !.expired = TRUE] \in ApprovalRecord
      BY <1>1 DEF ApprovalRecord
    <3> QED BY <2>3, <3>1
  <2>4. CASE approvals' = [approvals EXCEPT ![a].consumed = TRUE]
    <3>1. [approvals[a] EXCEPT !.consumed = TRUE] \in ApprovalRecord
      BY <1>1 DEF ApprovalRecord
    <3> QED BY <2>4, <3>1
  <2> QED BY <2>1, <2>2, <2>3, <2>4 DEF RowMove, Decide, MarkConsumed, ApprovalOutcome
<1> QED BY <1>1, <1>2

(* A thread that goes on with another task, of the same plan or of one     *)
(* that was granted: all that is asked of it.                              *)
GoesOn(i, x) ==
    /\ task' = [task EXCEPT ![i] = x]
    /\ x \in Task
    /\ x.at \notin {"down", "resuming", "idle"} => x.plan \in Plans
    /\ x.at \in Settling =>
          \/ task[i].at \in Settling /\ x.plan = task[i].plan
          \/ approvals'[x.plan].outcome \in {"granted", "withdrawn"}

StepMoves == Typed' /\ ApprovalMove /\ RunsMove /\ ThreadMove

LEMMA ThreadMoves ==
    ASSUME Typed, PlansNamed, NEW i \in Instances, NEW x, GoesOn(i, x)
    PROVE  /\ task' \in [Instances -> Task]
           /\ task'[i] = x
           /\ \A j \in Instances \ {i} : task'[j] = task[j]
           /\ SettlingMove
<1>1. /\ task' \in [Instances -> Task]
      /\ task'[i] = x
      /\ \A j \in Instances \ {i} : task'[j] = task[j]
  BY DEF GoesOn, Typed
<1>2. ASSUME NEW j \in Instances
      PROVE  /\ task'[j].at \notin {"down", "resuming", "idle"} => task'[j].plan \in Plans
             /\ task'[j].at \in Settling =>
                   \/ task[j].at \in Settling /\ task'[j].plan = task[j].plan
                   \/ approvals'[task'[j].plan].outcome \in {"granted", "withdrawn"}
  BY <1>1 DEF GoesOn, PlansNamed
<1> QED BY <1>1, <1>2 DEF SettlingMove

(* A step of a thread that takes no key, ventures on nothing, nor closes a *)
(* plan as unstarted, and passes the count only as the count allows.       *)
LEMMA PlainMoves ==
    ASSUME Typed, PlansNamed, NEW i \in Instances, NEW x, GoesOn(i, x),
           actionKeys' = actionKeys,
           x.at \in {"checking", "fencing", "executing"} =>
              x.plan = task[i].plan /\ task[i].at \in {"checking", "fencing", "executing"},
           x.at # "writing",
           x.at = "claiming" =>
              /\ x.plan = task[i].plan /\ task[i].at = "counting"
              /\ UNCHANGED <<approvals, writeVars>>
              /\ Spent < MaxExecutions \/ lost' = lost + 1,
           lost' \in {lost, lost + 1},
           \A p \in Plans : ledger'[p].executing = ledger[p].executing,
           \A p \in Plans : ClosedUnstarted(p)' => ClosedUnstarted(p)
    PROVE  ThreadMove
<1>1. /\ task'[i] = x
      /\ \A j \in Instances \ {i} : task'[j] = task[j]
      /\ SettlingMove
  BY ThreadMoves
<1>2. KeysMove
  <2>1. ASSUME NEW j \in Instances, NEW p \in Plans, Holds(j, p)' PROVE Holds(j, p)
    BY <1>1, <2>1 DEF Holds, Has
  <2> QED BY <2>1 DEF KeysMove
<1>3. CommitMove
  <2>1. ASSUME NEW j \in Instances, NEW p \in Plans, Committing(j, p)'
        PROVE  \/ Committing(j, p)
               \/ j = i /\ x.at = "claiming" /\ x.plan = p
    BY <1>1, <2>1 DEF Committing, Has, Settling
  <2>2. \A p \in Plans : x.at = "claiming" /\ x.plan = p => Has(i, p, {"counting"})
    BY DEF Has
  <2> QED BY <2>1, <2>2 DEF CommitMove
<1>4. RecordMove
  <2>1. ASSUME NEW j \in Instances, NEW p \in Plans, Writing(j, p)' PROVE Writing(j, p)
    BY <1>1, <2>1 DEF Writing, Has
  <2> QED BY <2>1 DEF RecordMove
<1> QED BY <1>1, <1>2, <1>3, <1>4 DEF ThreadMove, ClosingMove

(* What is left to show where the writes are left alone.                   *)
LEMMA ThreadTyped ==
    ASSUME Typed, UNCHANGED writeVars,
           approvals' \in [Approvals -> ApprovalRecord],
           mishaps' \in 0..MaxMishaps, lost' \in 0..mishaps',
           ledger' \in [Plans -> Ledger],
           actionKeys' \subseteq Plans, fenced' \subseteq 1..MaxGeneration,
           pending' \in [Instances -> SUBSET Plans],
           todo' \in [Instances -> SUBSET Plans],
           task' \in [Instances -> Task]
    PROVE  Typed'
BY DEF Typed, ApprovalTypeOK, writeVars

(* The outside, where only a thread moves.                                 *)
LEMMA OutsideKept ==
    ASSUME Typed, OutsideUnchanged
    PROVE  /\ ApprovalMove /\ RunsMove
           /\ UNCHANGED <<approvals, writeVars, actionKeys, fenced>>
           /\ approvals' \in [Approvals -> ApprovalRecord]
           /\ actionKeys' \subseteq Plans /\ fenced' \subseteq 1..MaxGeneration
BY DEF OutsideUnchanged, ApprovalMove, RunsMove, writeVars, keyVars, Typed, ApprovalTypeOK

(* Settling before there is a grant: from the proposal to the count.       *)
LEMMA ProposeMoves ==
    ASSUME Typed, PlansNamed, NEW i \in Instances, NEW p \in Plans, Propose(i, p)
    PROVE  StepMoves
<1>1. /\ At("announcing", p) \in Task /\ At("announcing", p).at = "announcing"
      /\ At("announcing", p).plan = p
  BY DEF At, Task, Step
<1>2. GoesOn(i, At("announcing", p))
  BY <1>1 DEF Propose, GoesOn, Settling
<1>3. RowMove(p)
  <2>1. generation \in 0..MaxGeneration /\ p \in Approvals
    BY DEF Typed
  <2> QED BY <2>1 DEF Propose, Request, RowMove
<1>4. Typed'
  BY <1>2, <1>3, RowTypes, ThreadMoves DEF Propose, writeVars, keyVars, Typed, ApprovalTypeOK
<1>5. ApprovalMove /\ RunsMove
  BY <1>3 DEF Propose, writeVars, ApprovalMove, RunsMove, Typed
<1>6. ThreadMove
  BY <1>1, <1>2, PlainMoves DEF Propose, keyVars, ClosedUnstarted
<1> QED BY <1>4, <1>5, <1>6 DEF StepMoves

LEMMA AnnounceMoves ==
    ASSUME Typed, PlansNamed, NEW i \in Instances, Announce(i)
    PROVE  StepMoves
<1>1. PICK p \in Plans : p = task[i].plan
  BY DEF Announce, Doing, PlansNamed
<1>2. Event(p, "approval_requested") /\ "approval_requested" \in Stage
  BY <1>1 DEF Announce, Stage
<1>3. PICK x \in Task : task' = [task EXCEPT ![i] = x] /\ x.at \in {"delegating", "idle"}
                        /\ (x.at = "delegating" => x.plan = p)
  <2>1. task[i] \in Task /\ [task[i] EXCEPT !.at = "delegating"] \in Task /\ Idle \in Task
    BY DEF Typed, Task, Step, Idle, At
  <2>2. CASE GoTo(i, "delegating")
    BY <1>1, <2>1, <2>2 DEF GoTo, Task
  <2>3. CASE Rest(i)
    BY <2>1, <2>3 DEF Rest, Idle, At
  <2> QED BY <2>2, <2>3 DEF Announce
<1>4. GoesOn(i, x)
  BY <1>3 DEF GoesOn, Settling
<1>5. pending' \in [Instances -> SUBSET Plans]
  <2>1. pending \in [Instances -> SUBSET Plans] /\ pending[i] \cup {p} \in SUBSET Plans
    BY DEF Typed
  <2>2. pending' \in {pending, [pending EXCEPT ![i] = pending[i] \cup {p}]}
    BY <1>1 DEF Announce
  <2> QED BY <2>1, <2>2
<1>6. OutsideUnchanged /\ todo' = todo
  BY DEF Announce
<1>7. Typed'
  <2>1. todo' \in [Instances -> SUBSET Plans]
    BY <1>6 DEF Typed
  <2> QED BY <1>2, <1>4, <1>5, <1>6, <2>1, EventWrites, ThreadMoves, OutsideKept, ThreadTyped
<1>8. ThreadMove
  <2>1. /\ \A q \in Plans : ledger'[q].executing = ledger[q].executing
        /\ \A q \in Plans : ClosedUnstarted(q)' => ClosedUnstarted(q)
        /\ lost' \in {lost, lost + 1}
    BY <1>2, EventWrites DEF ClosedUnstarted
  <2> QED BY <1>3, <1>4, <1>6, <2>1, OutsideKept, PlainMoves
<1> QED BY <1>6, <1>7, <1>8, OutsideKept DEF StepMoves

LEMMA GoToTask ==
    ASSUME Typed, NEW i \in Instances, NEW step \in Step, GoTo(i, step)
    PROVE  \E x \in Task : /\ task' = [task EXCEPT ![i] = x]
                           /\ x.at = step /\ x.plan = task[i].plan
<1>1. task[i] \in Task
  BY DEF Typed
<1>2. /\ [task[i] EXCEPT !.at = step] \in Task
      /\ [task[i] EXCEPT !.at = step].at = step
      /\ [task[i] EXCEPT !.at = step].plan = task[i].plan
  BY <1>1 DEF Task
<1> QED BY <1>2 DEF GoTo

LEMMA RestTask ==
    ASSUME NEW i \in Instances, Rest(i)
    PROVE  task' = [task EXCEPT ![i] = Idle] /\ Idle \in Task /\ Idle.at = "idle"
BY DEF Rest, Idle, At, Task, Step

LEMMA WaitingKept ==
    ASSUME Typed, WaitingUnchanged
    PROVE  pending' \in [Instances -> SUBSET Plans] /\ todo' \in [Instances -> SUBSET Plans]
BY DEF WaitingUnchanged, Typed

(* A thread that has done with a plan it was about to carry out.           *)
LEMMA RestMoves ==
    ASSUME Typed, PlansNamed, NEW i \in Instances, NEW p \in Plans,
           Rest(i), OutsideUnchanged, WaitingUnchanged,
           \/ \E c \in Closing \ {"stale", "fenced", "denied", "expired"} : Close(p, c)
           \/ Event(p, "other")
    PROVE  StepMoves
<1>1. GoesOn(i, Idle) /\ Idle.at = "idle"
  BY RestTask DEF GoesOn, Settling
<1>2. /\ ledger' \in [Plans -> Ledger]
      /\ \A q \in Plans : ledger'[q].executing = ledger[q].executing
      /\ \A q \in Plans : ClosedUnstarted(q)' => ClosedUnstarted(q)
      /\ mishaps' \in 0..MaxMishaps /\ lost' \in 0..mishaps'
      /\ lost' \in {lost, lost + 1}
  <2>1. CASE Event(p, "other")
    BY <2>1, EventWrites DEF Stage, ClosedUnstarted
  <2>2. ASSUME NEW c \in Closing \ {"stale", "fenced", "denied", "expired"}, Close(p, c)
        PROVE  /\ ledger' \in [Plans -> Ledger]
               /\ \A q \in Plans : ledger'[q].executing = ledger[q].executing
               /\ \A q \in Plans : ClosedUnstarted(q)' => ClosedUnstarted(q)
               /\ mishaps' \in 0..MaxMishaps /\ lost' \in 0..mishaps'
               /\ lost' \in {lost, lost + 1}
    <3>1. /\ \A q \in Plans : q # p => ledger'[q] = ledger[q]
          /\ ledger'[p].closed \subseteq ledger[p].closed \cup {c}
      BY <2>2, CloseWrites
    <3>2. \A q \in Plans : ClosedUnstarted(q)' => ClosedUnstarted(q)
      BY <3>1 DEF ClosedUnstarted
    <3> QED BY <2>2, <3>2, CloseWrites
  <2> QED BY <2>1, <2>2
<1>3. Typed'
  BY <1>1, <1>2, ThreadMoves, OutsideKept, WaitingKept, ThreadTyped
<1>4. ThreadMove
  BY <1>1, <1>2, OutsideKept, PlainMoves
<1> QED BY <1>3, <1>4, OutsideKept DEF StepMoves

LEMMA DelegateMoves ==
    ASSUME Typed, PlansNamed, NEW i \in Instances, Delegate(i)
    PROVE  StepMoves
<1>1. PICK p \in Plans : p = task[i].plan
  BY DEF Delegate, Doing, PlansNamed
<1>2. CASE Close(p, "no_approval") /\ Rest(i) /\ UNCHANGED approvals
  <2>1. OutsideUnchanged /\ WaitingUnchanged
    BY <1>2 DEF Delegate, OutsideUnchanged
  <2> QED BY <1>2, <2>1, RestMoves DEF Closing
<1>3. CASE Decide(p, "granted") /\ GoTo(i, "counting") /\ UNCHANGED <<ledger, lost, mishaps>>
  <2>1. p \in Approvals /\ RowMove(p)
    BY <1>3 DEF RowMove
  <2>2. approvals'[p].outcome = "granted"
    BY <1>3, <2>1 DEF Decide, Typed, ApprovalTypeOK, ApprovalRecord
  <2>3. PICK x \in Task : /\ task' = [task EXCEPT ![i] = x]
                          /\ x.at = "counting" /\ x.plan = p
    BY <1>1, <1>3, GoToTask DEF Step
  <2>4. GoesOn(i, x)
    BY <2>2, <2>3 DEF GoesOn
  <2>5. UNCHANGED <<writeVars, actionKeys, fenced>> /\ WaitingUnchanged
    BY DEF Delegate, keyVars
  <2>6. Typed'
    <3>1. /\ mishaps' \in 0..MaxMishaps /\ lost' \in 0..mishaps'
          /\ ledger' \in [Plans -> Ledger]
          /\ actionKeys' \subseteq Plans /\ fenced' \subseteq 1..MaxGeneration
      BY <1>3, <2>5 DEF Typed, ApprovalTypeOK
    <3> QED BY <2>1, <2>4, <2>5, <3>1, RowTypes, ThreadMoves, WaitingKept, ThreadTyped
  <2>7. ApprovalMove /\ RunsMove
    BY <2>1, <2>5 DEF ApprovalMove, RunsMove, writeVars, Typed
  <2>8. ThreadMove
    BY <1>3, <2>3, <2>4, <2>5, PlainMoves DEF ClosedUnstarted
  <2> QED BY <2>6, <2>7, <2>8 DEF StepMoves
<1> QED BY <1>1, <1>2, <1>3 DEF Delegate

LEMMA PollMoves ==
    ASSUME Typed, PlansNamed, NEW i \in Instances, NEW p \in Plans, Poll(i, p)
    PROVE  StepMoves
<1>1. OutsideUnchanged /\ todo' = todo /\ pending' \in [Instances -> SUBSET Plans]
  <2>1. pending' = [pending EXCEPT ![i] = pending[i] \ {p}]
    BY DEF Poll
  <2>2. pending \in [Instances -> SUBSET Plans] /\ pending[i] \ {p} \in SUBSET Plans
    BY DEF Typed
  <2> QED BY <2>1, <2>2 DEF Poll
<1>2. todo' \in [Instances -> SUBSET Plans]
  BY <1>1 DEF Typed
<1>3. CASE approvals[p].outcome = "granted" /\ task' = [task EXCEPT ![i] = At("counting", p)]
           /\ UNCHANGED <<ledger, lost, mishaps>>
  <2>1. /\ At("counting", p) \in Task /\ At("counting", p).at = "counting"
        /\ At("counting", p).plan = p
    BY DEF At, Task, Step
  <2>2. GoesOn(i, At("counting", p))
    BY <1>1, <1>3, <2>1, OutsideKept DEF GoesOn
  <2>3. Typed'
    <3>1. /\ mishaps' \in 0..MaxMishaps /\ lost' \in 0..mishaps'
          /\ ledger' \in [Plans -> Ledger]
      BY <1>3 DEF Typed, ApprovalTypeOK
    <3> QED BY <1>1, <1>2, <2>2, <3>1, ThreadMoves, OutsideKept, ThreadTyped
  <2>4. ThreadMove
    BY <1>1, <1>3, <2>1, <2>2, OutsideKept, PlainMoves DEF ClosedUnstarted
  <2> QED BY <1>1, <2>3, <2>4, OutsideKept DEF StepMoves
<1>4. ASSUME task' = task, NEW c \in {"denied", "withdrawn", "expired"}, Close(p, c),
             \/ c = approvals[p].outcome
             \/ c = "expired" /\ approvals[p].outcome = "pending" /\ approvals[p].expired
      PROVE  StepMoves
  <2>1. c \in Closing
    BY DEF Closing
  <2>2. Typed'
    <3>1. task' \in [Instances -> Task]
      BY <1>4 DEF Typed
    <3> QED BY <1>1, <1>2, <1>4, <2>1, <3>1, CloseWrites, OutsideKept, ThreadTyped
  <2>3. ClosingMove
    <3>1. /\ \A q \in Plans : q # p => ledger'[q] = ledger[q]
          /\ ledger'[p].closed \subseteq ledger[p].closed \cup {c}
      BY <1>4, <2>1, CloseWrites
    <3>2. UNCHANGED <<approvals, runs, actionKeys>>
      BY <1>1, OutsideKept DEF writeVars
    <3>3. ASSUME NEW q \in Plans, ClosedUnstarted(q)', ~ClosedUnstarted(q)
          PROVE  /\ q = p
                 /\ \/ approvals[p].outcome = "denied"
                    \/ approvals[p].outcome = "pending" /\ approvals[p].expired
      <4>1. q = p
        BY <3>1, <3>3 DEF ClosedUnstarted
      <4>2. c # "withdrawn"
        BY <3>1, <3>3, <4>1 DEF ClosedUnstarted
      <4>3. c \in {"denied", "expired"}
        BY <4>2
      <4>4. CASE c = approvals[p].outcome
        <5>1. approvals[p].outcome # "expired"
          BY DEF Typed, ApprovalTypeOK, ApprovalRecord, ApprovalOutcome
        <5> QED BY <4>1, <4>3, <4>4, <5>1
      <4> QED BY <1>4, <4>1, <4>4
    <3> QED BY <3>2, <3>3 DEF ClosingMove
  <2>4. KeysMove /\ SettlingMove /\ CommitMove
    <3>1. actionKeys' = actionKeys /\ task' = task /\ approvals' = approvals
      BY <1>1, <1>4, OutsideKept
    <3>2. KeysMove
      BY <3>1 DEF KeysMove, Holds, Has
    <3>3. CommitMove
      BY <3>1 DEF CommitMove, Committing, Has
    <3> QED BY <3>1, <3>2, <3>3 DEF PlansNamed, SettlingMove
  <2>5. RecordMove
    BY <1>4, <2>1, CloseWrites DEF RecordMove, Writing, Has
  <2> QED BY <1>1, <2>2, <2>3, <2>4, <2>5, OutsideKept DEF StepMoves, ThreadMove
<1> QED
  <2>1. CASE approvals[p].outcome \in {"denied", "withdrawn"} /\ UNCHANGED task
             /\ Close(p, approvals[p].outcome)
    BY <1>4, <2>1
  <2>2. CASE approvals[p].outcome = "pending" /\ approvals[p].expired /\ UNCHANGED task
             /\ Close(p, "expired")
    BY <1>4, <2>2
  <2> QED BY <1>3, <2>1, <2>2 DEF Poll

LEMMA CountMoves ==
    ASSUME Typed, PlansNamed, NEW i \in Instances, Count(i)
    PROVE  StepMoves
<1>1. PICK p \in Plans : p = task[i].plan
  BY DEF Count, Doing, PlansNamed
<1>2. OutsideUnchanged /\ WaitingUnchanged /\ task[i].at = "counting"
  BY DEF Count, Doing
<1>3. CASE Close(p, "budget") /\ Rest(i)
  BY <1>2, <1>3, RestMoves DEF Closing
<1>4. CASE /\ task' = [task EXCEPT ![i].at = "claiming", ![i].expired = approvals[p].expired]
           /\ \/ Spent < MaxExecutions /\ Event(p, "other")
              \/ Lose /\ ledger' = [ledger EXCEPT ![p].last = "other"]
  <2>1. PICK x \in Task : /\ task' = [task EXCEPT ![i] = x]
                          /\ x.at = "claiming" /\ x.plan = p
    <3>1. task[i] \in Task /\ approvals[p].expired \in BOOLEAN
      BY DEF Typed, ApprovalTypeOK, ApprovalRecord
    <3>2. [task[i] EXCEPT !.at = "claiming", !.expired = approvals[p].expired] \in Task
      BY <3>1 DEF Task, Step
    <3>3. /\ [task[i] EXCEPT !.at = "claiming", !.expired = approvals[p].expired].at = "claiming"
          /\ [task[i] EXCEPT !.at = "claiming", !.expired = approvals[p].expired].plan = p
      BY <1>1, <3>1 DEF Task
    <3>4. task' = [task EXCEPT ![i] =
                      [task[i] EXCEPT !.at = "claiming", !.expired = approvals[p].expired]]
      BY <1>4, <3>1 DEF Typed
    <3> QED BY <3>2, <3>3, <3>4
  <2>2. GoesOn(i, x)
    BY <1>1, <1>2, <2>1 DEF GoesOn, Settling
  <2>3. /\ ledger' \in [Plans -> Ledger]
        /\ \A q \in Plans : ledger'[q].executing = ledger[q].executing
        /\ \A q \in Plans : ledger'[q].closed = ledger[q].closed
        /\ mishaps' \in 0..MaxMishaps /\ lost' \in 0..mishaps'
        /\ lost' \in {lost, lost + 1}
        /\ Spent < MaxExecutions \/ lost' = lost + 1
    <3>1. CASE Spent < MaxExecutions /\ Event(p, "other")
      BY <3>1, EventWrites DEF Stage
    <3>2. CASE Lose /\ ledger' = [ledger EXCEPT ![p].last = "other"]
      <4>1. ledger \in [Plans -> Ledger] /\ ledger[p] \in Ledger
        BY DEF Typed
      <4>2. [ledger[p] EXCEPT !.last = "other"] \in Ledger
        BY <4>1 DEF Ledger, Stage
      <4>3. /\ ledger' \in [Plans -> Ledger]
            /\ \A q \in Plans : ledger'[q].executing = ledger[q].executing
            /\ \A q \in Plans : ledger'[q].closed = ledger[q].closed
        BY <3>2, <4>1, <4>2 DEF Ledger
      <4> QED BY <3>2, <4>3, CountersMove
    <3> QED BY <1>4, <3>1, <3>2
  <2>4. Typed'
    BY <1>2, <2>2, <2>3, ThreadMoves, OutsideKept, WaitingKept, ThreadTyped
  <2>5. ThreadMove
    BY <1>1, <1>2, <2>1, <2>2, <2>3, OutsideKept, PlainMoves DEF ClosedUnstarted
  <2> QED BY <1>2, <2>4, <2>5, OutsideKept DEF StepMoves
<1> QED BY <1>1, <1>3, <1>4 DEF Count

(* The one step that takes the key of a plan.                              *)
LEMMA ClaimActionMoves ==
    ASSUME Typed, PlansNamed, NEW i \in Instances, ClaimAction(i)
    PROVE  StepMoves
<1>1. PICK p \in Plans : p = task[i].plan
  BY DEF ClaimAction, Doing, PlansNamed
<1>2. /\ UNCHANGED <<approvals, writeVars, fenced>> /\ WaitingUnchanged
      /\ task[i].at = "claiming"
  BY DEF ClaimAction, Doing
<1>3. CASE Event(p, "other") /\ Rest(i) /\ UNCHANGED actionKeys
  <2>1. OutsideUnchanged
    BY <1>2, <1>3 DEF OutsideUnchanged, keyVars
  <2> QED BY <1>2, <1>3, <2>1, RestMoves
<1>4. CASE First(p) /\ actionKeys' = actionKeys \cup {p} /\ GoTo(i, "checking")
           /\ UNCHANGED <<ledger, lost, mishaps>>
  <2>1. PICK x \in Task : /\ task' = [task EXCEPT ![i] = x]
                          /\ x.at = "checking" /\ x.plan = p
    BY <1>1, <1>4, GoToTask DEF Step
  <2>2. GoesOn(i, x)
    BY <1>1, <1>2, <2>1 DEF GoesOn, Settling
  <2>3. /\ task' \in [Instances -> Task]
        /\ task'[i] = x
        /\ \A j \in Instances \ {i} : task'[j] = task[j]
        /\ SettlingMove
    BY <2>2, ThreadMoves
  <2>4. Typed'
    <3>1. /\ mishaps' \in 0..MaxMishaps /\ lost' \in 0..mishaps'
          /\ ledger' \in [Plans -> Ledger] /\ approvals' \in [Approvals -> ApprovalRecord]
          /\ actionKeys' \subseteq Plans /\ fenced' \subseteq 1..MaxGeneration
      BY <1>2, <1>4 DEF Typed, ApprovalTypeOK
    <3> QED BY <1>2, <2>3, <3>1, WaitingKept, ThreadTyped
  <2>5. KeysMove
    <3>1. ASSUME NEW j \in Instances, NEW q \in Plans, Holds(j, q)', ~Holds(j, q)
          PROVE  j = i /\ q = p
      BY <2>1, <2>3, <3>1 DEF Holds, Has
    <3> QED BY <1>4, <2>3, <3>1 DEF KeysMove, First
  <2>6. CommitMove
    <3>1. ASSUME NEW j \in Instances, NEW q \in Plans, Committing(j, q)'
          PROVE  Committing(j, q)
      BY <1>1, <1>2, <2>1, <2>3, <3>1 DEF Committing, Has, Settling
    <3> QED BY <3>1 DEF CommitMove
  <2>7. ClosingMove /\ RecordMove
    <3>1. ASSUME NEW j \in Instances, NEW q \in Plans, Writing(j, q)' PROVE Writing(j, q)
      BY <2>1, <2>3, <3>1 DEF Writing, Has
    <3> QED BY <1>4, <3>1 DEF ClosingMove, RecordMove, ClosedUnstarted
  <2>8. ApprovalMove /\ RunsMove
    BY <1>2 DEF ApprovalMove, RunsMove, writeVars, Typed
  <2> QED BY <2>3, <2>4, <2>5, <2>6, <2>7, <2>8 DEF StepMoves, ThreadMove
<1> QED BY <1>1, <1>3, <1>4 DEF ClaimAction

(* A plan closed by the process that holds it, before its run.             *)
LEMMA UnstartedMoves ==
    ASSUME Typed, PlansNamed, NEW i \in Instances, NEW p \in Plans,
           NEW c \in {"stale", "fenced"}, Close(p, c),
           Holds(i, p), Rest(i), OutsideUnchanged, WaitingUnchanged
    PROVE  StepMoves
<1>1. GoesOn(i, Idle) /\ Idle.at = "idle"
  BY RestTask DEF GoesOn, Settling
<1>2. /\ ledger' \in [Plans -> Ledger]
      /\ \A q \in Plans : ledger'[q].executing = ledger[q].executing
      /\ \A q \in Plans : q # p => ledger'[q] = ledger[q]
      /\ mishaps' \in 0..MaxMishaps /\ lost' \in 0..mishaps'
      /\ lost' \in {lost, lost + 1}
  BY CloseWrites DEF Closing
<1>3. /\ task'[i] = Idle
      /\ \A j \in Instances \ {i} : task'[j] = task[j]
      /\ SettlingMove
  BY <1>1, ThreadMoves
<1>4. actionKeys' = actionKeys /\ approvals' = approvals /\ runs' = runs
  BY OutsideKept DEF writeVars
<1>5. Typed'
  BY <1>1, <1>2, ThreadMoves, OutsideKept, WaitingKept, ThreadTyped
<1>6. \A j \in Instances, q \in Plans :
        /\ Holds(j, q)' => Holds(j, q)
        /\ Committing(j, q)' => Committing(j, q)
        /\ Writing(j, q)' => Writing(j, q)
  BY <1>1, <1>3 DEF Holds, Committing, Writing, Has, Settling
<1>7. KeysMove /\ CommitMove /\ RecordMove
  BY <1>2, <1>4, <1>6 DEF KeysMove, CommitMove, RecordMove
<1>8. ClosingMove
  <2>1. ASSUME NEW q \in Plans, ClosedUnstarted(q)', ~ClosedUnstarted(q) PROVE q = p
    BY <1>2, <2>1 DEF ClosedUnstarted
  <2> QED BY <1>4, <2>1 DEF ClosingMove, Rest
<1> QED BY <1>3, <1>5, <1>7, <1>8, OutsideKept DEF StepMoves, ThreadMove

LEMMA CheckStaleMoves ==
    ASSUME Typed, PlansNamed, NEW i \in Instances, CheckStale(i)
    PROVE  StepMoves
<1>1. PICK p \in Plans : p = task[i].plan
  BY DEF CheckStale, Doing, PlansNamed
<1>2. OutsideUnchanged /\ WaitingUnchanged /\ task[i].at = "checking"
  BY DEF CheckStale, Doing
<1>3. CASE Close(p, "stale") /\ Rest(i)
  BY <1>1, <1>2, <1>3, UnstartedMoves DEF Holds, Has
<1>4. CASE GoTo(i, "fencing") /\ UNCHANGED <<ledger, lost, mishaps>>
  <2>1. PICK x \in Task : /\ task' = [task EXCEPT ![i] = x]
                          /\ x.at = "fencing" /\ x.plan = p
    BY <1>1, <1>4, GoToTask DEF Step
  <2>2. GoesOn(i, x)
    BY <1>1, <1>2, <2>1 DEF GoesOn, Settling
  <2>3. /\ mishaps' \in 0..MaxMishaps /\ lost' \in 0..mishaps'
        /\ ledger' \in [Plans -> Ledger]
    BY <1>4 DEF Typed, ApprovalTypeOK
  <2>4. Typed'
    BY <1>2, <2>2, <2>3, ThreadMoves, OutsideKept, WaitingKept, ThreadTyped
  <2>5. ThreadMove
    BY <1>1, <1>2, <1>4, <2>1, <2>2, OutsideKept, PlainMoves DEF ClosedUnstarted
  <2> QED BY <1>2, <2>4, <2>5, OutsideKept DEF StepMoves
<1> QED BY <1>1, <1>3, <1>4 DEF CheckStale

LEMMA FenceTargetMoves ==
    ASSUME Typed, PlansNamed, NEW i \in Instances, FenceTarget(i)
    PROVE  StepMoves
<1>1. PICK p \in Plans : p = task[i].plan
  BY DEF FenceTarget, Doing, PlansNamed
<1>2. /\ UNCHANGED <<approvals, writeVars, actionKeys>> /\ WaitingUnchanged
      /\ task[i].at = "fencing"
  BY DEF FenceTarget, Doing
<1>3. CASE Close(p, "fenced") /\ Rest(i) /\ UNCHANGED fenced
  <2>1. OutsideUnchanged
    BY <1>2, <1>3 DEF OutsideUnchanged, keyVars
  <2> QED BY <1>1, <1>2, <1>3, <2>1, UnstartedMoves DEF Holds, Has
<1>4. CASE fenced' = fenced \cup {approvals[p].expects} /\ GoTo(i, "executing")
           /\ UNCHANGED <<ledger, lost, mishaps>>
  <2>1. PICK x \in Task : /\ task' = [task EXCEPT ![i] = x]
                          /\ x.at = "executing" /\ x.plan = p
    BY <1>1, <1>4, GoToTask DEF Step
  <2>2. GoesOn(i, x)
    BY <1>1, <1>2, <2>1 DEF GoesOn, Settling
  <2>3. approvals[p].expects \in 1..MaxGeneration
    <3>1. Granted(p)
      BY <1>1, <1>2 DEF PlansNamed, Settling
    <3>2. approvals[p].expects \in 1..generation
      BY <3>1 DEF PlansNamed, Granted
    <3> QED BY <3>2 DEF Typed
  <2>4. /\ mishaps' \in 0..MaxMishaps /\ lost' \in 0..mishaps'
        /\ ledger' \in [Plans -> Ledger] /\ approvals' \in [Approvals -> ApprovalRecord]
        /\ actionKeys' \subseteq Plans /\ fenced' \subseteq 1..MaxGeneration
    BY <1>2, <1>4, <2>3 DEF Typed, ApprovalTypeOK
  <2>5. Typed'
    BY <1>2, <2>2, <2>4, ThreadMoves, WaitingKept, ThreadTyped
  <2>6. ThreadMove
    BY <1>1, <1>2, <1>4, <2>1, <2>2, PlainMoves DEF ClosedUnstarted
  <2>7. ApprovalMove /\ RunsMove
    BY <1>2 DEF ApprovalMove, RunsMove, writeVars, Typed
  <2> QED BY <2>5, <2>6, <2>7 DEF StepMoves
<1> QED BY <1>1, <1>3, <1>4 DEF FenceTarget

(* The one step that ventures on a plan: on record, or its record lost.    *)
LEMMA ExecutingMoves ==
    ASSUME Typed, PlansNamed, NEW i \in Instances, Executing(i)
    PROVE  StepMoves
<1>1. PICK p \in Plans : p = task[i].plan
  BY DEF Executing, Doing, PlansNamed
<1>2. /\ OutsideUnchanged /\ WaitingUnchanged /\ task[i].at = "executing"
      /\ GoTo(i, "writing") /\ Event(p, "executing") /\ "executing" \in Stage
  BY <1>1 DEF Executing, Doing, Stage
<1>3. PICK x \in Task : /\ task' = [task EXCEPT ![i] = x]
                        /\ x.at = "writing" /\ x.plan = p
  BY <1>1, <1>2, GoToTask DEF Step
<1>4. GoesOn(i, x)
  BY <1>1, <1>2, <1>3 DEF GoesOn, Settling
<1>5. /\ task'[i] = x
      /\ \A j \in Instances \ {i} : task'[j] = task[j]
      /\ SettlingMove
  BY <1>4, ThreadMoves
<1>6. /\ ledger' \in [Plans -> Ledger]
      /\ \A q \in Plans : ledger'[q].closed = ledger[q].closed
      /\ \A q \in Plans : ledger[q].executing => ledger'[q].executing
      /\ \A q \in Plans : q # p => ledger'[q] = ledger[q]
      /\ ledger'[p].executing \/ lost' = lost + 1
      /\ mishaps' \in 0..MaxMishaps /\ lost' \in 0..mishaps'
      /\ lost' \in {lost, lost + 1}
  BY <1>2, EventWrites
<1>7. Typed'
  BY <1>2, <1>4, <1>6, ThreadMoves, OutsideKept, WaitingKept, ThreadTyped
<1>8. \A j \in Instances, q \in Plans :
        /\ Holds(j, q)' => Holds(j, q)
        /\ Committing(j, q)' => Committing(j, q)
        /\ Writing(j, q)' => Writing(j, q) \/ (j = i /\ q = p)
  BY <1>1, <1>2, <1>3, <1>5 DEF Holds, Committing, Writing, Has, Settling
<1>9. KeysMove /\ CommitMove /\ ClosingMove
  BY <1>2, <1>6, <1>8, OutsideKept DEF KeysMove, CommitMove, ClosingMove, ClosedUnstarted
<1>10. RecordMove
  <2>1. runs' = runs
    BY <1>2, OutsideKept DEF writeVars
  <2>2. ASSUME NEW j \in Instances, NEW q \in Plans, Writing(j, q)'
        PROVE  \/ Writing(j, q)
               \/ ledger'[q].executing
               \/ lost' = lost + 1 /\ UNCHANGED runs
                  /\ \A k \in Instances \ {j} : task'[k] = task[k]
    BY <1>5, <1>6, <1>8, <2>1, <2>2
  <2>3. \A q, r \in Plans :
          ledger'[q].executing /\ ~ledger[q].executing
              /\ ledger'[r].executing /\ ~ledger[r].executing => q = r
    BY <1>6
  <2> QED BY <1>6, <2>2, <2>3 DEF RecordMove
<1> QED BY <1>2, <1>5, <1>7, <1>9, <1>10, OutsideKept DEF StepMoves, ThreadMove

(* What a step that starts a run writes.                                   *)
LEMMA StartWrites ==
    ASSUME Typed, NEW a \in Approvals, NEW awaited \in BOOLEAN, Start(a, awaited)
    PROVE  \E x \in Run : /\ x.approval = a /\ x.state \in {"bound", "unbound"}
                          /\ runs' = Append(runs, x)
                          /\ runs' \in Seq(Run) /\ Len(runs') <= MaxRuns
<1>1. PICK state \in {"bound", "unbound"} :
         runs' = Append(runs, [approval |-> a, state |-> state, awaited |-> awaited])
  BY DEF Start
<1>2. [approval |-> a, state |-> state, awaited |-> awaited] \in Run
  BY DEF Run, RunState
<1>3. /\ runs' \in Seq(Run)
      /\ Len(runs') = Len(runs) + 1
  BY <1>1, <1>2, AppendProperties DEF Typed
<1>4. Len(runs) \in Nat /\ Len(runs) < MaxRuns /\ MaxRuns \in Nat
  BY LenProperties DEF Typed, Start
<1>5. Len(runs') <= MaxRuns
  BY <1>3, <1>4
<1> QED BY <1>1, <1>2, <1>3, <1>5

LEMMA WriteMoves ==
    ASSUME Typed, PlansNamed, NEW i \in Instances, Write(i)
    PROVE  StepMoves
<1>1. PICK p \in Plans : p = task[i].plan
  BY DEF Write, Doing, PlansNamed
<1>2. /\ UNCHANGED <<approvalVars, ledger, keyVars, lost>> /\ WaitingUnchanged
      /\ task[i].at = "writing"
  BY DEF Write, Doing
<1>3. PICK step \in {"driving", "refused"} :
         /\ GoTo(i, step)
         /\ \/ step = "driving" /\ Start(p, FALSE)
            \/ step = "refused" /\ UNCHANGED writeVars
  BY <1>1 DEF Write
<1>4. PICK x \in Task : /\ task' = [task EXCEPT ![i] = x]
                        /\ x.at = step /\ x.plan = p
  BY <1>1, <1>3, GoToTask DEF Step
<1>5. GoesOn(i, x)
  BY <1>3, <1>4 DEF GoesOn, Settling
<1>6. /\ mishaps' \in 0..MaxMishaps /\ lost' \in 0..mishaps'
      /\ ledger' \in [Plans -> Ledger] /\ approvals' \in [Approvals -> ApprovalRecord]
      /\ actionKeys' \subseteq Plans /\ fenced' \subseteq 1..MaxGeneration
      /\ ApprovalMove
  BY <1>2 DEF Typed, ApprovalTypeOK, approvalVars, keyVars, ApprovalMove
<1>7. ThreadMove
  BY <1>2, <1>3, <1>4, <1>5, PlainMoves DEF keyVars, ClosedUnstarted
<1>8. CASE step = "driving" /\ Start(p, FALSE)
  <2>1. PICK r \in Run : /\ r.approval = p /\ r.state \in {"bound", "unbound"}
                         /\ runs' = Append(runs, r)
                         /\ runs' \in Seq(Run) /\ Len(runs') <= MaxRuns
    BY <1>8, StartWrites
  <2>2. UNCHANGED <<generation, asked, landed>> /\ IsValidFor(p) /\ Len(runs) < MaxRuns
    BY <1>8 DEF Start
  <2>3. Started(p)
    BY <1>1, <1>2, <1>3, <1>8, <2>1, <2>2
       DEF Started, Writing, Has, GoTo, approvalVars, keyVars
  <2>4. RunsMove
    BY <2>3 DEF RunsMove
  <2>5. Typed'
    BY <1>2, <1>5, <1>6, <2>1, <2>2, ThreadMoves, WaitingKept DEF Typed, ApprovalTypeOK
  <2> QED BY <1>6, <1>7, <2>4, <2>5 DEF StepMoves
<1>9. CASE UNCHANGED writeVars
  <2>1. Typed'
    BY <1>2, <1>5, <1>6, <1>9, ThreadMoves, WaitingKept, ThreadTyped
  <2>2. RunsMove
    BY <1>9 DEF RunsMove, writeVars, Typed
  <2> QED BY <1>6, <1>7, <2>1, <2>2 DEF StepMoves
<1> QED BY <1>3, <1>8, <1>9

(* From the write to the end of the plan.                                  *)
LEMMA AftermathMoves ==
    ASSUME Typed, PlansNamed, NEW i \in Instances,
           Drive(i) \/ Break(i) \/ Note(i) \/ Report(i) \/ Verify(i)
    PROVE  StepMoves
<1>1. PICK p \in Plans : p = task[i].plan
  BY DEF Drive, Break, Note, Report, Verify, Doing, PlansNamed
<1>2. ASSUME NEW step \in {"noting", "reporting", "verifying", "refused"}, GoTo(i, step),
             UNCHANGED <<writeVars, actionKeys, fenced>>, WaitingUnchanged,
             approvals' = approvals \/ RowMove(p),
             \/ (Told \/ (Mishap /\ lost' = lost)) /\ UNCHANGED ledger
             \/ Event(p, "other")
      PROVE  StepMoves
  <2>1. PICK x \in Task : /\ task' = [task EXCEPT ![i] = x]
                          /\ x.at = step /\ x.plan = p
    BY <1>1, <1>2, GoToTask DEF Step
  <2>2. GoesOn(i, x)
    BY <1>2, <2>1 DEF GoesOn, Settling
  <2>3. /\ ledger' \in [Plans -> Ledger]
        /\ \A q \in Plans : ledger'[q].executing = ledger[q].executing
        /\ \A q \in Plans : ledger'[q].closed = ledger[q].closed
        /\ mishaps' \in 0..MaxMishaps /\ lost' \in 0..mishaps'
        /\ lost' \in {lost, lost + 1}
    <3>1. CASE Event(p, "other")
      BY <3>1, EventWrites DEF Stage
    <3>2. CASE (Told \/ (Mishap /\ lost' = lost)) /\ UNCHANGED ledger
      BY <3>2, CountersMove DEF Typed
    <3> QED BY <1>2, <3>1, <3>2
  <2>4. approvals' \in [Approvals -> ApprovalRecord]
    BY <1>2, RowTypes DEF Typed, ApprovalTypeOK
  <2>5. Typed'
    <3>1. actionKeys' \subseteq Plans /\ fenced' \subseteq 1..MaxGeneration
      BY <1>2 DEF Typed
    <3> QED BY <1>2, <2>2, <2>3, <2>4, <3>1, ThreadMoves, WaitingKept, ThreadTyped
  <2>6. ThreadMove
    BY <1>2, <2>1, <2>2, <2>3, PlainMoves DEF ClosedUnstarted
  <2>7. ApprovalMove /\ RunsMove
    BY <1>2 DEF ApprovalMove, RunsMove, writeVars, Typed
  <2> QED BY <2>5, <2>6, <2>7 DEF StepMoves
<1>3. CASE Drive(i)
  BY <1>2, <1>3 DEF Drive, routeVars, approvalVars, keyVars, Told
<1>4. CASE Break(i)
  BY <1>2, <1>4 DEF Break, keyVars
<1>5. CASE Note(i)
  <2>1. MarkConsumed(p) => RowMove(p)
    BY DEF RowMove
  <2> QED BY <1>1, <1>2, <1>5, <2>1 DEF Note, keyVars, Told
<1>6. CASE Report(i)
  <2>1. CASE Event(p, "other") /\ GoTo(i, "verifying")
    BY <1>2, <1>6, <2>1 DEF Report, OutsideUnchanged, keyVars
  <2>2. CASE Close(p, "refused") /\ Rest(i)
    BY <1>6, <2>2, RestMoves DEF Report, Closing
  <2> QED BY <1>1, <1>6, <2>1, <2>2 DEF Report
<1>7. CASE Verify(i)
  BY <1>1, <1>7, RestMoves DEF Verify, Closing
<1> QED BY <1>3, <1>4, <1>5, <1>6, <1>7

(* Starting, taking up what was left, and dying.                           *)
LEMMA LifecycleMoves ==
    ASSUME Typed, PlansNamed, NEW i \in Instances,
           \/ StartUp(i) \/ Reconciled(i) \/ Resumed(i) \/ Crash(i)
           \/ \E p \in Plans : Resume(i, p)
    PROVE  StepMoves
<1>1. ASSUME OutsideUnchanged,
             pending' \in [Instances -> SUBSET Plans], todo' \in [Instances -> SUBSET Plans],
             NEW x, GoesOn(i, x), x.at \in {"down", "resuming", "reconciling", "idle"},
             ledger' \in [Plans -> Ledger],
             \A q \in Plans : ledger'[q].executing = ledger[q].executing,
             \A q \in Plans : ClosedUnstarted(q)' => ClosedUnstarted(q),
             mishaps' \in 0..MaxMishaps, lost' \in 0..mishaps',
             lost' \in {lost, lost + 1}
      PROVE  StepMoves
  <2>1. Typed'
    BY <1>1, ThreadMoves, OutsideKept, ThreadTyped
  <2>2. ThreadMove
    BY <1>1, OutsideKept, PlainMoves
  <2> QED BY <1>1, <2>1, <2>2, OutsideKept DEF StepMoves
<1>2. ASSUME UNCHANGED ledger
      PROVE  /\ ledger' \in [Plans -> Ledger]
             /\ \A q \in Plans : ledger'[q].executing = ledger[q].executing
             /\ \A q \in Plans : ClosedUnstarted(q)' => ClosedUnstarted(q)
  BY <1>2 DEF Typed, ClosedUnstarted
<1>3. task[i] \in Task /\ pending \in [Instances -> SUBSET Plans]
      /\ todo \in [Instances -> SUBSET Plans]
  BY DEF Typed
<1>4. CASE StartUp(i)
  <2>1. PICK x \in Task : /\ task' = [task EXCEPT ![i] = x]
                          /\ x.at = "resuming"
    BY <1>4, GoToTask DEF StartUp, Step
  <2>2. GoesOn(i, x)
    BY <2>1 DEF GoesOn, Settling
  <2>3. pending' \in [Instances -> SUBSET Plans] /\ todo' \in [Instances -> SUBSET Plans]
    BY <1>3, <1>4 DEF StartUp
  <2>4. mishaps' \in 0..MaxMishaps /\ lost' \in 0..mishaps' /\ lost' = lost
    BY <1>4 DEF StartUp, Typed, ApprovalTypeOK
  <2> QED BY <1>1, <1>2, <1>4, <2>1, <2>2, <2>3, <2>4 DEF StartUp
<1>5. CASE Crash(i)
  <2>1. At("down", NoPlan) \in Task /\ At("down", NoPlan).at = "down"
    BY DEF At, Task, Step
  <2>2. GoesOn(i, At("down", NoPlan))
    BY <1>5, <2>1 DEF Crash, GoesOn, Settling
  <2>3. pending' \in [Instances -> SUBSET Plans] /\ todo' \in [Instances -> SUBSET Plans]
    BY <1>3, <1>5 DEF Crash
  <2>4. mishaps' \in 0..MaxMishaps /\ lost' \in 0..mishaps' /\ lost' \in {lost, lost + 1}
    BY <1>5, CountersMove DEF Crash
  <2> QED BY <1>1, <1>2, <1>5, <2>1, <2>2, <2>3, <2>4 DEF Crash
<1>6. CASE Resumed(i)
  <2>1. GoesOn(i, Idle) /\ Idle.at = "idle"
    BY <1>6, RestTask DEF Resumed, GoesOn, Settling
  <2>2. mishaps' \in 0..MaxMishaps /\ lost' \in 0..mishaps' /\ lost' = lost
    BY <1>6 DEF Resumed, Typed, ApprovalTypeOK
  <2> QED BY <1>1, <1>2, <1>6, <2>1, <2>2, WaitingKept DEF Resumed
<1>7. CASE Reconciled(i)
  <2>1. PICK p \in Plans : p = task[i].plan
    BY <1>7 DEF Reconciled, Doing, PlansNamed
  <2>2. At("resuming", NoPlan) \in Task /\ At("resuming", NoPlan).at = "resuming"
    BY DEF At, Task, Step
  <2>3. GoesOn(i, At("resuming", NoPlan))
    BY <1>7, <2>2 DEF Reconciled, GoesOn, Settling
  <2>4. /\ ledger' \in [Plans -> Ledger]
        /\ \A q \in Plans : ledger'[q].executing = ledger[q].executing
        /\ \A q \in Plans : ClosedUnstarted(q)' => ClosedUnstarted(q)
        /\ mishaps' \in 0..MaxMishaps /\ lost' \in 0..mishaps'
        /\ lost' \in {lost, lost + 1}
    <3>1. Close(p, "verified") /\ "verified" \in Closing
      BY <1>7, <2>1 DEF Reconciled, Closing
    <3>2. /\ \A q \in Plans : q # p => ledger'[q] = ledger[q]
          /\ ledger'[p].closed \subseteq ledger[p].closed \cup {"verified"}
      BY <3>1, CloseWrites
    <3>3. \A q \in Plans : ClosedUnstarted(q)' => ClosedUnstarted(q)
      BY <3>2 DEF ClosedUnstarted
    <3> QED BY <3>1, <3>3, CloseWrites
  <2> QED BY <1>1, <1>7, <2>2, <2>3, <2>4, WaitingKept DEF Reconciled
<1>8. ASSUME NEW p \in Plans, Resume(i, p)
      PROVE  StepMoves
  <2>1. PICK x \in Task : /\ task' = [task EXCEPT ![i] = x]
                          /\ x.at \in {"resuming", "reconciling"}
                          /\ x.at = "reconciling" => x.plan = p
    <3>1. /\ At("reconciling", p) \in Task /\ At("reconciling", p).at = "reconciling"
          /\ At("reconciling", p).plan = p
      BY DEF At, Task, Step
    <3>2. CASE Reconcile(i, p)
      BY <3>1, <3>2 DEF Reconcile
    <3>3. CASE UNCHANGED task
      <4>1. task' = [task EXCEPT ![i] = task[i]] /\ task[i].at = "resuming"
        BY <1>8, <3>3 DEF Resume, Doing, Typed
      <4> QED BY <1>3, <4>1
    <3> QED BY <1>8, <3>2, <3>3 DEF Resume
  <2>2. GoesOn(i, x)
    BY <2>1 DEF GoesOn, Settling
  <2>3. pending' \in [Instances -> SUBSET Plans] /\ todo' \in [Instances -> SUBSET Plans]
    <3>1. /\ pending' \in {pending, [pending EXCEPT ![i] = pending[i] \cup {p}]}
          /\ todo' = [todo EXCEPT ![i] = todo[i] \ {p}]
      BY <1>8 DEF Resume, Reconcile
    <3>2. pending[i] \cup {p} \in SUBSET Plans /\ todo[i] \ {p} \in SUBSET Plans
      BY <1>3
    <3> QED BY <1>3, <3>1, <3>2
  <2>4. mishaps' \in 0..MaxMishaps /\ lost' \in 0..mishaps' /\ lost' = lost
    BY <1>8 DEF Resume, Typed, ApprovalTypeOK
  <2> QED BY <1>1, <1>2, <1>8, <2>1, <2>2, <2>3, <2>4 DEF Resume
<1> QED BY <1>4, <1>5, <1>6, <1>7, <1>8

-----------------------------------------------------------------------------
(* What happens outside the threads.                                       *)

(* A run that goes on stays a run of its approval.                         *)
LEMMA RunWrites ==
    ASSUME Typed, NEW r \in DOMAIN runs, NEW x \in Run
    PROVE  LET new == [runs EXCEPT ![r] = x] IN
           /\ new \in Seq(Run) /\ Len(new) = Len(runs)
           /\ DOMAIN new = DOMAIN runs
           /\ new[r] = x
           /\ \A s \in DOMAIN runs : s # r => new[s] = runs[s]
<1>1. runs \in Seq(Run) /\ r \in 1..Len(runs)
  BY DEF Typed
<1>2. /\ [runs EXCEPT ![r] = x] \in Seq(Run)
      /\ Len([runs EXCEPT ![r] = x]) = Len(runs)
  BY <1>1, ExceptSeq
<1> QED BY <1>1, <1>2

LEMMA RunStates ==
    ASSUME Typed, NEW r \in DOMAIN runs
    PROVE  /\ runs[r] \in Run
           /\ \A state \in RunState :
                 /\ [runs[r] EXCEPT !.state = state] \in Run
                 /\ [runs[r] EXCEPT !.state = state].approval = runs[r].approval
                 /\ [runs[r] EXCEPT !.state = state].state = state
           /\ [runs[r] EXCEPT !.awaited = FALSE] \in Run
           /\ [runs[r] EXCEPT !.awaited = FALSE].approval = runs[r].approval
           /\ [runs[r] EXCEPT !.awaited = FALSE].state = runs[r].state
<1>1. runs[r] \in Run
  <2>1. runs \in Seq(Run) /\ r \in 1..Len(runs)
    BY DEF Typed
  <2> QED BY <2>1, ElementOfSeq
<1> QED BY <1>1 DEF Run

(* What the gateway, the worker and whoever else writes make of a run.     *)
LEMMA RunMoveWrites ==
    ASSUME Typed, NEW r \in DOMAIN runs, RunStep(r)
    PROVE  /\ \E state \in RunState : runs' = [runs EXCEPT ![r] = [runs[r] EXCEPT !.state = state]]
           /\ generation' \in 1..MaxGeneration /\ generation' >= generation
           /\ asked' \in [Approvals -> Nat] /\ landed' \in [Approvals -> Nat]
<1>1. \E state \in RunState : runs' = [runs EXCEPT ![r] = [runs[r] EXCEPT !.state = state]]
  BY DEF RunStep, Admit, Refuse, Invoke, Land, NotLanded, RunState
<1>2. /\ generation \in 1..MaxGeneration /\ MaxGeneration \in Nat
      /\ asked \in [Approvals -> Nat] /\ landed \in [Approvals -> Nat]
      /\ runs[r].approval \in Approvals
  BY RunStates DEF Typed, Run
<1>3. generation' \in 1..MaxGeneration /\ generation' >= generation
  BY <1>2 DEF RunStep, Admit, Refuse, Invoke, Land, NotLanded, Written
<1>4. asked[runs[r].approval] + 1 \in Nat /\ landed[runs[r].approval] + 1 \in Nat
  BY <1>2
<1>5. asked' \in [Approvals -> Nat]
  BY <1>2, <1>4 DEF RunStep, Admit, Refuse, Invoke, Land, NotLanded
<1>6. landed' \in [Approvals -> Nat]
  BY <1>2, <1>4 DEF RunStep, Admit, Refuse, Invoke, Land, NotLanded
<1> QED BY <1>1, <1>3, <1>5, <1>6

(* Threads that stand still.                                               *)
LEMMA StillMoves ==
    ASSUME PlansNamed, UNCHANGED <<ledger, keyVars, task, lost>>
    PROVE  ThreadMove
<1>1. KeysMove /\ ClosingMove
  BY DEF KeysMove, ClosingMove, Holds, Has, ClosedUnstarted, keyVars
<1>2. SettlingMove
  BY DEF SettlingMove, PlansNamed
<1>3. CommitMove /\ RecordMove
  BY DEF CommitMove, RecordMove, Committing, Writing, Has
<1> QED BY <1>1, <1>2, <1>3 DEF ThreadMove

LEMMA OutsideMoves ==
    ASSUME Typed, PlansNamed, RoutesNext,
           UNCHANGED <<ledger, keyVars, pending, todo, task, lost>>
    PROVE  StepMoves
<1>1. ThreadMove
  BY StillMoves
<1>2. /\ ledger' \in [Plans -> Ledger]
      /\ actionKeys' \subseteq Plans /\ fenced' \subseteq 1..MaxGeneration
      /\ pending' \in [Instances -> SUBSET Plans]
      /\ todo' \in [Instances -> SUBSET Plans]
      /\ task' \in [Instances -> Task]
      /\ lost' = lost
  BY DEF Typed, keyVars
<1>3. mishaps' = mishaps \/ Mishap => mishaps' \in 0..MaxMishaps /\ lost' \in 0..mishaps'
  <2>1. mishaps' = mishaps => Told
    BY <1>2 DEF Told
  <2> QED BY <1>2, <2>1, CountersMove
<1>4. ASSUME NEW a \in Approvals, RowMove(a), mishaps' = mishaps \/ Mishap, UNCHANGED writeVars
      PROVE  StepMoves
  <2>1. Typed'
    BY <1>2, <1>3, <1>4, RowTypes, ThreadTyped
  <2>2. ApprovalMove /\ RunsMove
    BY <1>4 DEF ApprovalMove, RunsMove, writeVars, Typed
  <2> QED BY <1>1, <2>1, <2>2 DEF StepMoves
<1>5. ASSUME NEW a \in Approvals, RequestByPerson(a) PROVE StepMoves
  <2>1. RowMove(a)
    <3>1. 0 \in 0..MaxGeneration
      OBVIOUS
    <3>2. /\ a \notin Plans /\ approvals[a].outcome = "absent"
          /\ approvals' = [approvals EXCEPT ![a] =
                [approvals[a] EXCEPT !.outcome = "pending", !.expects = 0]]
      BY <1>5 DEF RequestByPerson, Request
    <3> QED BY <3>1, <3>2 DEF RowMove
  <2> QED BY <1>4, <1>5, <2>1 DEF RequestByPerson, writeVars
<1>6. ASSUME NEW a \in Approvals, PersonDecides(a) \/ Withdraw(a) \/ Expire(a), UNCHANGED writeVars
      PROVE  StepMoves
  <2>1. RowMove(a)
    BY <1>6 DEF PersonDecides, Withdraw, Expire, Decide, RowMove
  <2> QED BY <1>4, <1>6, <2>1 DEF PersonDecides, Withdraw, Expire
<1>7. ASSUME NEW a \in Approvals, NEW wait \in BOOLEAN, ExecuteApproval(a, wait) PROVE StepMoves
  <2>1. Start(a, wait) /\ a \notin Plans /\ UNCHANGED approvalVars
    BY <1>7 DEF ExecuteApproval, MayExecute
  <2>2. PICK x \in Run : /\ x.approval = a /\ x.state \in {"bound", "unbound"}
                         /\ runs' = Append(runs, x)
                         /\ runs' \in Seq(Run) /\ Len(runs') <= MaxRuns
    BY <2>1, StartWrites
  <2>3. UNCHANGED <<generation, asked, landed>> /\ IsValidFor(a) /\ Len(runs) < MaxRuns
    BY <2>1 DEF Start
  <2>4. Started(a)
    BY <2>1, <2>2, <2>3 DEF Started, approvalVars
  <2>5. Typed'
    BY <1>2, <1>3, <2>1, <2>2, <2>3 DEF Typed, ApprovalTypeOK, approvalVars
  <2>6. ApprovalMove /\ RunsMove
    BY <2>1, <2>4 DEF ApprovalMove, RunsMove, approvalVars
  <2> QED BY <1>1, <2>5, <2>6 DEF StepMoves
<1>8. ASSUME NEW r \in DOMAIN runs, NoteUse(r) PROVE StepMoves
  <2>1. /\ runs' = [runs EXCEPT ![r].awaited = FALSE]
        /\ MarkConsumed(runs[r].approval) /\ UNCHANGED <<mishaps, generation, asked, landed>>
    BY <1>8 DEF NoteUse
  <2>2. runs[r].approval \in Approvals /\ RowMove(runs[r].approval)
    BY <2>1, RunStates DEF Run, RowMove
  <2>3. runs' \in Seq(Run) /\ Len(runs') <= MaxRuns
    <3>1. runs' = [runs EXCEPT ![r] = [runs[r] EXCEPT !.awaited = FALSE]]
      BY <2>1
    <3> QED BY <3>1, RunStates, RunWrites DEF Typed
  <2>4. Typed'
    BY <1>2, <1>3, <2>1, <2>2, <2>3, RowTypes DEF Typed, ApprovalTypeOK
  <2>5. ApprovalMove /\ RunsMove
    BY <2>1, <2>2 DEF ApprovalMove, RunsMove
  <2> QED BY <1>1, <2>4, <2>5 DEF StepMoves
<1>9. ASSUME NEW r \in DOMAIN runs, RunStep(r),
             UNCHANGED mishaps, UNCHANGED approvals
      PROVE  StepMoves
  <2>1. PICK state \in RunState : runs' = [runs EXCEPT ![r] = [runs[r] EXCEPT !.state = state]]
    BY <1>9, RunMoveWrites
  <2>2. runs' \in Seq(Run) /\ Len(runs') <= MaxRuns
    BY <2>1, RunStates, RunWrites DEF Typed
  <2>3. Typed'
    BY <1>2, <1>3, <1>9, <2>2, RunMoveWrites DEF Typed, ApprovalTypeOK
  <2>4. RunMove(r)
    BY <1>9 DEF RunMove
  <2>5. ApprovalMove /\ RunsMove
    BY <1>9, <2>4 DEF ApprovalMove, RunsMove
  <2> QED BY <1>1, <2>3, <2>5 DEF StepMoves
<1>10. ASSUME Drift, UNCHANGED approvals PROVE StepMoves
  <2>1. generation' \in generation..MaxGeneration /\ generation' \in 1..MaxGeneration
    BY <1>10 DEF Drift, Written, Typed
  <2>2. Typed'
    BY <1>2, <1>3, <1>10, <2>1 DEF Drift, Typed, ApprovalTypeOK
  <2>3. ApprovalMove /\ RunsMove
    BY <1>10, <2>1 DEF Drift, ApprovalMove, RunsMove
  <2> QED BY <1>1, <2>2, <2>3 DEF StepMoves
<1> QED
  BY <1>5, <1>6, <1>7, <1>8, <1>9, <1>10 DEF RoutesNext, ApprovalNext, WriteNext

(* Every step of the specification.                                        *)
LEMMA EveryStepMoves ==
    ASSUME Typed, PlansNamed, [RemediationNext]_remediationVars
    PROVE  StepMoves
<1>1. ASSUME NEW i \in Instances, RemediationStep(i) PROVE StepMoves
  <2>1. ASSUME Execute(i) PROVE StepMoves
    BY <2>1, CountMoves, ClaimActionMoves, CheckStaleMoves, FenceTargetMoves, ExecutingMoves,
       WriteMoves, AftermathMoves DEF Execute
  <2>2. ASSUME NEW p \in Plans, Propose(i, p) \/ Poll(i, p) \/ Resume(i, p) PROVE StepMoves
    BY <2>2, ProposeMoves, PollMoves, LifecycleMoves
  <2>3. ASSUME StartUp(i) \/ Reconciled(i) \/ Resumed(i) \/ Crash(i) PROVE StepMoves
    BY <2>3, LifecycleMoves
  <2> QED BY <1>1, <2>1, <2>2, <2>3, AnnounceMoves, DelegateMoves DEF RemediationStep
<1>2. CASE UNCHANGED remediationVars
  <2>1. UNCHANGED <<ledger, keyVars, pending, todo, task, lost, approvals, mishaps, writeVars>>
    BY <1>2 DEF remediationVars, routeVars, approvalVars
  <2>2. ThreadMove
    BY <2>1, StillMoves
  <2>3. Typed'
    BY <2>1 DEF Typed, ApprovalTypeOK, writeVars, keyVars
  <2>4. ApprovalMove /\ RunsMove
    BY <2>1 DEF ApprovalMove, RunsMove, writeVars, Typed
  <2> QED BY <2>2, <2>3, <2>4 DEF StepMoves
<1> QED BY <1>1, <1>2, OutsideMoves DEF RemediationNext

-----------------------------------------------------------------------------
(* What the moves keep.                                                    *)

(* Nothing that speaks against an approval is ever taken back, and a plan  *)
(* keeps the generation it was made for.                                   *)
LEMMA ApprovalsKept ==
    ASSUME Typed, ApprovalMove, NEW a \in Approvals
    PROVE  /\ Granted(a) => Granted(a)'
           /\ approvals[a].outcome \in {"denied", "withdrawn"} =>
                 approvals'[a].outcome \in {"denied", "withdrawn"}
           /\ approvals[a].expired => approvals'[a].expired
           /\ approvals[a].outcome # "absent" =>
                 /\ approvals'[a].outcome # "absent"
                 /\ approvals'[a].expects = approvals[a].expects
           /\ a \in Plans /\ approvals[a].outcome = "absent"
                 /\ approvals'[a].outcome # "absent" =>
                 approvals'[a].expects = generation
<1>1. /\ approvals \in [Approvals -> ApprovalRecord]
      /\ \A b \in Approvals : approvals[b] \in ApprovalRecord
  BY DEF Typed, ApprovalTypeOK
<1>2. ASSUME NEW b \in Approvals, RowMove(b), b # a PROVE approvals'[a] = approvals[a]
  BY <1>1, <1>2 DEF RowMove, Decide, MarkConsumed
<1>3. ASSUME NEW o \in ApprovalOutcome,
             approvals' = [approvals EXCEPT ![a].outcome = o]
      PROVE  /\ approvals'[a].outcome = o
             /\ approvals'[a].expired = approvals[a].expired
             /\ approvals'[a].expects = approvals[a].expects
  BY <1>1, <1>3 DEF ApprovalRecord
<1>4. ASSUME RowMove(a)
      PROVE  /\ Granted(a) => Granted(a)'
             /\ approvals[a].outcome \in {"denied", "withdrawn"} =>
                   approvals'[a].outcome \in {"denied", "withdrawn"}
             /\ approvals[a].expired => approvals'[a].expired
             /\ approvals[a].outcome # "absent" =>
                   /\ approvals'[a].outcome # "absent"
                   /\ approvals'[a].expects = approvals[a].expects
             /\ a \in Plans /\ approvals[a].outcome = "absent"
                   /\ approvals'[a].outcome # "absent" =>
                   approvals'[a].expects = generation
  <2>1. ASSUME approvals[a].outcome = "absent", NEW e \in 0..MaxGeneration,
               a \in Plans => e = generation,
               approvals' = [approvals EXCEPT ![a] =
                   [approvals[a] EXCEPT !.outcome = "pending", !.expects = e]]
        PROVE  /\ approvals'[a].outcome = "pending" /\ approvals'[a].expects = e
               /\ approvals'[a].expired = approvals[a].expired
    BY <1>1, <2>1 DEF ApprovalRecord
  <2>2. ASSUME NEW o \in {"granted", "denied"}, Decide(a, o)
        PROVE  /\ approvals[a].outcome = "pending"
               /\ approvals'[a].outcome = o
               /\ approvals'[a].expired = approvals[a].expired
               /\ approvals'[a].expects = approvals[a].expects
    BY <1>3, <2>2 DEF Decide, ApprovalOutcome
  <2>3. ASSUME approvals[a].outcome # "absent",
               approvals' = [approvals EXCEPT ![a].outcome = "withdrawn"]
        PROVE  /\ approvals'[a].outcome = "withdrawn"
               /\ approvals'[a].expired = approvals[a].expired
               /\ approvals'[a].expects = approvals[a].expects
    BY <1>3, <2>3 DEF ApprovalOutcome
  <2>4. ASSUME \/ approvals' = [approvals EXCEPT ![a].expired = TRUE]
               \/ MarkConsumed(a)
        PROVE  /\ approvals'[a].outcome = approvals[a].outcome
               /\ approvals[a].expired => approvals'[a].expired
               /\ approvals'[a].expects = approvals[a].expects
    BY <1>1, <2>4 DEF MarkConsumed, ApprovalRecord
  <2>5. CASE \E e \in 0..MaxGeneration :
                /\ approvals[a].outcome = "absent"
                /\ a \in Plans => e = generation
                /\ approvals' = [approvals EXCEPT ![a] =
                      [approvals[a] EXCEPT !.outcome = "pending", !.expects = e]]
    BY <2>1, <2>5 DEF Granted
  <2>6. CASE \E o \in {"granted", "denied"} : Decide(a, o)
    BY <2>2, <2>6 DEF Granted
  <2>7. CASE /\ approvals[a].outcome # "absent"
             /\ approvals' = [approvals EXCEPT ![a].outcome = "withdrawn"]
    BY <2>3, <2>7 DEF Granted
  <2>8. CASE \/ approvals' = [approvals EXCEPT ![a].expired = TRUE]
             \/ MarkConsumed(a)
    BY <2>4, <2>8 DEF Granted
  <2> QED BY <1>4, <2>5, <2>6, <2>7, <2>8 DEF RowMove
<1>5. CASE approvals'[a] = approvals[a]
  BY <1>5 DEF Granted
<1> QED BY <1>2, <1>4, <1>5 DEF ApprovalMove

(* Runs are never dropped and never change hands; one comes only by being  *)
(* started.                                                                *)
LEMMA RunsKept ==
    ASSUME Typed, RunsMove
    PROVE  /\ generation' \in Nat /\ generation' >= generation
           /\ \A b \in Approvals :
                 \/ RunsOf(b)' = RunsOf(b)
                 \/ Started(b) /\ RunsOf(b)' = RunsOf(b) \cup {Len(runs) + 1}
           /\ \A s \in DOMAIN runs' :
                 \/ s \in DOMAIN runs /\ runs'[s].approval = runs[s].approval
                 \/ Started(runs'[s].approval)
<1>1. generation \in Nat
  BY DEF Typed
<1>2. CASE runs' = runs /\ generation' \in generation..MaxGeneration
  BY <1>1, <1>2 DEF RunsOf
<1>3. ASSUME NEW r \in DOMAIN runs, NEW x \in Run, x.approval = runs[r].approval,
             runs' = [runs EXCEPT ![r] = x]
      PROVE  /\ \A b \in Approvals : RunsOf(b)' = RunsOf(b)
             /\ \A s \in DOMAIN runs' : s \in DOMAIN runs /\ runs'[s].approval = runs[s].approval
  <2>1. /\ DOMAIN runs' = DOMAIN runs
        /\ \A s \in DOMAIN runs : runs'[s].approval = runs[s].approval
    BY <1>3, RunWrites
  <2> QED BY <2>1 DEF RunsOf
<1>4. ASSUME NEW r \in DOMAIN runs, runs' = [runs EXCEPT ![r].awaited = FALSE],
             generation' = generation
      PROVE  /\ generation' \in Nat /\ generation' >= generation
             /\ \A b \in Approvals : RunsOf(b)' = RunsOf(b)
             /\ \A s \in DOMAIN runs' : s \in DOMAIN runs /\ runs'[s].approval = runs[s].approval
  <2>1. runs' = [runs EXCEPT ![r] = [runs[r] EXCEPT !.awaited = FALSE]]
    BY <1>4
  <2>2. PICK x \in Run : x.approval = runs[r].approval /\ runs' = [runs EXCEPT ![r] = x]
    BY <2>1, RunStates
  <2>3. generation' \in Nat /\ generation' >= generation
    BY <1>1, <1>4
  <2> QED BY <1>3, <2>2, <2>3
<1>5. ASSUME NEW r \in DOMAIN runs, RunMove(r)
      PROVE  /\ generation' \in Nat /\ generation' >= generation
             /\ \A b \in Approvals : RunsOf(b)' = RunsOf(b)
             /\ \A s \in DOMAIN runs' : s \in DOMAIN runs /\ runs'[s].approval = runs[s].approval
  <2>1. PICK state \in RunState : runs' = [runs EXCEPT ![r] = [runs[r] EXCEPT !.state = state]]
    BY <1>5, RunMoveWrites DEF RunMove
  <2>2. generation' \in Nat /\ generation' >= generation
    BY <1>5, RunMoveWrites DEF RunMove
  <2> QED BY <1>3, <2>1, <2>2, RunStates
<1>6. ASSUME NEW a \in Approvals, Started(a)
      PROVE  /\ generation' = generation
             /\ \A b \in Approvals : b # a => RunsOf(b)' = RunsOf(b)
             /\ RunsOf(a)' = RunsOf(a) \cup {Len(runs) + 1}
             /\ \A s \in DOMAIN runs' :
                   \/ s \in DOMAIN runs /\ runs'[s].approval = runs[s].approval
                   \/ runs'[s].approval = a
  <2>1. PICK x \in Run : x.approval = a /\ runs' = Append(runs, x)
    BY <1>6 DEF Started
  <2>2. runs \in Seq(Run) /\ Len(runs) \in Nat /\ DOMAIN runs = 1..Len(runs)
    BY LenProperties DEF Typed
  <2>3. /\ DOMAIN runs' = 1..(Len(runs) + 1)
        /\ \A s \in DOMAIN runs : runs'[s] = runs[s]
        /\ runs'[Len(runs) + 1] = x
    BY <2>1, <2>2, AppendProperties
  <2>4. DOMAIN runs' = DOMAIN runs \cup {Len(runs) + 1} /\ Len(runs) + 1 \notin DOMAIN runs
    BY <2>2, <2>3
  <2>5. \A b \in Approvals : b # a => RunsOf(b)' = RunsOf(b)
    BY <2>1, <2>3, <2>4 DEF RunsOf
  <2>6. RunsOf(a)' = RunsOf(a) \cup {Len(runs) + 1}
    BY <2>1, <2>3, <2>4 DEF RunsOf
  <2> QED BY <1>6, <2>1, <2>3, <2>4, <2>5, <2>6 DEF Started
<1> QED
  <2>1. CASE \E a \in Approvals : Started(a)
    BY <1>1, <1>6, <2>1
  <2> QED BY <1>2, <1>4, <1>5, <2>1 DEF RunsMove

-----------------------------------------------------------------------------
(* The invariant is kept, part by part.                                    *)

LEMMA PlansNamedStep ==
    ASSUME Typed, PlansNamed, StepMoves
    PROVE  PlansNamed'
<1>1. Plans \subseteq Approvals /\ \A r \in DOMAIN runs : runs[r].approval \in Approvals
  BY RunStates DEF Run
<1>2. ApprovalMove /\ RunsMove /\ SettlingMove
  BY DEF StepMoves, ThreadMove
<1>3. ASSUME NEW p \in Plans, approvals'[p].outcome # "absent"
      PROVE  approvals'[p].expects \in 1..generation'
  <2>1. generation \in 1..MaxGeneration /\ generation' \in Nat /\ generation' >= generation
    BY <1>2, RunsKept DEF Typed
  <2>2. approvals'[p].expects \in 1..generation
    <3>1. CASE approvals[p].outcome = "absent"
      BY <1>1, <1>2, <1>3, <2>1, <3>1, ApprovalsKept
    <3>2. CASE approvals[p].outcome # "absent"
      BY <1>1, <1>2, <3>2, ApprovalsKept DEF PlansNamed
    <3> QED BY <3>1, <3>2
  <2> QED BY <2>1, <2>2
<1>4. ASSUME NEW i \in Instances
      PROVE  /\ task'[i].at \notin {"down", "resuming", "idle"} => task'[i].plan \in Plans
             /\ task'[i].at \in Settling => approvals'[task'[i].plan].outcome \in {"granted", "withdrawn"}
  <2>1. task'[i].at \notin {"down", "resuming", "idle"} => task'[i].plan \in Plans
    BY <1>2 DEF SettlingMove
  <2>2. ASSUME task[i].at \in Settling
        PROVE  approvals'[task[i].plan].outcome \in {"granted", "withdrawn"}
    <3>1. task[i].plan \in Plans /\ Granted(task[i].plan)
      BY <2>2 DEF PlansNamed, Settling
    <3> QED BY <1>1, <1>2, <3>1, ApprovalsKept DEF Granted
  <2> QED BY <1>2, <2>1, <2>2 DEF SettlingMove
<1>5. ASSUME NEW s \in DOMAIN runs'
      PROVE  approvals'[runs'[s].approval].outcome \in {"granted", "withdrawn"}
  <2>1. CASE s \in DOMAIN runs /\ runs'[s].approval = runs[s].approval
    BY <1>1, <1>2, <2>1, ApprovalsKept DEF PlansNamed, Granted
  <2>2. CASE Started(runs'[s].approval)
    BY <2>2 DEF Started, IsValidFor
  <2> QED BY <1>2, <2>1, <2>2, RunsKept
<1> QED BY <1>3, <1>4, <1>5 DEF PlansNamed, Granted

(* A plan is started by its holder, who holds it no longer.                *)
LEMMA OneRunEachStep ==
    ASSUME Typed, PlansNamed, OneRunEach, StepMoves
    PROVE  OneRunEach'
<1>1. RunsMove /\ KeysMove
  BY DEF StepMoves, ThreadMove
<1>2. SUFFICES ASSUME NEW p \in Plans
               PROVE  /\ p \notin actionKeys' => RunsOf(p)' = {}
                      /\ \A i \in Instances : Holds(i, p)' =>
                            /\ p \in actionKeys'
                            /\ RunsOf(p)' = {}
                            /\ \A j \in Instances : Holds(j, p)' => j = i
                      /\ \A r, s \in RunsOf(p)' : r = s
  BY DEF OneRunEach
<1>3. \/ RunsOf(p)' = RunsOf(p)
      \/ Started(p) /\ RunsOf(p)' = RunsOf(p) \cup {Len(runs) + 1}
  BY <1>1, RunsKept
<1>4. CASE RunsOf(p)' = RunsOf(p)
  <2>1. p \notin actionKeys' => RunsOf(p)' = {}
    BY <1>1, <1>4 DEF KeysMove, OneRunEach
  <2>2. ASSUME NEW i \in Instances, Holds(i, p)'
        PROVE  /\ p \in actionKeys'
               /\ RunsOf(p)' = {}
               /\ \A j \in Instances : Holds(j, p)' => j = i
    <3>1. CASE Holds(i, p)
      BY <1>1, <1>4, <3>1 DEF KeysMove, OneRunEach
    <3>2. CASE /\ p \notin actionKeys /\ p \in actionKeys'
               /\ \A j \in Instances \ {i} : task'[j] = task[j]
      <4>1. \A j \in Instances \ {i} : ~Holds(j, p)'
        BY <3>2 DEF OneRunEach, Holds, Has
      <4> QED BY <1>4, <3>2, <4>1 DEF OneRunEach
    <3> QED BY <1>1, <2>2, <3>1, <3>2 DEF KeysMove
  <2> QED BY <1>4, <2>1, <2>2 DEF OneRunEach
<1>5. CASE Started(p) /\ RunsOf(p)' = RunsOf(p) \cup {Len(runs) + 1}
  <2>1. PICK i \in Instances : Writing(i, p) /\ task' = [task EXCEPT ![i].at = "driving"]
    BY <1>5 DEF Started
  <2>2. actionKeys' = actionKeys
    BY <1>5 DEF Started, keyVars
  <2>3. Holds(i, p)
    BY <2>1 DEF Writing, Holds, Has
  <2>4. p \in actionKeys /\ RunsOf(p) = {} /\ \A j \in Instances : Holds(j, p) => j = i
    BY <2>3 DEF OneRunEach
  <2>5. \A j \in Instances : ~Holds(j, p)'
    <3>1. /\ task'[i].at = "driving"
          /\ \A j \in Instances \ {i} : task'[j] = task[j]
      BY <2>1 DEF Typed, Task
    <3> QED BY <2>4, <3>1 DEF Holds, Has
  <2> QED BY <1>5, <2>2, <2>4, <2>5
<1> QED BY <1>3, <1>4, <1>5

(* What was closed before it was started is out of everyone's hands.       *)
LEMMA UnstartedStep ==
    ASSUME Typed, PlansNamed, OneRunEach, UnstartedNeverRun, StepMoves
    PROVE  UnstartedNeverRun'
<1>1. ApprovalMove /\ RunsMove /\ KeysMove /\ ClosingMove
  BY DEF StepMoves, ThreadMove
<1>2. SUFFICES ASSUME NEW p \in Plans, ClosedUnstarted(p)'
               PROVE  NeverRun(p)'
  BY DEF UnstartedNeverRun
<1>3. p \in Approvals
  OBVIOUS
<1>4. CASE ClosedUnstarted(p)
  <2>1. NeverRun(p)
    BY <1>4 DEF UnstartedNeverRun
  <2>2. ~Started(p)
    <3>1. ASSUME Started(p) PROVE FALSE
      <4>1. PICK i \in Instances : Writing(i, p)
        BY <3>1 DEF Started
      <4>2. Holds(i, p)
        BY <4>1 DEF Writing, Holds, Has
      <4> QED BY <2>1, <3>1, <4>2 DEF Started, IsValidFor, NeverRun
    <3> QED BY <3>1
  <2>3. RunsOf(p)' = {}
    BY <1>1, <1>3, <2>1, <2>2, RunsKept DEF NeverRun
  <2>4. CASE approvals[p].outcome \in {"denied", "withdrawn"} \/ approvals[p].expired
    BY <1>1, <1>3, <2>3, <2>4, ApprovalsKept DEF NeverRun
  <2>5. CASE p \in actionKeys /\ \A i \in Instances : ~Holds(i, p)
    BY <1>1, <2>3, <2>5 DEF KeysMove, NeverRun
  <2> QED BY <2>1, <2>4, <2>5 DEF NeverRun
<1>5. CASE /\ UNCHANGED <<approvals, runs, actionKeys>>
           /\ \/ \E i \in Instances : Holds(i, p) /\ task' = [task EXCEPT ![i] = Idle]
              \/ approvals[p].outcome = "denied"
              \/ approvals[p].outcome = "pending" /\ approvals[p].expired
  <2>1. RunsOf(p)' = RunsOf(p)
    BY <1>5 DEF RunsOf
  <2>2. CASE \/ approvals[p].outcome = "denied"
             \/ approvals[p].outcome = "pending" /\ approvals[p].expired
    <3>1. RunsOf(p) = {}
      BY <2>2 DEF RunsOf, PlansNamed, Granted
    <3> QED BY <1>5, <2>1, <2>2, <3>1 DEF NeverRun
  <2>3. ASSUME NEW i \in Instances, Holds(i, p), task' = [task EXCEPT ![i] = Idle]
        PROVE  NeverRun(p)'
    <3>1. p \in actionKeys /\ RunsOf(p) = {} /\ \A j \in Instances : Holds(j, p) => j = i
      BY <2>3 DEF OneRunEach
    <3>2. /\ task'[i].at = "idle"
          /\ \A j \in Instances \ {i} : task'[j] = task[j]
      BY <2>3 DEF Typed, Idle, At
    <3>3. \A j \in Instances : ~Holds(j, p)'
      BY <3>1, <3>2 DEF Holds, Has
    <3> QED BY <1>5, <2>1, <3>1, <3>3 DEF NeverRun
  <2> QED BY <1>5, <2>2, <2>3
<1> QED BY <1>1, <1>2, <1>4, <1>5 DEF ClosingMove

LEMMA RunsFinite ==
    ASSUME Typed, NEW a
    PROVE  /\ IsFiniteSet(RunsOf(a)) /\ Cardinality(RunsOf(a)) <= Len(runs)
           /\ Cardinality(RunsOf(a)) \in Nat
           /\ \A S : IsFiniteSet(RunsIn(a, S)) /\ Cardinality(RunsIn(a, S)) \in Nat
<1>1. runs \in Seq(Run) /\ Len(runs) \in Nat /\ DOMAIN runs = 1..Len(runs)
  BY LenProperties DEF Typed
<1>2. IsFiniteSet(DOMAIN runs) /\ Cardinality(DOMAIN runs) = Len(runs)
  BY <1>1, FS_Interval
<1>3. RunsOf(a) \subseteq DOMAIN runs /\ \A S : RunsIn(a, S) \subseteq DOMAIN runs
  BY DEF RunsOf, RunsIn
<1>4. \A S \in SUBSET DOMAIN runs : IsFiniteSet(S) /\ Cardinality(S) <= Len(runs)
  BY <1>2, FS_Subset
<1>5. \A S \in SUBSET DOMAIN runs : Cardinality(S) \in Nat
  BY <1>4, FS_CardinalityType
<1> QED BY <1>3, <1>4, <1>5

(* A run that goes to a state joins the runs of its approval that are in   *)
(* one of the states S, or leaves them.                                    *)
LEMMA StateMove ==
    ASSUME Typed, NEW a, NEW S, NEW r \in DOMAIN runs, NEW state \in RunState,
           runs' = [runs EXCEPT ![r].state = state]
    PROVE  /\ RunsOf(a)' = RunsOf(a)
           /\ runs[r].approval # a \/ (runs[r].state \in S <=> state \in S)
                => RunsIn(a, S)' = RunsIn(a, S)
           /\ runs[r].approval = a /\ runs[r].state \in S /\ state \notin S
                => Cardinality(RunsIn(a, S)') = Cardinality(RunsIn(a, S)) - 1
           /\ runs[r].approval = a /\ runs[r].state \notin S /\ state \in S
                => Cardinality(RunsIn(a, S)') = Cardinality(RunsIn(a, S)) + 1
<1>1. PICK x \in Run : /\ x.approval = runs[r].approval /\ x.state = state
                       /\ runs' = [runs EXCEPT ![r] = x]
  <2>1. runs' = [runs EXCEPT ![r] = [runs[r] EXCEPT !.state = state]]
    OBVIOUS
  <2> QED BY <2>1, RunStates
<1>2. /\ DOMAIN runs' = DOMAIN runs
      /\ runs'[r] = x
      /\ \A s \in DOMAIN runs : s # r => runs'[s] = runs[s]
  BY <1>1, RunWrites
<1>3. IsFiniteSet(RunsIn(a, S))
  BY RunsFinite
<1>4. RunsOf(a)' = RunsOf(a)
  BY <1>1, <1>2 DEF RunsOf
<1>5. CASE runs[r].approval # a \/ (runs[r].state \in S <=> state \in S)
  <2>1. RunsIn(a, S)' = RunsIn(a, S)
    BY <1>1, <1>2, <1>5 DEF RunsIn
  <2> QED BY <1>4, <1>5, <2>1
<1>6. CASE runs[r].approval = a /\ runs[r].state \in S /\ state \notin S
  <2>1. RunsIn(a, S)' = RunsIn(a, S) \ {r} /\ r \in RunsIn(a, S)
    BY <1>1, <1>2, <1>6 DEF RunsIn
  <2>2. Cardinality(RunsIn(a, S)') = Cardinality(RunsIn(a, S)) - 1
    BY <1>3, <2>1, FS_RemoveElement
  <2> QED BY <1>4, <1>6, <2>2
<1>7. CASE runs[r].approval = a /\ runs[r].state \notin S /\ state \in S
  <2>1. RunsIn(a, S)' = RunsIn(a, S) \cup {r} /\ r \notin RunsIn(a, S)
    BY <1>1, <1>2, <1>7 DEF RunsIn
  <2>2. Cardinality(RunsIn(a, S)') = Cardinality(RunsIn(a, S)) + 1
    BY <1>3, <2>1, FS_AddElement
  <2> QED BY <1>4, <1>7, <2>2
<1> QED BY <1>5, <1>6, <1>7

LEMMA AwaitedMove ==
    ASSUME Typed, NEW a, NEW r \in DOMAIN runs, runs' = [runs EXCEPT ![r].awaited = FALSE]
    PROVE  RunsOf(a)' = RunsOf(a) /\ \A S : RunsIn(a, S)' = RunsIn(a, S)
<1>1. PICK x \in Run : /\ x.approval = runs[r].approval /\ x.state = runs[r].state
                       /\ runs' = [runs EXCEPT ![r] = x]
  <2>1. runs' = [runs EXCEPT ![r] = [runs[r] EXCEPT !.awaited = FALSE]]
    OBVIOUS
  <2> QED BY <2>1, RunStates
<1>2. /\ DOMAIN runs' = DOMAIN runs
      /\ runs'[r] = x
      /\ \A s \in DOMAIN runs : s # r => runs'[s] = runs[s]
  BY <1>1, RunWrites
<1> QED BY <1>1, <1>2 DEF RunsOf, RunsIn

\* The run that is started is one more of its approval, and perhaps dispatchable.
LEMMA StartMove ==
    ASSUME Typed, NEW b \in Approvals, Started(b), NEW a
    PROVE  /\ \A S : "bound" \notin S /\ "unbound" \notin S => RunsIn(a, S)' = RunsIn(a, S)
           /\ a # b => RunsOf(a)' = RunsOf(a) /\ Unasked(a)' = Unasked(a)
           /\ a = b => /\ Cardinality(RunsOf(a)') = Cardinality(RunsOf(a)) + 1
                       /\ Cardinality(Unasked(a)') \in
                             {Cardinality(Unasked(a)), Cardinality(Unasked(a)) + 1}
<1>1. PICK x \in Run : /\ x.approval = b /\ x.state \in {"bound", "unbound"}
                       /\ runs' = Append(runs, x)
  BY DEF Started
<1>2. runs \in Seq(Run) /\ Len(runs) \in Nat /\ DOMAIN runs = 1..Len(runs)
  BY LenProperties DEF Typed
<1>3. /\ DOMAIN runs' = 1..(Len(runs) + 1)
      /\ \A s \in DOMAIN runs : runs'[s] = runs[s]
      /\ runs'[Len(runs) + 1] = x
  BY <1>1, <1>2, AppendProperties
<1>4. PICK n : n = Len(runs) + 1 /\ n \notin DOMAIN runs /\ DOMAIN runs' = DOMAIN runs \cup {n}
  BY <1>2, <1>3
<1>5. ASSUME NEW S, "bound" \notin S, "unbound" \notin S
      PROVE  RunsIn(a, S)' = RunsIn(a, S)
  BY <1>1, <1>3, <1>4, <1>5 DEF RunsIn
<1>6. CASE a # b
  <2>1. RunsOf(a)' = RunsOf(a) /\ Unasked(a)' = Unasked(a)
    BY <1>1, <1>3, <1>4, <1>6 DEF RunsOf, RunsIn, Unasked
  <2> QED BY <1>5, <1>6, <2>1
<1>7. CASE a = b
  <2>1. /\ RunsOf(a)' = RunsOf(a) \cup {n} /\ n \notin RunsOf(a)
        /\ Unasked(a)' \in {Unasked(a), Unasked(a) \cup {n}} /\ n \notin Unasked(a)
    BY <1>1, <1>3, <1>4, <1>7 DEF RunsOf, RunsIn, Unasked
  <2>2. IsFiniteSet(RunsOf(a)) /\ IsFiniteSet(Unasked(a))
    BY RunsFinite DEF Unasked
  <2>3. /\ Cardinality(RunsOf(a)') = Cardinality(RunsOf(a)) + 1
        /\ Cardinality(Unasked(a)') \in {Cardinality(Unasked(a)), Cardinality(Unasked(a)) + 1}
    BY <2>1, <2>2, FS_AddElement
  <2> QED BY <1>5, <1>7, <2>3
<1> QED BY <1>6, <1>7

(* How often a run was asked for, and took effect, set against its state.  *)
LEMMA TallyStep ==
    ASSUME Typed, Tally, StepMoves
    PROVE  Tally'
<1>1. SUFFICES ASSUME NEW a \in Approvals PROVE Tallied(a)'
  BY DEF Tally
<1>2. /\ asked[a] \in Nat /\ landed[a] \in Nat
      /\ Cardinality(RunsOf(a)) \in Nat
      /\ Cardinality(Unasked(a)) \in Nat
      /\ Cardinality(Invoked(a)) \in Nat
  BY RunsFinite DEF Typed, Unasked, Invoked
<1>3. /\ asked[a] + Cardinality(Unasked(a)) <= Cardinality(RunsOf(a))
      /\ landed[a] + Cardinality(Invoked(a)) <= asked[a]
  BY DEF Tally, Tallied
<1>4. CASE /\ RunsOf(a)' = RunsOf(a)
           /\ Unasked(a)' = Unasked(a)
           /\ Invoked(a)' = Invoked(a)
           /\ asked'[a] = asked[a] /\ landed'[a] = landed[a]
  BY <1>3, <1>4 DEF Tallied
<1>5. CASE runs' = runs /\ UNCHANGED <<asked, landed>>
  BY <1>4, <1>5 DEF RunsOf, RunsIn, Unasked, Invoked
<1>6. ASSUME NEW r \in DOMAIN runs, runs' = [runs EXCEPT ![r].awaited = FALSE],
             UNCHANGED <<asked, landed>>
      PROVE  Tallied(a)'
  BY <1>4, <1>6, AwaitedMove DEF Unasked, Invoked
<1>7. ASSUME NEW b \in Approvals, Started(b) PROVE Tallied(a)'
  <2>1. asked' = asked /\ landed' = landed
    BY <1>7 DEF Started
  <2>2. Invoked(a)' = Invoked(a)
    <3>1. "bound" \notin {"invoked"} /\ "unbound" \notin {"invoked"}
      OBVIOUS
    <3> QED BY <1>7, <3>1, StartMove DEF Invoked
  <2>3. CASE b # a
    BY <1>4, <1>7, <2>1, <2>2, <2>3, StartMove
  <2>4. CASE b = a
    <3>1. /\ Cardinality(RunsOf(a)') = Cardinality(RunsOf(a)) + 1
          /\ Cardinality(Unasked(a)') \in {Cardinality(Unasked(a)), Cardinality(Unasked(a)) + 1}
      BY <1>7, <2>4, StartMove
    <3>2. \A k, c, d, m \in Nat : k + c <= m /\ d \in {c, c + 1} => k + d <= m + 1
      OBVIOUS
    <3>3. Cardinality(Unasked(a)') \in Nat
      BY <1>2, <3>1
    <3>4. asked[a] + Cardinality(Unasked(a)') <= Cardinality(RunsOf(a)) + 1
      BY <1>2, <1>3, <3>1, <3>2, <3>3
    <3> QED BY <1>3, <2>1, <2>2, <3>1, <3>4 DEF Tallied
  <2> QED BY <2>3, <2>4
<1>8. ASSUME NEW r \in DOMAIN runs, RunMove(r) PROVE Tallied(a)'
  <2>1. asked \in [Approvals -> Nat] /\ landed \in [Approvals -> Nat]
    BY DEF Typed
  <2>2. RunStep(r)
    BY <1>8 DEF RunMove
  <2>3. CASE runs[r].approval # a
    <3>1. asked'[a] = asked[a] /\ landed'[a] = landed[a]
      BY <2>1, <2>2, <2>3, RunStates DEF Run, RunStep, Admit, Refuse, Invoke, Land, NotLanded
    <3>2. PICK state \in RunState : runs' = [runs EXCEPT ![r].state = state]
      BY <2>2, RunMoveWrites
    <3>3. RunsOf(a)' = RunsOf(a) /\ Unasked(a)' = Unasked(a) /\ Invoked(a)' = Invoked(a)
      BY <2>3, <3>2, StateMove DEF Unasked, Invoked
    <3> QED BY <1>4, <3>1, <3>3
  <2>4. ASSUME runs[r].approval = a, Admit(r) PROVE Tallied(a)'
    <3>1. /\ runs[r].state = "bound" /\ "admitted" \in RunState
          /\ runs' = [runs EXCEPT ![r].state = "admitted"]
          /\ asked' = asked /\ landed' = landed
      BY <2>4 DEF Admit, InState, RunState
    <3>2. RunsOf(a)' = RunsOf(a) /\ Unasked(a)' = Unasked(a) /\ Invoked(a)' = Invoked(a)
      BY <3>1, StateMove DEF Unasked, Invoked
    <3> QED BY <1>4, <3>1, <3>2
  <2>5. ASSUME runs[r].approval = a, Refuse(r) PROVE Tallied(a)'
    <3>1. /\ runs[r].state \in {"bound", "admitted"} /\ "ended" \in RunState
          /\ runs' = [runs EXCEPT ![r].state = "ended"]
          /\ asked' = asked /\ landed' = landed
      BY <2>5 DEF Refuse, InState, RunState
    <3>2. /\ RunsOf(a)' = RunsOf(a)
          /\ Invoked(a)' = Invoked(a)
          /\ Cardinality(Unasked(a)') = Cardinality(Unasked(a)) - 1
      BY <2>5, <3>1, StateMove DEF Unasked, Invoked
    <3>3. \A k, c, m \in Nat : k + c <= m => k + (c - 1) <= m
      OBVIOUS
    <3>4. asked[a] + (Cardinality(Unasked(a)) - 1) <= Cardinality(RunsOf(a))
      BY <1>2, <1>3, <3>3
    <3> QED BY <1>3, <3>1, <3>2, <3>4 DEF Tallied
  <2>6. ASSUME runs[r].approval = a, Invoke(r) PROVE Tallied(a)'
    <3>1. /\ runs[r].state = "admitted" /\ "invoked" \in RunState
          /\ runs' = [runs EXCEPT ![r].state = "invoked"]
          /\ asked'[a] = asked[a] + 1 /\ landed' = landed
      BY <2>1, <2>6 DEF Invoke, InState, RunState
    <3>2. /\ RunsOf(a)' = RunsOf(a)
          /\ Cardinality(Unasked(a)') = Cardinality(Unasked(a)) - 1
          /\ Cardinality(Invoked(a)') = Cardinality(Invoked(a)) + 1
      BY <2>6, <3>1, StateMove DEF Unasked, Invoked
    <3>3. \A k, c, m, d, l \in Nat : k + c <= m /\ l + d <= k =>
            (k + 1) + (c - 1) <= m /\ l + (d + 1) <= k + 1
      OBVIOUS
    <3>4. /\ (asked[a] + 1) + (Cardinality(Unasked(a)) - 1) <= Cardinality(RunsOf(a))
          /\ landed[a] + (Cardinality(Invoked(a)) + 1) <= asked[a] + 1
      BY <1>2, <1>3, <3>3
    <3> QED BY <3>1, <3>2, <3>4 DEF Tallied
  <2>7. ASSUME runs[r].approval = a, Land(r) \/ NotLanded(r) PROVE Tallied(a)'
    <3>1. /\ runs[r].state = "invoked"
          /\ asked' = asked /\ landed'[a] \in {landed[a], landed[a] + 1}
      BY <2>1, <2>7 DEF Land, NotLanded, InState
    <3>2. PICK state \in {"succeeded", "ended"} : runs' = [runs EXCEPT ![r].state = state]
      BY <2>7 DEF Land, NotLanded
    <3>3. state \in RunState
      BY <3>2 DEF RunState
    <3>4. /\ RunsOf(a)' = RunsOf(a)
          /\ Unasked(a)' = Unasked(a)
          /\ Cardinality(Invoked(a)') = Cardinality(Invoked(a)) - 1
      BY <2>7, <3>1, <3>2, <3>3, StateMove DEF Unasked, Invoked
    <3>5. \A k, d, l, m \in Nat : l + d <= k /\ m \in {l, l + 1} => m + (d - 1) <= k
      OBVIOUS
    <3>6. landed'[a] + (Cardinality(Invoked(a)) - 1) <= asked[a]
      <4>1. landed'[a] \in Nat
        BY <1>2, <3>1
      <4> QED BY <1>2, <1>3, <3>1, <3>5, <4>1
    <3> QED BY <1>3, <3>1, <3>4, <3>6 DEF Tallied
  <2> QED BY <2>2, <2>3, <2>4, <2>5, <2>6, <2>7 DEF RunStep
<1> QED BY <1>5, <1>6, <1>7, <1>8 DEF StepMoves, RunsMove

(* What took effect was started.                                           *)
LEMMA EffectiveRan ==
    ASSUME Typed, Tally, NEW p \in Plans, landed[p] > 0
    PROVE  RunsOf(p) # {}
<1>1. /\ Cardinality(Unasked(p)) \in Nat /\ Cardinality(Invoked(p)) \in Nat
      /\ asked[p] \in Nat /\ landed[p] \in Nat
  BY RunsFinite DEF Typed, Unasked, Invoked
<1>2. /\ asked[p] + Cardinality(Unasked(p)) <= Cardinality(RunsOf(p))
      /\ landed[p] + Cardinality(Invoked(p)) <= asked[p]
  BY DEF Tally, Tallied
<1>3. ASSUME RunsOf(p) = {} PROVE FALSE
  <2>1. Cardinality(RunsOf(p)) = 0
    BY <1>3, FS_EmptySet
  <2> QED BY <1>1, <1>2, <2>1
<1> QED BY <1>3

LEMMA CommittedGranted ==
    ASSUME PlansNamed, NEW p \in Plans, Committed(p)
    PROVE  /\ Granted(p)
           /\ approvals[p].outcome # "absent"
           /\ approvals[p].expects \in 1..generation
<1>1. Granted(p)
  BY DEF PlansNamed, Committed, Committing, Has, RunsOf
<1> QED BY <1>1 DEF PlansNamed, Granted

(* One more record is lost for one more plan ventured without a record.    *)
LEMMA UnrecordedStep ==
    ASSUME Typed, StepMoves, IsFiniteSet(Unrecorded), Cardinality(Unrecorded) <= lost
    PROVE  IsFiniteSet(Unrecorded)' /\ Cardinality(Unrecorded)' <= lost'
<1>1. RunsMove /\ RecordMove
  BY DEF StepMoves, ThreadMove
<1>2. lost \in Nat /\ lost' \in {lost, lost + 1} /\ Cardinality(Unrecorded) \in Nat
  BY <1>1, FS_CardinalityType DEF Typed, ApprovalTypeOK, RecordMove
<1>3. \A q \in Plans : ~ledger'[q].executing => ~ledger[q].executing
  BY <1>1 DEF RecordMove
<1>4. CASE \E i \in Instances, p \in Plans :
              Writing(i, p)' /\ ~Writing(i, p) /\ ~ledger'[p].executing
  <2>1. PICK i \in Instances, p \in Plans :
           Writing(i, p)' /\ ~Writing(i, p) /\ ~ledger'[p].executing
    BY <1>4
  <2>2. /\ lost' = lost + 1 /\ runs' = runs
        /\ \A j \in Instances \ {i} : task'[j] = task[j]
    BY <1>1, <2>1 DEF RecordMove
  <2>3. \A q \in Plans : RunsOf(q)' = RunsOf(q)
    BY <2>2 DEF RunsOf
  <2>4. \A j \in Instances, q \in Plans : Writing(j, q)' => Writing(j, q) \/ q = p
    BY <2>1, <2>2 DEF Writing, Has
  <2>5. Unrecorded' \subseteq Unrecorded \cup {p}
    BY <1>3, <2>3, <2>4 DEF Unrecorded, Ventured
  <2>6. /\ IsFiniteSet(Unrecorded \cup {p})
        /\ Cardinality(Unrecorded \cup {p}) \in {Cardinality(Unrecorded), Cardinality(Unrecorded) + 1}
    BY FS_AddElement
  <2>7. /\ IsFiniteSet(Unrecorded')
        /\ Cardinality(Unrecorded') <= Cardinality(Unrecorded \cup {p})
        /\ Cardinality(Unrecorded') \in Nat
    BY <2>5, <2>6, FS_Subset, FS_CardinalityType
  <2> QED BY <1>2, <2>2, <2>6, <2>7
<1>5. CASE \A i \in Instances, p \in Plans :
              Writing(i, p)' /\ ~ledger'[p].executing => Writing(i, p)
  <2>1. ASSUME NEW q \in Plans, RunsOf(q)' # {} PROVE Ventured(q)
    <3>1. RunsOf(q)' = RunsOf(q) \/ Started(q)
      BY <1>1, RunsKept
    <3> QED BY <2>1, <3>1 DEF Started, Ventured
  <2>2. Unrecorded' \subseteq Unrecorded
    BY <1>3, <1>5, <2>1 DEF Unrecorded, Ventured
  <2>3. /\ IsFiniteSet(Unrecorded')
        /\ Cardinality(Unrecorded') <= Cardinality(Unrecorded)
        /\ Cardinality(Unrecorded') \in Nat
    BY <2>2, FS_Subset, FS_CardinalityType
  <2> QED BY <1>2, <2>3
<1> QED BY <1>4, <1>5

LEMMA ExecutedStep ==
    ASSUME Typed, StepMoves, IsFiniteSet(Executed)
    PROVE  IsFiniteSet(Executed)'
<1>1. RecordMove
  BY DEF StepMoves, ThreadMove
<1>2. CASE \E p \in Plans : ledger'[p].executing /\ ~ledger[p].executing
  <2>1. PICK p \in Plans : ledger'[p].executing /\ ~ledger[p].executing
    BY <1>2
  <2>2. Executed' \subseteq Executed \cup {p}
    BY <1>1, <2>1 DEF RecordMove, Executed
  <2> QED BY <2>2, FS_AddElement, FS_Subset
<1>3. CASE \A p \in Plans : ledger'[p].executing => ledger[p].executing
  <2>1. Executed' \subseteq Executed
    BY <1>3 DEF Executed
  <2> QED BY <2>1, FS_Subset
<1> QED BY <1>2, <1>3

(* Whoever passes the count passes it while there is budget left.          *)
LEMMA CountLeavesRoom ==
    ASSUME Typed, Tally, Budgeted, NEW p \in Plans,
           lost' \in {lost, lost + 1},
           Spent < MaxExecutions \/ lost' = lost + 1
    PROVE  Cardinality(Earlier(p)) < MaxExecutions + lost'
<1>1. IsFiniteSet(Effective) /\ IsFiniteSet(Executed) /\ IsFiniteSet(Unrecorded)
  BY DEF Budgeted
<1>2. Earlier(p) \subseteq Effective
  BY DEF Earlier
<1>3. /\ IsFiniteSet(Earlier(p)) /\ Cardinality(Earlier(p)) <= Cardinality(Effective)
      /\ Cardinality(Earlier(p)) \in Nat
  BY <1>1, <1>2, FS_Subset, FS_CardinalityType
<1>4. /\ lost \in Nat /\ MaxExecutions \in Nat
      /\ Cardinality(Effective) \in Nat /\ Cardinality(Effective) <= MaxExecutions + lost
      /\ Cardinality(Unrecorded) \in Nat /\ Cardinality(Unrecorded) <= lost
      /\ Cardinality(Executed) \in Nat
  BY <1>1, FS_CardinalityType DEF Typed, ApprovalTypeOK, Budgeted
<1>5. CASE lost' = lost + 1
  BY <1>3, <1>4, <1>5
<1>6. CASE Spent < MaxExecutions
  <2>1. Spent = Cardinality(Executed)
    BY DEF Spent, Executed
  <2>2. Effective \subseteq Executed \cup Unrecorded
    BY EffectiveRan DEF Effective, Executed, Unrecorded, Ventured
  <2>3. /\ IsFiniteSet(Executed \cup Unrecorded)
        /\ IsFiniteSet(Executed \cap Unrecorded)
        /\ Cardinality(Executed \cup Unrecorded) =
              Cardinality(Executed) + Cardinality(Unrecorded) - Cardinality(Executed \cap Unrecorded)
    <3>1. Executed \cap Unrecorded \subseteq Executed
      OBVIOUS
    <3> QED BY <1>1, <3>1, FS_Union, FS_Subset
  <2>4. Cardinality(Executed \cap Unrecorded) \in Nat
    BY <2>3, FS_CardinalityType
  <2>5. Cardinality(Effective) <= Cardinality(Executed \cup Unrecorded)
    BY <2>2, <2>3, FS_Subset
  <2>6. \A e, f, x, u, c, l, m, s \in Nat :
           e <= f /\ f <= x + u - c /\ u <= l /\ x < m /\ s \in {l, l + 1} => e < m + s
    OBVIOUS
  <2>7. /\ Cardinality(Earlier(p)) <= Cardinality(Effective)
        /\ Cardinality(Effective) <= Cardinality(Executed) + Cardinality(Unrecorded)
                                     - Cardinality(Executed \cap Unrecorded)
        /\ Cardinality(Executed) < MaxExecutions
    BY <1>3, <1>6, <2>1, <2>3, <2>5
  <2>8. lost' \in Nat
    BY <1>4
  <2> QED BY <1>3, <1>4, <2>4, <2>6, <2>7, <2>8
<1> QED BY <1>5, <1>6

LEMMA LandedMove ==
    ASSUME Typed, RunsMove
    PROVE  landed' = landed \/ \E r \in DOMAIN runs : RunMove(r) /\ Land(r)
BY DEF RunsMove, Started, RunMove, RunStep, Admit, Refuse, Invoke, NotLanded

(* Nothing lands: the plans that took effect are the same ones, and nobody *)
(* is carried out that the count had no room for.                          *)
LEMMA BudgetedWithoutLanding ==
    ASSUME Typed, PlansNamed, Tally, Budgeted, StepMoves, landed' = landed
    PROVE  Budgeted'
<1>1. ApprovalMove /\ RunsMove /\ CommitMove /\ RecordMove
  BY DEF StepMoves, ThreadMove
<1>2. Effective' = Effective
  BY DEF Effective
<1>3. /\ generation \in Nat /\ generation' \in Nat /\ generation' >= generation
      /\ lost \in Nat /\ lost' \in {lost, lost + 1}
  BY <1>1, RunsKept DEF Typed, ApprovalTypeOK, RecordMove
<1>4. ASSUME NEW p \in Plans, Committed(p)
      PROVE  approvals'[p].expects = approvals[p].expects /\ approvals[p].expects \in Nat
  BY <1>1, <1>4, CommittedGranted, ApprovalsKept
<1>5. \A q \in Effective : q \in Plans /\ Committed(q)
  BY EffectiveRan DEF Effective, Committed
<1>6. ASSUME NEW p \in Effective PROVE approvals'[p].expects < generation'
  <2>1. approvals'[p].expects = approvals[p].expects /\ approvals[p].expects \in Nat
    BY <1>4, <1>5
  <2>2. approvals[p].expects < generation
    BY DEF Budgeted
  <2> QED BY <1>3, <2>1, <2>2
<1>7. ASSUME NEW p \in Plans, Committed(p)'
      PROVE  Cardinality(Earlier(p)') < MaxExecutions + lost'
  <2>1. CASE Committed(p)
    <3>1. Earlier(p)' = Earlier(p)
      BY <1>2, <1>4, <1>5, <2>1 DEF Earlier
    <3>2. Cardinality(Earlier(p)) \in Nat
      <4>1. Earlier(p) \subseteq Effective
        BY DEF Earlier
      <4> QED BY <4>1, FS_Subset, FS_CardinalityType DEF Budgeted
    <3>3. Cardinality(Earlier(p)) < MaxExecutions + lost
      BY <2>1 DEF Budgeted
    <3>4. \A e, m, l, s \in Nat : e < m + l /\ s \in {l, l + 1} => e < m + s
      OBVIOUS
    <3>5. lost' \in Nat /\ MaxExecutions \in Nat
      BY <1>3
    <3> QED BY <1>3, <3>1, <3>2, <3>3, <3>4, <3>5
  <2>2. CASE ~Committed(p)
    <3>1. RunsOf(p)' = {}
      <4>1. RunsOf(p) = {} /\ ~Started(p)
        BY <2>2 DEF Committed, Started, Committing, Writing, Has, Settling
      <4> QED BY <1>1, <4>1, RunsKept
    <3>2. PICK i \in Instances : Committing(i, p)' /\ ~Committing(i, p)
      BY <1>7, <2>2, <3>1 DEF Committed
    <3>3. approvals' = approvals /\ (Spent < MaxExecutions \/ lost' = lost + 1)
      BY <1>1, <3>2 DEF CommitMove
    <3>4. Earlier(p)' = Earlier(p)
      BY <1>2, <3>3 DEF Earlier
    <3> QED BY <1>3, <3>3, <3>4, CountLeavesRoom
  <2> QED BY <2>1, <2>2
<1>8. Cardinality(Effective') <= MaxExecutions + lost'
  <2>1. Cardinality(Effective) \in Nat /\ Cardinality(Effective) <= MaxExecutions + lost
    BY FS_CardinalityType DEF Budgeted
  <2> QED BY <1>2, <1>3, <2>1
<1>9. /\ IsFiniteSet(Unrecorded)' /\ Cardinality(Unrecorded)' <= lost'
      /\ IsFiniteSet(Executed)' /\ IsFiniteSet(Effective)'
  BY <1>2, UnrecordedStep, ExecutedStep DEF Budgeted
<1> QED BY <1>2, <1>6, <1>7, <1>8, <1>9 DEF Budgeted

(* A plan that takes effect is the latest that did: all the others were    *)
(* counted when it was.                                                    *)
LEMMA BudgetedWithLanding ==
    ASSUME Typed, PlansNamed, Tally, Budgeted, StepMoves,
           NEW r \in DOMAIN runs, RunMove(r), Land(r)
    PROVE  Budgeted'
<1>1. PICK a \in Approvals : a = runs[r].approval
  BY RunStates DEF Run
<1>2. /\ UNCHANGED <<approvals, ledger, lost, task>>
      /\ landed' = [landed EXCEPT ![a] = landed[a] + 1]
      /\ generation' = generation + 1 /\ approvals[a].expects \in {0, generation}
  BY <1>1 DEF RunMove, Land, Written, Expected
<1>3. /\ generation \in Nat /\ landed \in [Approvals -> Nat] /\ landed[a] \in Nat
      /\ lost \in Nat /\ MaxExecutions \in Nat
  BY DEF Typed, ApprovalTypeOK
<1>4. \A p \in Plans : approvals[p].expects' = approvals[p].expects
  BY <1>2
<1>5. \A b \in Approvals : RunsOf(b)' = RunsOf(b)
  <2>1. PICK state \in RunState : runs' = [runs EXCEPT ![r] = [runs[r] EXCEPT !.state = state]]
    BY RunMoveWrites DEF RunMove
  <2>2. /\ DOMAIN runs' = DOMAIN runs
        /\ \A s \in DOMAIN runs : runs'[s].approval = runs[s].approval
    BY <2>1, RunStates, RunWrites
  <2> QED BY <2>2 DEF RunsOf
<1>6. /\ \A p \in Plans : Committed(p)' <=> Committed(p)
      /\ Executed' = Executed
  BY <1>2, <1>5 DEF Committed, Committing, Has, Executed
<1>7. IsFiniteSet(Unrecorded)' /\ Cardinality(Unrecorded)' <= lost'
  BY UnrecordedStep DEF Budgeted
<1>8. \A p \in Effective : p \in Plans /\ Committed(p) /\ approvals[p].expects < generation
                           /\ approvals[p].expects \in Nat
  <2>1. \A p \in Effective : p \in Plans /\ Committed(p) /\ approvals[p].expects < generation
    BY EffectiveRan DEF Effective, Committed, Budgeted
  <2> QED BY <2>1, CommittedGranted
<1>9. CASE a \notin Plans
  <2>1. Effective' = Effective
    BY <1>2, <1>3, <1>9 DEF Effective
  <2>2. \A p \in Plans : Earlier(p)' = Earlier(p)
    BY <1>2, <2>1 DEF Earlier
  <2>3. \A p \in Effective : approvals'[p].expects < generation'
    BY <1>2, <1>3, <1>8
  <2> QED BY <1>2, <1>6, <1>7, <2>1, <2>2, <2>3 DEF Budgeted
<1>10. CASE a \in Plans
  <2>1. Committed(a) /\ approvals[a].expects = generation
    <3>1. Committed(a)
      BY <1>1 DEF Committed, RunsOf
    <3>2. approvals[a].expects \in 1..generation
      BY <1>10, <3>1, CommittedGranted
    <3> QED BY <1>2, <1>3, <3>1, <3>2
  <2>2. Effective' = Effective \cup {a}
    <3>1. landed[a] + 1 > 0
      BY <1>3
    <3> QED BY <1>2, <1>3, <1>10, <3>1 DEF Effective
  <2>3. ASSUME NEW p \in Plans, Committed(p) PROVE Earlier(p)' = Earlier(p)
    <3>1. approvals[p].expects \in 1..generation
      BY <2>3, CommittedGranted
    <3>2. ~(approvals[a].expects < approvals[p].expects)
      BY <1>3, <2>1, <3>1
    <3> QED BY <1>2, <2>2, <3>2 DEF Earlier
  <2>4. \A p \in Effective' : approvals'[p].expects < generation'
    BY <1>2, <1>3, <1>8, <2>1, <2>2
  <2>5. IsFiniteSet(Effective') /\ Cardinality(Effective') <= MaxExecutions + lost
    <3>1. IsFiniteSet(Effective) /\ Cardinality(Effective) \in Nat
          /\ Cardinality(Effective) <= MaxExecutions + lost
      BY FS_CardinalityType DEF Budgeted
    <3>2. CASE a \in Effective
      <4>1. Effective' = Effective
        BY <2>2, <3>2
      <4> QED BY <3>1, <4>1
    <3>3. CASE a \notin Effective
      <4>1. Earlier(a) = Effective
        BY <1>8, <2>1 DEF Earlier
      <4>2. Cardinality(Effective) < MaxExecutions + lost
        BY <1>10, <2>1, <4>1 DEF Budgeted
      <4>3. /\ IsFiniteSet(Effective \cup {a})
            /\ Cardinality(Effective \cup {a}) = Cardinality(Effective) + 1
        BY <3>1, <3>3, FS_AddElement
      <4> QED BY <1>3, <2>2, <3>1, <4>2, <4>3
    <3> QED BY <3>2, <3>3
  <2>6. \A p \in Plans : Committed(p)' => Cardinality(Earlier(p)') < MaxExecutions + lost
    BY <1>6, <2>3 DEF Budgeted
  <2> QED BY <1>2, <1>6, <1>7, <2>4, <2>5, <2>6 DEF Budgeted
<1> QED BY <1>9, <1>10

-----------------------------------------------------------------------------
(* The invariant.                                                          *)

RemediationInv ==
    /\ Typed
    /\ PlansNamed
    /\ OneRunEach
    /\ UnstartedNeverRun
    /\ Tally
    /\ Budgeted

LEMMA RemediationInvInit == RemediationInit => RemediationInv
<1> SUFFICES ASSUME RemediationInit PROVE RemediationInv
  OBVIOUS
<1>1. /\ approvals = [a \in Approvals |-> [outcome |-> "absent", expired |-> FALSE,
                                           consumed |-> FALSE, expects |-> 0]]
      /\ mishaps = 0 /\ lost = 0 /\ runs = <<>> /\ generation = 1
      /\ asked = [a \in Approvals |-> 0] /\ landed = [a \in Approvals |-> 0]
      /\ task = [i \in Instances |-> At("down", NoPlan)]
      /\ actionKeys = {} /\ fenced = {}
      /\ ledger = [p \in Plans |-> [last |-> "none", executing |-> FALSE, closed |-> {}]]
  BY DEF RemediationInit, RoutesInit, ApprovalInit, WriteInit
<1>2. runs \in Seq(Run) /\ Len(runs) = 0 /\ DOMAIN runs = {}
  BY <1>1
<1>3. At("down", NoPlan) \in Task /\ At("down", NoPlan).at = "down"
  BY DEF At, Task, Step
<1>4. Typed
  <2>1. approvals \in [Approvals -> ApprovalRecord]
    BY <1>1 DEF ApprovalRecord
  <2>2. ledger \in [Plans -> Ledger]
    BY <1>1 DEF Ledger, Stage
  <2> QED BY <1>1, <1>2, <1>3, <2>1, <2>2 DEF RemediationInit, Typed, ApprovalTypeOK
<1>5. \A i \in Instances : task[i].at = "down"
  BY <1>1, <1>3
<1>6. /\ \A a : RunsOf(a) = {}
      /\ \A a, S : RunsIn(a, S) = {}
      /\ \A i \in Instances, p \in Plans : ~Holds(i, p) /\ ~Writing(i, p) /\ ~Committing(i, p)
  BY <1>2, <1>5 DEF RunsOf, RunsIn, Holds, Writing, Committing, Has, Settling
<1>7. PlansNamed
  BY <1>1, <1>2, <1>5 DEF PlansNamed, Settling
<1>8. OneRunEach
  BY <1>6 DEF OneRunEach
<1>9. UnstartedNeverRun
  BY <1>1 DEF UnstartedNeverRun, ClosedUnstarted
<1>10. IsFiniteSet({}) /\ Cardinality({}) = 0
  BY FS_EmptySet
<1>11. Tally
  <2>1. \A a \in Approvals :
          /\ asked[a] = 0 /\ landed[a] = 0 /\ Cardinality(RunsOf(a)) = 0
          /\ Cardinality(Unasked(a)) = 0 /\ Cardinality(Invoked(a)) = 0
    BY <1>1, <1>6, <1>10 DEF Unasked, Invoked
  <2>2. 0 + 0 <= 0
    OBVIOUS
  <2>3. ASSUME NEW a \in Approvals PROVE Tallied(a)
    BY <2>1, <2>2, Zenon DEF Tallied
  <2> QED BY <2>3 DEF Tally
<1>12. Budgeted
  <2>1. Effective = {} /\ Executed = {} /\ Unrecorded = {} /\ \A p \in Plans : ~Committed(p)
    BY <1>1, <1>6 DEF Effective, Executed, Unrecorded, Ventured, Committed
  <2> QED BY <1>1, <1>10, <2>1 DEF Budgeted
<1> QED BY <1>4, <1>7, <1>8, <1>9, <1>11, <1>12 DEF RemediationInv

LEMMA RemediationInvStep ==
    ASSUME RemediationInv, [RemediationNext]_remediationVars
    PROVE  RemediationInv'
<1> USE DEF RemediationInv
<1>1. StepMoves
  BY EveryStepMoves
<1>2. Typed' /\ RunsMove
  BY <1>1 DEF StepMoves
<1>3. Budgeted'
  BY <1>1, <1>2, LandedMove, BudgetedWithLanding, BudgetedWithoutLanding
<1> QED
  BY <1>1, <1>2, <1>3, PlansNamedStep, OneRunEachStep, UnstartedStep, TallyStep

LEMMA RemediationInvariant == RemediationSpec => []RemediationInv
BY RemediationInvInit, RemediationInvStep, PTL DEF RemediationSpec

-----------------------------------------------------------------------------

(* Every variable has its type, and neither what was asked for nor what    *)
(* landed outnumbers the runs.                                             *)
THEOREM RemediationTypeCorrect == RemediationSpec => []RemediationTypeOK
<1>1. ASSUME RemediationInv PROVE RemediationTypeOK
  <2> USE <1>1 DEF RemediationInv
  <2>1. ASSUME NEW a \in Approvals
        PROVE  asked[a] \in 0..MaxRuns /\ landed[a] \in 0..MaxRuns
    <3>1. /\ asked[a] \in Nat /\ landed[a] \in Nat
          /\ Len(runs) \in Nat /\ Len(runs) <= MaxRuns /\ MaxRuns \in Nat
      BY LenProperties DEF Typed
    <3>2. /\ Cardinality(RunsOf(a)) \in Nat /\ Cardinality(RunsOf(a)) <= Len(runs)
          /\ Cardinality(Unasked(a)) \in Nat /\ Cardinality(Invoked(a)) \in Nat
      BY RunsFinite DEF Unasked, Invoked
    <3>3. /\ asked[a] + Cardinality(Unasked(a)) <= Cardinality(RunsOf(a))
          /\ landed[a] + Cardinality(Invoked(a)) <= asked[a]
      BY DEF Tally, Tallied
    <3> QED BY <3>1, <3>2, <3>3
  <2>2. asked \in [Approvals -> 0..MaxRuns] /\ landed \in [Approvals -> 0..MaxRuns]
    BY <2>1 DEF Typed
  <2> QED BY <2>2 DEF RemediationTypeOK, RoutesTypeOK, WriteTypeOK, Typed
<1> QED BY <1>1, RemediationInvariant, PTL

(* A plan closed as stale, fenced, denied or expired was never started and *)
(* never will be, whichever process closed it.                             *)
THEOREM ClosedPlansNeverRun == RemediationSpec => []NotExecutedMeansNot
<1>1. RemediationInv => NotExecutedMeansNot
  BY DEF RemediationInv, UnstartedNeverRun, ClosedUnstarted, NeverRun, RunsOf, NotExecutedMeansNot
<1> QED BY <1>1, RemediationInvariant, PTL

(* No more plans take effect than the budget allows and failed calls to    *)
(* the ledger excuse, though every process counts for itself.              *)
THEOREM BudgetHolds == RemediationSpec => []EffectsWithinBudget
<1>1. RemediationInv => EffectsWithinBudget
  BY DEF RemediationInv, Budgeted, Effective, EffectsWithinBudget
<1> QED BY <1>1, RemediationInvariant, PTL

-----------------------------------------------------------------------------
(* The refinement of GovernedAction.                                       *)

LEMMA StandingMoves ==
    ASSUME Typed, NEW a \in Approvals, RowMove(a)
    PROVE  /\ \A b \in Approvals \ {a} : Standing(b)' = Standing(b)
           /\ \/ Standing(a)' = Standing(a)
              \/ Standing(a)' = "revoked"
              \/ Standing(a) = "open" /\ Standing(a)' = "permitted"
<1>1. /\ approvals \in [Approvals -> ApprovalRecord]
      /\ \A b \in Approvals : approvals[b] \in ApprovalRecord
  BY DEF Typed, ApprovalTypeOK
<1>2. \A b \in Approvals \ {a} : approvals'[b] = approvals[b]
  BY <1>1 DEF RowMove, Decide, MarkConsumed
<1>3. \A b \in Approvals \ {a} : Standing(b)' = Standing(b)
  BY <1>2 DEF Standing
<1>4. ASSUME approvals[a].outcome = "absent", NEW e \in 0..MaxGeneration,
             approvals' = [approvals EXCEPT ![a] =
                [approvals[a] EXCEPT !.outcome = "pending", !.expects = e]]
      PROVE  Standing(a)' = Standing(a)
  <2>1. /\ approvals'[a].outcome = "pending"
        /\ approvals'[a].expired = approvals[a].expired
        /\ approvals'[a].consumed = approvals[a].consumed
    BY <1>1, <1>4 DEF ApprovalRecord
  <2> QED BY <1>4, <2>1 DEF Standing
<1>5. ASSUME NEW o \in {"granted", "denied"}, Decide(a, o)
      PROVE  \/ Standing(a)' = Standing(a)
             \/ Standing(a)' = "revoked"
             \/ Standing(a) = "open" /\ Standing(a)' = "permitted"
  <2>1. /\ approvals[a].outcome = "pending" /\ approvals'[a].outcome = o
        /\ approvals'[a].expired = approvals[a].expired
        /\ approvals'[a].consumed = approvals[a].consumed
    BY <1>1, <1>5 DEF Decide, ApprovalRecord
  <2> QED BY <2>1 DEF Standing
<1>6. ASSUME \/ approvals' = [approvals EXCEPT ![a].outcome = "withdrawn"]
             \/ approvals' = [approvals EXCEPT ![a].expired = TRUE]
             \/ MarkConsumed(a)
      PROVE  Standing(a)' = "revoked"
  <2>1. \/ approvals'[a].outcome = "withdrawn"
        \/ approvals'[a].expired
        \/ approvals'[a].consumed
    BY <1>1, <1>6 DEF MarkConsumed, ApprovalRecord
  <2> QED BY <2>1 DEF Standing
<1> QED BY <1>3, <1>4, <1>5, <1>6 DEF RowMove

(* The one run of a plan is asked for once.                                *)
LEMMA AskedOnce ==
    ASSUME RemediationInv, NEW r \in DOMAIN runs, NEW a \in Plans,
           runs[r].approval = a, runs[r].state = "admitted"
    PROVE  asked[a] = 0
<1>1. RunsOf(a) = {r} /\ Unasked(a) = {r}
  BY DEF RemediationInv, OneRunEach, RunsOf, RunsIn, Unasked
<1>2. Cardinality(RunsOf(a)) = 1 /\ Cardinality(Unasked(a)) = 1
  BY <1>1, FS_Singleton
<1>3. asked[a] \in Nat /\ asked[a] + Cardinality(Unasked(a)) <= Cardinality(RunsOf(a))
  BY DEF RemediationInv, Typed, Tally, Tallied
<1> QED BY <1>2, <1>3

LEMMA LandedWasAsked ==
    ASSUME RemediationInv, NEW r \in DOMAIN runs, NEW a \in Approvals,
           runs[r].approval = a, runs[r].state = "invoked"
    PROVE  landed[a] < asked[a]
<1>1. r \in Invoked(a)
  BY DEF RunsIn, Invoked
<1>2. Cardinality(Invoked(a)) \in Nat /\ Cardinality(Invoked(a)) # 0
  <2>1. IsFiniteSet(Invoked(a)) /\ Cardinality(Invoked(a)) \in Nat
    BY RunsFinite DEF RemediationInv, Invoked
  <2> QED BY <1>1, <2>1, FS_EmptySet
<1>3. /\ asked[a] \in Nat /\ landed[a] \in Nat
      /\ landed[a] + Cardinality(Invoked(a)) <= asked[a]
  BY DEF RemediationInv, Typed, Tally, Tallied
<1> QED BY <1>2, <1>3

\* A run that is admitted is an admission that was not used.
LEMMA AdmittedCounts ==
    ASSUME Typed, NEW r \in DOMAIN runs, NEW a, runs[r].approval = a, runs[r].state = "admitted"
    PROVE  Cardinality(RunsIn(a, {"admitted"})) > 0
<1>1. r \in RunsIn(a, {"admitted"})
  BY DEF RunsIn
<1>2. IsFiniteSet(RunsIn(a, {"admitted"})) /\ Cardinality(RunsIn(a, {"admitted"})) \in Nat
  BY RunsFinite
<1> QED BY <1>1, <1>2, FS_EmptySet

LEMMA ActionInitMaps == RemediationInit => Action!ActionInit
<1> SUFFICES ASSUME RemediationInit PROVE Action!ActionInit
  OBVIOUS
<1>1. \A a \in Approvals : Standing(a) = "open"
  BY DEF RemediationInit, RoutesInit, ApprovalInit, Standing
<1>2. \A a \in Approvals : Cardinality(RunsIn(a, {"admitted"})) = 0
  <2>1. runs = <<>>
    BY DEF RemediationInit, RoutesInit, WriteInit
  <2>2. \A a \in Approvals : RunsIn(a, {"admitted"}) = {}
    BY <2>1 DEF RunsIn
  <2> QED BY <2>2, FS_EmptySet
<1> QED BY <1>1, <1>2 DEF RemediationInit, RoutesInit, WriteInit, Action!ActionInit

(* Every step is a step of GovernedAction for one action, or none.         *)
LEMMA ActionStepMaps ==
    ASSUME RemediationInv, [RemediationNext]_remediationVars
    PROVE  [Action!ActionNext]_(Action!actionVars)
<1>1. StepMoves /\ Typed
  BY EveryStepMoves DEF RemediationInv
<1> DEFINE standing == [a \in Approvals |-> Standing(a)]
           Admissions(a) == Cardinality(RunsIn(a, {"admitted"}))
           admitted == [a \in Approvals |-> Admissions(a)]
<1>2. CASE UNCHANGED <<asked, landed>> /\ admitted' = admitted
  <2>1. CASE approvals' = approvals
    <3>1. standing' = standing
      BY <2>1 DEF Standing
    <3> QED BY <1>2, <3>1 DEF Action!actionVars
  <2>2. ASSUME NEW a \in Approvals, RowMove(a) PROVE [Action!ActionNext]_(Action!actionVars)
    <3>1. /\ \A b \in Approvals \ {a} : Standing(b)' = Standing(b)
          /\ \/ Standing(a)' = Standing(a)
             \/ Standing(a)' = "revoked"
             \/ Standing(a) = "open" /\ Standing(a)' = "permitted"
      BY <1>1, <2>2, StandingMoves
    <3>2. CASE Standing(a)' = Standing(a)
      <4>1. standing' = standing
        BY <3>1, <3>2
      <4> QED BY <1>2, <4>1 DEF Action!actionVars
    <3>3. CASE Standing(a)' = "revoked"
      <4>1. standing' = [standing EXCEPT ![a] = "revoked"]
        BY <3>1, <3>3
      <4>2. Action!Revoke(a)
        BY <1>2, <4>1 DEF Action!Revoke
      <4> QED BY <4>2 DEF Action!ActionNext
    <3>4. CASE Standing(a) = "open" /\ Standing(a)' = "permitted"
      <4>1. standing' = [standing EXCEPT ![a] = "permitted"] /\ standing[a] = "open"
        BY <3>1, <3>4
      <4>2. Action!Permit(a)
        BY <1>2, <4>1 DEF Action!Permit
      <4> QED BY <4>2 DEF Action!ActionNext
    <3> QED BY <3>1, <3>2, <3>3, <3>4
  <2> QED BY <1>1, <2>1, <2>2 DEF StepMoves, ApprovalMove
<1>3. CASE runs' = runs /\ UNCHANGED <<asked, landed>>
  <2>1. admitted' = admitted
    BY <1>3 DEF RunsIn
  <2> QED BY <1>2, <1>3, <2>1
<1>4. ASSUME NEW r \in DOMAIN runs, runs' = [runs EXCEPT ![r].awaited = FALSE],
             UNCHANGED <<asked, landed>>
      PROVE  [Action!ActionNext]_(Action!actionVars)
  <2>1. \A a \in Approvals : RunsIn(a, {"admitted"})' = RunsIn(a, {"admitted"})
    BY <1>1, <1>4, AwaitedMove
  <2>2. admitted' = admitted
    BY <2>1
  <2> QED BY <1>2, <1>4, <2>2
<1>5. ASSUME NEW b \in Approvals, Started(b) PROVE [Action!ActionNext]_(Action!actionVars)
  <2>1. "bound" \notin {"admitted"} /\ "unbound" \notin {"admitted"}
    OBVIOUS
  <2>2. \A a \in Approvals : RunsIn(a, {"admitted"})' = RunsIn(a, {"admitted"})
    BY <1>1, <1>5, <2>1, StartMove
  <2>3. admitted' = admitted /\ UNCHANGED <<asked, landed>>
    BY <1>5, <2>2 DEF Started
  <2> QED BY <1>2, <2>3
<1>6. ASSUME NEW r \in DOMAIN runs, RunMove(r) PROVE [Action!ActionNext]_(Action!actionVars)
  <2>1. PICK a \in Approvals : a = runs[r].approval
    BY <1>1, RunStates DEF Run
  <2>2. standing' = standing /\ RunStep(r)
    BY <1>6 DEF RunMove, Standing
  <2>3. ASSUME NEW state \in RunState, runs' = [runs EXCEPT ![r].state = state]
        PROVE  /\ (runs[r].state = "admitted" <=> state = "admitted") => admitted' = admitted
               /\ runs[r].state = "admitted" /\ state # "admitted"
                    => admitted' = [admitted EXCEPT ![a] = Admissions(a) - 1]
               /\ runs[r].state # "admitted" /\ state = "admitted"
                    => admitted' = [admitted EXCEPT ![a] = Admissions(a) + 1]
    <3>1. \A b \in Approvals :
             /\ b # a \/ (runs[r].state = "admitted" <=> state = "admitted")
                  => Admissions(b)' = Admissions(b)
             /\ b = a /\ runs[r].state = "admitted" /\ state # "admitted"
                  => Admissions(b)' = Admissions(b) - 1
             /\ b = a /\ runs[r].state # "admitted" /\ state = "admitted"
                  => Admissions(b)' = Admissions(b) + 1
      BY <1>1, <2>1, <2>3, StateMove
    <3> HIDE DEF Admissions
    <3> QED BY <3>1
  <2>4. CASE Admit(r)
    <3>1. /\ runs[r].state = "bound" /\ Permits(a) /\ "admitted" \in RunState
          /\ runs' = [runs EXCEPT ![r].state = "admitted"] /\ UNCHANGED <<asked, landed>>
      BY <2>1, <2>4 DEF Admit, InState, RunState
    <3>2. standing[a] = "permitted"
      BY <3>1 DEF Permits, IsValidFor, Standing
    <3>3. admitted' = [admitted EXCEPT ![a] = admitted[a] + 1]
      BY <2>3, <3>1
    <3>4. Action!Admit(a)
      BY <2>2, <3>1, <3>2, <3>3 DEF Action!Admit
    <3> QED BY <3>4 DEF Action!ActionNext
  <2>5. CASE Refuse(r)
    <3>1. /\ runs[r].state \in {"bound", "admitted"} /\ "ended" \in RunState
          /\ runs' = [runs EXCEPT ![r].state = "ended"] /\ UNCHANGED <<asked, landed>>
      BY <2>5 DEF Refuse, InState, RunState
    <3>2. CASE runs[r].state = "bound"
      <4>1. admitted' = admitted
        BY <2>3, <3>1, <3>2
      <4> QED BY <1>2, <3>1, <4>1
    <3>3. CASE runs[r].state = "admitted"
      <4>1. admitted' = [admitted EXCEPT ![a] = admitted[a] - 1] /\ admitted[a] > 0
        BY <1>1, <2>1, <2>3, <3>1, <3>3, AdmittedCounts
      <4>2. Action!Forgo(a)
        BY <2>2, <3>1, <4>1 DEF Action!Forgo
      <4> QED BY <4>2 DEF Action!ActionNext
    <3> QED BY <3>1, <3>2, <3>3
  <2>6. CASE Invoke(r)
    <3>1. /\ runs[r].state = "admitted" /\ "invoked" \in RunState
          /\ runs' = [runs EXCEPT ![r].state = "invoked"]
          /\ asked' = [asked EXCEPT ![a] = asked[a] + 1] /\ landed' = landed
      BY <2>1, <2>6 DEF Invoke, InState, RunState
    <3>2. admitted' = [admitted EXCEPT ![a] = admitted[a] - 1] /\ admitted[a] > 0
      BY <1>1, <2>1, <2>3, <3>1, AdmittedCounts
    <3>3. a \in Plans => asked[a] = 0
      BY <2>1, <3>1, AskedOnce
    <3>4. Action!Ask(a)
      BY <2>2, <3>1, <3>2, <3>3 DEF Action!Ask
    <3> QED BY <3>4 DEF Action!ActionNext
  <2>7. CASE Land(r) \/ NotLanded(r)
    <3>1. runs[r].state = "invoked" /\ asked' = asked
      BY <2>7 DEF Land, NotLanded, InState
    <3>2. PICK state \in RunState \ {"admitted"} : runs' = [runs EXCEPT ![r].state = state]
      BY <2>7 DEF Land, NotLanded, RunState
    <3>3. admitted' = admitted
      BY <2>3, <3>1, <3>2
    <3>4. CASE Land(r)
      <4>1. landed[a] < asked[a] /\ landed' = [landed EXCEPT ![a] = landed[a] + 1]
        BY <2>1, <3>1, <3>4, LandedWasAsked DEF Land
      <4>2. Action!TakeEffect(a)
        BY <2>2, <3>1, <3>3, <4>1 DEF Action!TakeEffect
      <4> QED BY <4>2 DEF Action!ActionNext
    <3>5. CASE NotLanded(r)
      <4>1. landed' = landed
        BY <3>5 DEF NotLanded
      <4> QED BY <1>2, <3>1, <3>3, <4>1
    <3> QED BY <2>7, <3>4, <3>5
  <2> QED BY <2>2, <2>4, <2>5, <2>6, <2>7 DEF RunStep
<1> QED BY <1>1, <1>3, <1>4, <1>5, <1>6 DEF StepMoves, RunsMove

(* The worker is asked only on an admission given while the approval       *)
(* stood, each serving once; an approval that fell admits nothing more; a  *)
(* plan is asked for once, and nothing lands that was not asked for.       *)
THEOREM RemediationImplementsGovernedAction == RemediationSpec => ImplementsGovernedAction
<1>1. RemediationInv /\ [RemediationNext]_remediationVars => [Action!ActionNext]_(Action!actionVars)
  BY ActionStepMaps
<1> QED
  BY <1>1, ActionInitMaps, RemediationInvariant, PTL
     DEF RemediationSpec, ImplementsGovernedAction, Action!ActionSpec

=============================================================================
