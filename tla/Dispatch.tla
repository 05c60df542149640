------------------------------- MODULE Dispatch -------------------------------
(***************************************************************************)
(* Dispatchers carrying ready nodes to the outside world.                  *)
(*                                                                         *)
(* Each dispatcher runs the cycle of application/dispatcher.py: discover   *)
(* what may be dispatched, then node by node lease it, name the attempt,   *)
(* pass the gateway's lease check (application/invocation_gateway.py), let *)
(* the worker call the provider, record the answer, and classify how it    *)
(* arrived.  Every one of these reads the stored run anew, and between any *)
(* two of them other dispatchers, operators and the clock move.            *)
(*                                                                         *)
(* The service's commands are the atomic ones of ExecutionRun: what loads  *)
(* and writes do to each other is ExecutionStore's subject.  A command     *)
(* that loses there shows up here as a refusal: LoseLease, RecordingLost.  *)
(*                                                                         *)
(* The lease holder is the same identity in every dispatcher process       *)
(* (dispatcher:<execution id>); the worker implementation that runs the    *)
(* node is another one and never holds a lease.                            *)
(***************************************************************************)
EXTENDS ExecutionRun

CONSTANTS
    Dispatchers,      \* the dispatcher processes
    Holder,           \* the identity they all lease under
    Implementation,   \* the worker implementation a request names
    NoNode            \* a dispatcher that has no node in hand

ASSUME DispatchAssumption ==
    /\ Workers = {Holder}
    /\ Implementation \notin Workers
    /\ NoNode \notin Nodes

VARIABLES
    task,      \* task[d]: how far dispatcher d is, and with what
    invoked,   \* history: the attempts each node's worker was invoked under
    applied,   \* history: how often each node's effect landed
    answers    \* history: what became of each answer

taskVars == <<task, invoked, applied, answers>>
dispatchVars == <<run, now, taskVars>>

Stages == {"idle", "leased", "named", "admitted", "answered", "recorded"}

Verdicts == {"current", "duplicate", "superseded_attempt", "lease_lost", "execution_closed"}

\* todo: the candidates left of this cycle; named: the attempt the request
\* names; answer: what the worker said; closed: the attempt that closed.
Task ==
    [stage : Stages, node : Nodes \cup {NoNode}, todo : SUBSET Nodes, named : Nat,
     answer : {NoFailure, "success"} \cup Classes, closed : Nat]

Resting(todo) ==
    [stage |-> "idle", node |-> NoNode, todo |-> todo, named |-> 0,
     answer |-> NoFailure, closed |-> 0]

DispatchInit ==
    /\ Init
    /\ task = [d \in Dispatchers |-> Resting({})]
    /\ invoked = [n \in Nodes |-> <<>>]
    /\ applied = [n \in Nodes |-> 0]
    /\ answers = {}

-----------------------------------------------------------------------------
(* What a dispatcher reads off the stored run (domain/dispatch.py).        *)

\* A node is blocked by a dependency that ended without satisfying it.
Blocked(n) ==
    \E m \in DependsOn[n] :
        run.node[m].state \in {"failed", "unknown", "compensated"}

\* dispatchable_nodes: an unresolved node stops the sweep.
Dispatchable ==
    IF run.state = "running" /\ AmbiguousNodes(run) = {}
    THEN {n \in ReadyNodes(run) : ~Blocked(n) /\ AttemptsRemaining(n, run.node[n]) >= 1}
    ELSE {}

\* The open attempt of a node, or 0.
CurrentAttempt(n) ==
    LET attempts == run.node[n].attempts
    IN  IF attempts # <<>> /\ IsOpen(attempts[Len(attempts)]) THEN Len(attempts) ELSE 0

\* The gateway's lease check: held, live, by this holder, for this attempt.
LeaseAdmits(n, k) ==
    LET lease == run.node[n].lease
    IN  /\ lease # NoLease
        /\ IsLiveAt(lease, now)
        /\ lease.holder = Holder
        /\ CurrentAttempt(n) \in {0, k}

\* classify_result_arrival, asked with the worker the request names.
Verdict(n, k) ==
    LET nr == run.node[n]
    IN  CASE IsTerminal(run) -> "execution_closed"
          [] k \notin DOMAIN nr.attempts -> "superseded_attempt"
          [] ~IsOpen(nr.attempts[k]) -> "duplicate"
          [] CurrentAttempt(n) # k -> "superseded_attempt"
          [] nr.lease = NoLease \/ ~IsLiveAt(nr.lease, now) -> "lease_lost"
          [] nr.lease.holder # Implementation -> "superseded_attempt"
          [] OTHER -> "current"

-----------------------------------------------------------------------------
(* One dispatcher, one node (application/dispatcher.py, _dispatch_one).     *)

InHand(d, stage) == task[d].stage = stage

\* Done with this node: on to the rest of the cycle.
Put(d) == task' = [task EXCEPT ![d] = Resting(@.todo)]

\* cycle: one load decides what the whole cycle will reach for.
Discover(d) ==
    /\ InHand(d, "idle") /\ task[d].todo = {}
    /\ Dispatchable # {}
    /\ task' = [task EXCEPT ![d] = Resting(Dispatchable)]
    /\ UNCHANGED <<run, now, invoked, applied, answers>>

TakeLease(d, n) ==
    /\ InHand(d, "idle") /\ n \in task[d].todo
    /\ Assign(n, Holder, now)
    /\ task' = [task EXCEPT ![d].stage = "leased", ![d].node = n, ![d].todo = @ \ {n}]
    /\ UNCHANGED <<invoked, applied, answers>>

\* The queue claim, the binding, the context or the lease was not to be had.
LoseLease(d, n) ==
    /\ InHand(d, "idle") /\ n \in task[d].todo
    /\ task' = [task EXCEPT ![d].todo = @ \ {n}]
    /\ UNCHANGED <<run, now, invoked, applied, answers>>

\* _current_attempt_id loads the run again; with no open attempt the cycle ends.
NameAttempt(d) ==
    /\ InHand(d, "leased")
    /\ LET k == CurrentAttempt(task[d].node)
       IN  task' = [task EXCEPT ![d] =
                IF k = 0 THEN Resting({}) ELSE [@ EXCEPT !.stage = "named", !.named = k]]
    /\ UNCHANGED <<run, now, invoked, applied, answers>>

\* No request could be built: the node is let go, its lease is not.
RequestUnavailable(d) ==
    /\ InHand(d, "named")
    /\ Put(d)
    /\ UNCHANGED <<run, now, invoked, applied, answers>>

Admit(d) ==
    /\ InHand(d, "named")
    /\ LeaseAdmits(task[d].node, task[d].named)
    /\ task' = [task EXCEPT ![d].stage = "admitted"]
    /\ UNCHANGED <<run, now, invoked, applied, answers>>

\* The gateway or the worker runtime refused before anything ran, for the lease
\* or any other reason; _reclaim_quietly takes back a lease that has lapsed.
Refuse(d) ==
    /\ InHand(d, "named") \/ InHand(d, "admitted")
    /\ IF CanReclaim(run, task[d].node, now)
       THEN run' = Reclaimed(run, task[d].node)
       ELSE UNCHANGED run
    /\ Put(d)
    /\ UNCHANGED <<now, invoked, applied, answers>>

\* The worker calls the provider.  A definite failure says nothing was done; an
\* ambiguous one does not say.
Invoke(d, answer) ==
    /\ InHand(d, "admitted")
    /\ LET n == task[d].node
       IN  /\ invoked' = [invoked EXCEPT ![n] = Append(@, task[d].named)]
           /\ \E landed \in CASE answer = "success" -> {1}
                              [] answer \in AmbiguousClasses -> {0, 1}
                              [] OTHER -> {0} :
                applied' = [applied EXCEPT ![n] = @ + landed]
    /\ task' = [task EXCEPT ![d].stage = "answered", ![d].answer = answer]
    /\ UNCHANGED <<run, now, answers>>

\* ExecutionResultRecorder.record: applied under the lease holder's name.
RecordAnswer(d) ==
    /\ InHand(d, "answered")
    /\ LET n == task[d].node
       IN  /\ CanRecord(run, n, Holder, now)
           /\ run' = IF task[d].answer = "success"
                     THEN SuccessRecorded(run, n)
                     ELSE FailureRecorded(run, n, task[d].answer)
           /\ task' = [task EXCEPT ![d].stage = "recorded", ![d].closed = CurrentAttempt(n)]
    /\ UNCHANGED <<now, invoked, applied, answers>>

\* Mutant: an answer that could not be recorded is asked for again.
RecordingLostAskAgain(d) ==
    /\ InHand(d, "answered")
    /\ task' = [task EXCEPT ![d].stage = "admitted", ![d].answer = NoFailure]
    /\ UNCHANGED <<run, now, invoked, applied, answers>>

\* _record swallows what recording raises: the lease is gone, the run is
\* closed, another write won, or the store is away.
RecordingLost(d) ==
    /\ InHand(d, "answered")
    /\ task' = [task EXCEPT ![d].stage = "recorded"]
    /\ UNCHANGED <<run, now, invoked, applied, answers>>

Classify(d) ==
    /\ InHand(d, "recorded")
    /\ LET n == task[d].node  k == task[d].named
       IN  answers' = answers \cup
            {[node |-> n, named |-> k, closed |-> task[d].closed, verdict |-> Verdict(n, k)]}
    /\ Put(d)
    /\ UNCHANGED <<run, now, invoked, applied>>

\* The process dies; a call it had under way may still land.
Crash(d) ==
    /\ ~InHand(d, "idle")
    /\ task' = [task EXCEPT ![d] = Resting({})]
    /\ IF InHand(d, "admitted")
       THEN \E landed \in {0, 1} :
                /\ invoked' = [invoked EXCEPT ![task[d].node] = Append(@, task[d].named)]
                /\ applied' = [applied EXCEPT ![task[d].node] = @ + landed]
       ELSE UNCHANGED <<invoked, applied>>
    /\ UNCHANGED <<run, now, answers>>

-----------------------------------------------------------------------------
(* Operators, through the API (api/execution_routes.py).                   *)

Operate ==
    /\ \/ Pause \/ Resume \/ Complete
       \/ \E to \in TerminalStates : Abort(to)
       \/ \E n \in Nodes : Reclaim(n, now) \/ Retry(n) \/ Skip(n) \/ Compensate(n)
    /\ UNCHANGED taskVars

DispatchStep(d) ==
    \/ Discover(d) \/ NameAttempt(d) \/ Admit(d) \/ RecordAnswer(d) \/ Classify(d)
    \/ \E n \in Nodes : TakeLease(d, n)
    \/ \E answer \in Classes \cup {"success"} : Invoke(d, answer)

Mishap(d) ==
    \/ RequestUnavailable(d) \/ Refuse(d) \/ RecordingLost(d) \/ Crash(d)
    \/ \E n \in Nodes : LoseLease(d, n)

DispatchNext ==
    \/ Tick /\ UNCHANGED taskVars
    \/ Operate
    \/ \E d \in Dispatchers : DispatchStep(d) \/ Mishap(d)

DispatchSpec == DispatchInit /\ [][DispatchNext]_dispatchVars

-----------------------------------------------------------------------------
(* Type invariant.                                                         *)
DispatchTypeOK ==
    /\ TypeOK
    /\ task \in [Dispatchers -> Task]
    /\ invoked \in [Nodes -> Seq(Nat)]
    /\ applied \in [Nodes -> Nat]
    /\ \A a \in answers : a.node \in Nodes /\ a.verdict \in Verdicts

(* A mutation without an idempotency key lands at most once, whatever      *)
(* stalls, crashes, lapses, is retried by an operator or answered late.    *)
AtMostOnce == \A n \in Mutating \ Keyed : applied[n] <= 1

(* A change that landed is never on record as a definite failure: some     *)
(* attempt at the node is in flight, succeeded, or admits that nobody      *)
(* knows.  The operator who reads the record before undoing a run relies   *)
(* on it.                                                                  *)
LandedIsOnRecord ==
    \A n \in Mutating \ Keyed :
        applied[n] > 0 =>
            \E i \in 1..Len(run.node[n].attempts) :
                LET attempt == run.node[n].attempts[i]
                IN  \/ IsOpen(attempt)
                    \/ attempt.outcome = "succeeded"
                    \/ attempt.failure \in AmbiguousClasses

(* The record counts every time a worker was sent out: never fewer         *)
(* attempts than invocations.                                              *)
InvocationsOnRecord ==
    \A n \in Nodes : Len(invoked[n]) <= Len(run.node[n].attempts)

(* An unkeyed mutation is in the hands of one dispatcher at a time, from   *)
(* the moment the gateway admits it until its answer was handed over.      *)
OneInFlight ==
    \A n \in Mutating \ Keyed : \A d, e \in Dispatchers :
        /\ task[d].node = n /\ task[d].stage \in {"admitted", "answered"}
        /\ task[e].node = n /\ task[e].stage \in {"admitted", "answered"}
        => d = e

(* An earlier attempt answering after a later one began is not applied     *)
(* (ADR-039, section 8): an answer closes the attempt it is an answer to.  *)
AnswerClosesItsAttempt ==
    \A a \in answers : a.closed \in {0, a.named}

=============================================================================
