------------------------------- MODULE Scheduler -------------------------------
(***************************************************************************)
(* The scheduler of every process of a fleet, under the scheduler role     *)
(* (backend/contexts/execution/application/scheduler.py), with the runs of *)
(* the store as far as the scheduler tells them apart.  Two threads of a   *)
(* process tick: its background loop, and the reader that drives the run   *)
(* of a governed call (capability_execution_composition.py).  A tick asks  *)
(* for the role in calls of its own, keeps the answer, and dispatches one  *)
(* cycle for every run it is tracking or has discovered.                   *)
(*                                                                         *)
(* Runs are numbered in the order they are started.  What a cycle does     *)
(* inside is Dispatch's; here it leases a ready run and hears an outcome.  *)
(***************************************************************************)
EXTENDS Leadership, FiniteSets

CONSTANTS
    Readers,      \* the processes that also drive runs of their own
    MaxRuns,      \* bound on the runs started
    Limit         \* discovery_limit, and the limits of the two scans

ASSUME SchedulerAssumption ==
    /\ Readers \subseteq Instances
    /\ MaxRuns \in Nat
    /\ Limit \in Nat

VARIABLES
    life,      \* life[i]: the scheduler of process i
    stage,     \* stage[t]: where thread t's tick is
    mine,      \* mine[t]: the token its tick goes by, 0 for none
    queue,     \* queue[t]: the runs it has yet to cycle
    serving,   \* serving[t]: the run it has leased, 0 for none
    targets,   \* targets[i]: the runs i is tracking
    driven,    \* driven[i]: the run i's reader waits for, 0 for none
    run,       \* run[r]: the stored run
    newer      \* newer[r]: the runs updated after r was

threadVars == <<stage, mine, queue, serving>>
runVars == <<run, newer>>
schedulerVars == <<row, handle, life, threadVars, targets, driven, runVars>>

Runs == 1..MaxRuns
Threads == (Instances \X {"loop"}) \cup (Readers \X {"reader"})

\* "stuck": running with nothing to dispatch, because a node failed, ended
\* unknown, or was never bound to a capability.
Open == {r \in Runs : run[r] \in {"ready", "busy", "stuck"}}

SchedulerInit ==
    /\ LeadershipInit
    /\ life = [i \in Instances |-> "down"]
    /\ stage = [t \in Threads |-> "idle"]
    /\ mine = [t \in Threads |-> 0]
    /\ queue = [t \in Threads |-> {}]
    /\ serving = [t \in Threads |-> 0]
    /\ targets = [i \in Instances |-> {}]
    /\ driven = [i \in Instances |-> 0]
    /\ run = [r \in Runs |-> "absent"]
    /\ newer = [r \in Runs |-> {}]

-----------------------------------------------------------------------------
(* The stored runs.                                                        *)

\* Every write makes its run the latest.
Update(r, state) ==
    /\ run' = [run EXCEPT ![r] = state]
    /\ newer' = [s \in Runs |->
                    IF s = r \/ run[s] = "absent" THEN {} ELSE newer[s] \cup {r}]

\* Mutant: what another process started is nobody's business.
WindowOfNothing == {}

\* find_by_state: the running runs updated last, whatever they wait for.
Window == {r \in Open : Cardinality(newer[r] \cap Open) < Limit}

Dispatchable == {r \in Window : run[r] = "ready"}

\* recovery_priority: the urgent (in doubt, or with a lapsed lease), then the oldest.
Before(s, r, urgent) ==
    \/ s \in urgent /\ r \notin urgent
    \/ (s \in urgent <=> r \in urgent) /\ s < r

\* The scan takes the first Limit open runs, and of them those whose plan is
\* automatic: a run may be held for a person while a node of it is ready (another
\* is in doubt), and one with nothing ready may be taken up (a node failed).
Resumable(urgent, held) ==
    {r \in Open \ held : Cardinality({s \in Open : Before(s, r, urgent)}) < Limit}

StartRun(r, state) ==
    /\ run[r] = "absent"
    /\ \A s \in 1..(r - 1) : run[s] # "absent"
    /\ Update(r, state)

-----------------------------------------------------------------------------
(* The life of a process.                                                  *)

Start(i) ==
    /\ life[i] = "down"
    /\ life' = [life EXCEPT ![i] = "running"]
    /\ \E urgent \in SUBSET Open, held \in SUBSET Open :
          targets' = [targets EXCEPT ![i] = Resumable(urgent, held)]
    /\ UNCHANGED <<row, handle, threadVars, driven, runVars>>

BeginStop(i) ==
    /\ life[i] = "running"
    /\ life' = [life EXCEPT ![i] = "draining"]
    /\ UNCHANGED <<row, handle, threadVars, targets, driven, runVars>>

\* There is no handle to release, or the release fails and the role will lapse.
Forget(i) ==
    /\ handle' = [handle EXCEPT ![i] = 0]
    /\ UNCHANGED row

\* The loop was waited for, until a time limit; the reader never is.
FinishStop(i) ==
    /\ life[i] = "draining"
    /\ life' = [life EXCEPT ![i] = "stopped"]
    /\ Release(i) \/ Forget(i)
    /\ UNCHANGED <<threadVars, targets, driven, runVars>>

Of(i) == {t \in Threads : t[1] = i}

Vanish(i) ==
    /\ life' = [life EXCEPT ![i] = "down"]
    /\ handle' = [handle EXCEPT ![i] = 0]
    /\ stage' = [t \in Threads |-> IF t \in Of(i) THEN "idle" ELSE stage[t]]
    /\ mine' = [t \in Threads |-> IF t \in Of(i) THEN 0 ELSE mine[t]]
    /\ queue' = [t \in Threads |-> IF t \in Of(i) THEN {} ELSE queue[t]]
    /\ serving' = [t \in Threads |-> IF t \in Of(i) THEN 0 ELSE serving[t]]
    /\ targets' = [targets EXCEPT ![i] = {}]
    /\ driven' = [driven EXCEPT ![i] = 0]
    /\ UNCHANGED <<row, runVars>>

Exit(i) ==
    /\ life[i] = "stopped"
    /\ Vanish(i)

Crash(i) ==
    /\ life[i] \in {"running", "draining"}
    /\ Vanish(i)

-----------------------------------------------------------------------------
(* Runs are submitted, driven by a reader, and looked after by operators.  *)

Submit(i) ==
    /\ life[i] # "down"
    /\ \E r \in Runs, state \in {"ready", "stuck"} : StartRun(r, state)
    /\ UNCHANGED <<row, handle, life, threadVars, targets, driven>>

Drive(i) ==
    /\ i \in Readers
    /\ life[i] # "down"
    /\ driven[i] = 0
    /\ \E r \in Runs :
        /\ StartRun(r, "ready")
        /\ driven' = [driven EXCEPT ![i] = r]
        /\ targets' = [targets EXCEPT ![i] = @ \cup {r}]
    /\ UNCHANGED <<row, handle, life, threadVars>>

\* The run is over, or the reader has ticked often enough.
Leave(i) ==
    /\ driven[i] # 0
    /\ stage[<<i, "reader">>] = "idle"
    /\ driven' = [driven EXCEPT ![i] = 0]
    /\ targets' = [targets EXCEPT ![i] = @ \ {driven[i]}]
    /\ UNCHANGED <<row, handle, life, threadVars, runVars>>

\* A lapsed lease is reclaimed, or a run that waits is ended.
Operate(r) ==
    /\ \/ run[r] = "busy" /\ (\A t \in Threads : serving[t] # r) /\ Update(r, "stuck")
       \/ run[r] = "stuck" /\ Update(r, "done")
    /\ UNCHANGED <<row, handle, life, threadVars, targets, driven>>

-----------------------------------------------------------------------------
(* One tick of a thread.                                                   *)

\* A caller's tick passes whatever the state of the scheduler.
Ticks(t) ==
    IF t[2] = "loop"
    THEN life[t[1]] = "running"
    ELSE driven[t[1]] # 0 /\ run[driven[t[1]]] \in {"ready", "busy"}

\* The handle is read on its own: the other thread may replace it meanwhile.
Look(t) ==
    /\ stage[t] = "idle"
    /\ Ticks(t)
    /\ stage' = [stage EXCEPT ![t] = "asking"]
    /\ mine' = [mine EXCEPT ![t] = handle[t[1]]]
    /\ UNCHANGED <<row, handle, life, queue, serving, targets, driven, runVars>>

Renewable(t) == mine[t] # 0 /\ FencedWhere(t[1], mine[t])

Electable(t) == ~Renewable(t) /\ CanAcquire(t[1])

Renewed == [row EXCEPT !.lapsed = FALSE]

\* The handle renews the role; without one, or with a lost one, the role is asked
\* for, in the same tick.
Ask(t) ==
    /\ stage[t] = "asking"
    /\ stage' = [stage EXCEPT ![t] = "told"]
    /\ \/ /\ Renewable(t)
          /\ row' = Renewed
          /\ UNCHANGED mine
       \/ /\ Electable(t)
          /\ row.token < MaxToken
          /\ row' = Elected(t[1])
          /\ mine' = [mine EXCEPT ![t] = Elected(t[1]).token]
       \/ /\ ~Renewable(t) /\ ~CanAcquire(t[1])
          /\ mine' = [mine EXCEPT ![t] = 0]
          /\ UNCHANGED row
    /\ UNCHANGED <<handle, life, queue, serving, targets, driven, runVars>>

\* Unverifiable leadership is no leadership, also when the renewal or the election
\* went through.
Unverified(t) ==
    /\ stage[t] = "asking"
    /\ stage' = [stage EXCEPT ![t] = "told"]
    /\ mine' = [mine EXCEPT ![t] = 0]
    /\ \/ UNCHANGED row
       \/ Renewable(t) /\ row' = Renewed
       \/ Electable(t) /\ row.token < MaxToken /\ row' = Elected(t[1])
    /\ UNCHANGED <<handle, life, queue, serving, targets, driven, runVars>>

\* The loop discovers when its interval is over; the reader never does.
Keep(t, discover) ==
    /\ stage[t] = "told"
    /\ discover => t[2] = "loop"
    /\ handle' = [handle EXCEPT ![t[1]] = mine[t]]
    /\ IF mine[t] = 0
       THEN stage' = [stage EXCEPT ![t] = "idle"] /\ UNCHANGED queue
       ELSE /\ stage' = [stage EXCEPT ![t] = "sweeping"]
            /\ queue' = [queue EXCEPT ![t] =
                            targets[t[1]] \cup IF discover THEN Dispatchable ELSE {}]
    /\ UNCHANGED <<row, life, mine, serving, targets, driven, runVars>>

\* A run that is not ready is looked at and left.
BeginCycle(t, r) ==
    /\ stage[t] = "sweeping"
    /\ r \in queue[t]
    /\ life[t[1]] = "running"
    /\ queue' = [queue EXCEPT ![t] = @ \ {r}]
    /\ IF run[r] = "ready"
       THEN /\ Update(r, "busy")
            /\ stage' = [stage EXCEPT ![t] = "cycling"]
            /\ serving' = [serving EXCEPT ![t] = r]
       ELSE UNCHANGED <<runVars, stage, serving>>
    /\ UNCHANGED <<row, handle, life, mine, targets, driven>>

\* Mutant: the run stays with the thread that cycled it.
EndCycleKeeping(t, outcome) ==
    /\ stage[t] = "cycling"
    /\ Update(serving[t], outcome)
    /\ stage' = [stage EXCEPT ![t] = "sweeping"]
    /\ UNCHANGED <<row, handle, life, mine, queue, serving, targets, driven>>

\* A success seals the run; it stays running after anything else.
EndCycle(t, outcome) ==
    /\ stage[t] = "cycling"
    /\ Update(serving[t], outcome)
    /\ stage' = [stage EXCEPT ![t] = "sweeping"]
    /\ serving' = [serving EXCEPT ![t] = 0]
    /\ UNCHANGED <<row, handle, life, mine, queue, targets, driven>>

EndTick(t) ==
    /\ stage[t] = "sweeping"
    /\ queue[t] = {} \/ life[t[1]] # "running"
    /\ stage' = [stage EXCEPT ![t] = "idle"]
    /\ mine' = [mine EXCEPT ![t] = 0]
    /\ queue' = [queue EXCEPT ![t] = {}]
    /\ UNCHANGED <<row, handle, life, serving, targets, driven, runVars>>

Cycle(t) ==
    \/ \E r \in Runs : BeginCycle(t, r)
    \/ \E outcome \in {"done", "stuck"} : EndCycle(t, outcome)

ThreadStep(t) ==
    \/ Look(t) \/ Ask(t) \/ Unverified(t)
    \/ \E discover \in BOOLEAN : Keep(t, discover)
    \/ Cycle(t) \/ EndTick(t)

ProcessStep(i) ==
    \/ Start(i) \/ BeginStop(i) \/ FinishStop(i) \/ Exit(i) \/ Crash(i)
    \/ Submit(i) \/ Drive(i) \/ Leave(i)

RoleLapses ==
    /\ Lapse
    /\ UNCHANGED <<life, threadVars, targets, driven, runVars>>

SchedulerNext ==
    \/ \E t \in Threads : ThreadStep(t)
    \/ \E i \in Instances : ProcessStep(i)
    \/ \E r \in Runs : Operate(r)
    \/ RoleLapses

SchedulerSpec == SchedulerInit /\ [][SchedulerNext]_schedulerVars

\* A lease nobody renews lapses, a stopped process exits, a loop goes on ticking,
\* the database answers it again and again, and while it leads its discovery
\* interval is over again and again.  Nothing starts a process, submits a run,
\* drives one or makes an operator act.
LoopGoesOn(t) ==
    /\ SF_schedulerVars(Ask(t))
    /\ WF_schedulerVars(Look(t) \/ Keep(t, FALSE) \/ Cycle(t) \/ EndTick(t))
    /\ SF_schedulerVars(mine[t] # 0 /\ Keep(t, TRUE))

SchedulerFairness ==
    /\ WF_schedulerVars(RoleLapses \/ \E t \in Threads : Renewable(t) /\ Ask(t))
    /\ \A i \in Instances : WF_schedulerVars(FinishStop(i) \/ Exit(i)) /\ LoopGoesOn(<<i, "loop">>)

FairSchedulerSpec == SchedulerSpec /\ SchedulerFairness

-----------------------------------------------------------------------------
(* Type invariant.                                                         *)
SchedulerTypeOK ==
    /\ LeadershipTypeOK
    /\ life \in [Instances -> {"down", "running", "draining", "stopped"}]
    /\ stage \in [Threads -> {"idle", "asking", "told", "sweeping", "cycling"}]
    /\ mine \in [Threads -> Nat]
    /\ queue \in [Threads -> SUBSET Runs]
    /\ serving \in [Threads -> 0..MaxRuns]
    /\ \A t \in Threads : stage[t] = "cycling" <=> serving[t] # 0
    /\ targets \in [Instances -> SUBSET Runs]
    /\ driven \in [Instances -> 0..MaxRuns]
    /\ run \in [Runs -> {"absent", "ready", "busy", "stuck", "done"}]
    /\ newer \in [Runs -> SUBSET Runs]

(* "Exactly one of them coordinates" (scheduler.py), as far as a lease can *)
(* promise it: two ticks that coordinate under one term are one process's, *)
(* however late a thread keeps or uses what it was told.                   *)
OneCoordinatorPerTerm ==
    \A s, t \in Threads :
        /\ stage[s] \in {"sweeping", "cycling"}
        /\ stage[t] \in {"sweeping", "cycling"}
        /\ mine[s] = mine[t]
        => s[1] = t[1]

(* Some process runs its scheduler for good, and in the end the bound on    *)
(* elections is not what keeps the role from being taken.                  *)
FleetStaysUp ==
    /\ \E i \in Instances : <>[](life[i] = "running")
    /\ <>[](\A t \in Threads :
            stage[t] = "asking" /\ Electable(t) => row.token < MaxToken)

(* Dispatch is "a property of the run rather than of the process that      *)
(* created it" (scheduler.py): whoever started a run, crashed, stopped or  *)
(* lost the role, a run that is ready is dispatched, as long as the scans  *)
(* are wide enough for the runs there are.                                 *)
ReadyRunsAreDispatched ==
    MaxRuns <= Limit /\ FleetStaysUp
        => \A r \in Runs : [](run[r] = "ready" => <>(run[r] # "ready"))

(* "Whatever does not fit this window is found by the next sweep"          *)
(* (scheduler.py): the same, however many runs there are.  The sweep does  *)
(* not keep it: the README tells how the window fills.                     *)
TailIsFound ==
    FleetStaysUp => \A r \in Runs : [](run[r] = "ready" => <>(run[r] # "ready"))

=============================================================================
