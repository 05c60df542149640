# CortexPrime: verification of the durable execution plane

CortexPrime is an operations assistant that plans work, asks for approval and then
*does* things to real systems: it restarts, scales, deploys, writes. The part that
must not be wrong is the one that carries a compiled workflow to the outside world and
remembers what it did: the durable execution plane
(`src/backend/contexts/execution`, `src/backend/database/durable` and the wiring in
`src/backend/api`). Several processes run it against one SQL database; each may stall,
lose its lease, crash between two statements or hear nothing of a commit that went
through. Next to it stands the way an action gets its approval and is carried out under
it, of which the remediation runtime is the most ambitious user. This directory holds
TLA+ models of both, the TLC configurations that check them on small instances, and
TLAPS proofs of what matters most for every instance.

Contents: [1 Inventory](#1-the-system), [2 Modules](#2-modules),
[3 Runs](#3-runs-and-what-they-show), [4 Bounds](#4-bounds),
[5 Fairness](#5-fairness-and-deadlock), [6 Proofs](#6-what-is-proved),
[7 Disagreements](#7-where-the-code-and-its-documents-disagree),
[8 Limits](#8-what-is-not-modelled), [9 Plan](#9-plan).

## 1 The system

### The parts of the execution plane

| Part | State | Operations | Hard behaviour | What makes it correct |
|---|---|---|---|---|
| Execution aggregate (`domain/execution.py`, `lease.py`, `state.py`, `retry.py`, `effects.py`, `policy.py`, `checkpoint.py`) | a run: its state, per node a state, a lease and the attempts, the checkpoints | one method per command; each returns a new aggregate or raises | long sequences of legal commands; ambiguity after a lapsed lease | state, lease and attempts of a node tell one story; an ambiguous unkeyed mutation is never repeated; completion is settled and final |
| Execution service (`application/service.py`) | none of its own | start, pause, resume, complete, fail, cancel, time_out, assign, record_success, record_failure, reclaim, heartbeat, retry, skip, compensate, checkpoint | loads, decides, writes: other processes write in between | commands behave as if one after the other |
| SQL repository (`infrastructure/sql_repository.py`) | one row per run: document, revision, updated_at | save, replace (unchecked), compare_and_swap, find_with_revision, find_by_state | lost updates, stale copies, windows with a limit | a checked write replaces exactly the copy it was decided on |
| Dispatcher (`application/dispatcher.py`, `domain/dispatch.py`) | none that survives a cycle | one cycle: discover, lease, name the attempt, invoke, classify | several dispatchers, operators and the clock between any two steps | the effect of an unkeyed mutation lands at most once; what landed is on record |
| Invocation gateway, worker runtime, adapters (`invocation_gateway.py`, `worker_runtime.py`, `infrastructure/adapters/`) | budgets, audit trail | refusal checks, the provider call, recording the answer | the call outlives the lease; recording fails after the effect landed | no record claims less than happened |
| Scheduler (`application/scheduler.py`) and recovery coordinator | lifecycle state, tracked runs, the handle of its role | recover, start, stop, tick, track, untrack | two threads share a handle; the role is lost in the middle of a tick; windows with limits | one coordinator per term; a ready run is dispatched whoever started it |
| Leadership (`database/durable/leadership.py`) | one row per role: holder, fencing token, status, expiry | acquire, heartbeat, release, fenced writes | lapse, takeover, unknown commits, clocks that disagree | a token names one instance; a superseded token writes nothing |
| Audit writer and store (`platform/audit/runtime.py`, `database/durable/audit.py`) | the runtime's tail; the chain's head row and records | record, append through the fence, recover the tail at start | a stall between admission and append; an unknown commit | the chain neither forks nor skips |
| Outbox and publisher (`sql_outbox.py`, `outbox_publisher.py`) | entries: status, attempts, claimant | record, claim, deliver, mark_published, mark_failed | claims lapse in the middle of a batch; unknown answers; late answers | published was received; given up was refused; settled stays settled; nothing is stranded |
| Work queue (`sql_queue.py`) | items with sequence and claim | enqueue, claim, release, requeue | sequences collide; a release asks for no holder | an item is worked on by one claimant |
| Node leases, durable recovery (`sql_coordination.py`, `durable_recovery.py`) | lease rows per node, recovery role | acquire, renew, release, scan, recover | a scan is stale when it is acted on | an ambiguous lease is not reclaimed by itself |
| Idempotency store (`sql_coordination.py`) | reservations of keys | claim, complete, release | a claimant dies between claiming and completing | one action per key |
| Approvals (`sql_approval.py`, `authorization.py`, `api/product/approval_routes.py`) | a row per approval: decision, expiry, mark of use | request, decide, withdraw, mark_consumed; is_valid_for | decisions race decisions and time; the mark of use is a note that may never be written | an action is asked for only on an admission given while its approval stood; an approval that fell admits nothing more |
| Governed write (`api/capability_execution_composition.py`, the gateway's authorization, `workers/contained_k8s_rollback`) | runs of one node; the generation of the target | start, admit, refuse, ask the worker, write at the expected generation | the run outlives its caller; the approval falls after the admission and before the worker is asked; the target moves | authorization is asked again when the call is admitted; the worker writes to the state that was approved |
| Remediation runtime (`api/remediation_runtime.py`) | a ledger of stages, two idempotency keys, the pending plans of a process | propose, announce, delegate, poll, execute_plan, resume | two processes hold one plan after a restart; a crash between any two steps; a ledger that fails | a plan acts at most once; the incident's budget is kept; a plan closed as not executed never was |
| Compensation, replay, metrics | none | pure functions over a run | order of compensations | reverse dependency order |

### How they interact

An HTTP call, a watch or a remediation asks for a governed call. The service starts a
run and stores it. Either the caller's own thread (a *reader*) ticks the scheduler until
its node ends, or the background loop of whichever process holds the SCHEDULER role
finds the run in the store. A tick runs one dispatch cycle per run: the dispatcher
leases a node through a compare-and-swap on the run's row, the gateway checks the lease
again and calls the worker, the worker calls the provider, and the gateway records the
answer through the service, under the name of the lease holder. Every command of the
service also records events in the outbox; the *pump* thread of the process that holds
the OUTBOX_PUBLISHER role hands them to the sink. What is refused or done is written to
the audit chain by the process that holds the AUDIT_WRITER role. All shared state is in
the database; there are no messages between processes, only rows that somebody else may
have changed. Operators act through the same service from any process.

An action that changes something needs an approval: a person asks and another decides, or
the remediation runtime proposes a plan and a person or policy decides. The route or the
runtime has the governed write started as a run of one node; the scheduler dispatches it
like any other, and the gateway asks authorization again when it admits the call. It asks
the worker only after that, and nobody looks at the approval in between or later. The runtime
writes every stage of a plan to a ledger; a process that starts reads the ledger and takes
up what another one left.

### Beyond the execution plane

The repository also holds planning contexts (intent, mission, planner, work order,
workflow), review and engineering contexts, the planning and verification of
remediations, investigation, signal ingestion and a world model, language-model, voice, vision and memory services, a
first-generation orchestration kept behind boundary routes, connectors, and a frontend.
`PROJECT.json` lists each with the reason it is not modelled: they are sequential
documents, pure decisions, I/O or callers of the plane modelled here.

## 2 Modules

```
ExecutionAggregate            the run as a value, pure operators
  └─ ExecutionRun             the commands, one after the other       (abstract)
       ├─ ExecutionStore      the same commands against the row       (refines ExecutionRun)
       └─ Dispatch            dispatchers, gateway, workers, operators
Leadership                    one role: election, heartbeat, release, fence
  ├─ AuditChain               writers of the audit chain under the role
  └─ Scheduler                the schedulers of a fleet under the role
Outbox                        entries, claims, publishers, sink
Approval                      the rows of the approvals
  └─ GovernedWrite            runs that write under an approval, and their target
       └─ ApprovalRoutes      a person's way to a write
            └─ Remediation    plans, their keys, ledger and processes (refines GovernedAction)
GovernedAction                what an approval promises                 (abstract)
```

`MC*.tla` give the constants values; `*Proofs.tla` hold theorems about the module they
are named for: ExecutionAggregateProofs the lemmas about the aggregate's operators, on
which ExecutionRunProofs, ExecutionStoreProofs and DispatchProofs rest; AuditChainProofs
(with Leadership), OutboxProofs, SchedulerProofs and RemediationProofs (with the modules
under it).

**ExecutionAggregate** has no variables. Each method of the aggregate is a pair:
`Can<Method>` says it does not raise, `<Method>ed` is the aggregate it returns, with every
helper it calls (`PromoteReady` after each change of a node, `SealedIfDone` after a
success). `PlanRecovery` is the recovery plan of a run, with the two notions of what is
retryable that its callers have: `AttemptsLeft` for the scan of a starting process,
`RetryPermitted` for the operator's query. Identifiers, reasons, digests and payloads are left out; an attempt is its
number, a checkpoint the set of nodes that had finished.

**ExecutionRun** is what the service promises: `run` is the stored run, `now` the clock,
and each handler is one atomic action. A handler reads the clock before it decides, so
it decides with any `t \in 0..now`.

**ExecutionStore** splits each handler into `Load` and a write. `loaded[p]` is the copy
process p holds with its revision; `Swap` is `compare_and_swap` and `Replace` the
unchecked `replace`. `Replacing` names the unchecked commands the processes issue, so
that a configuration can ask what the checked ones guarantee alone. `granted` is a
history of the attempts a process was told it owns.

**Dispatch** runs the dispatchers step by step over the atomic commands: `task[d]` is how
far dispatcher d is with which node and which named attempt. `invoked`, `applied` and
`answers` are histories: what the worker was asked, how often the effect landed, how
answers were closed and classified. All dispatchers of a run lease under one identity, as
the code does (`dispatcher:<execution id>`), and the arrival is classified with the
implementation's name, as the code does. A refusal of the gateway for any other reason
than the lease is one nondeterministic `Refuse`.

**Leadership** is the role's row and each instance's handle. The expiry is a Boolean that
may become true at any step: instances read their own clocks, and nothing checked or
proved here rests on clocks agreeing.

**AuditChain** adds, per instance, the tail its runtime remembers, the token it presents
and where its append is: admitted, writing, or idle. `ExtendChain` is the fenced
transaction with both its conditions; `heard` says whether the commit was acknowledged.

**Outbox** is the entries with their claims, and per publisher the batch in hand and the
answer it still has to write down. `received` and `refusals` are histories of the sink.
Claims lapse at any step.

**Scheduler** has one record of the lifecycle per process and one tick per thread: the
background loop, and the reader of a governed call, which share the process's handle. A
tick reads the handle (`Look`), renews or asks for the role (`Ask`), or learns nothing
(`Unverified`), keeps what it was told (`Keep`), and cycles its runs (`BeginCycle`,
`EndCycle`, `EndTick`). A run is ready, busy, stuck (running, with nothing to
dispatch) or done; `newer` is the order of the last updates, because the window of the
sweep is taken in that order. What a cycle does inside is the subject of Dispatch.

At its start a scheduler takes up any of the open runs the scan may find resumable:
whether the plan of a run is automatic depends on nodes this module does not have.

**Approval** is the rows. `Decide` is one statement conditioned on a pending row, `Withdraw`
lands on any row, expiry is a Boolean that becomes true at any step, and `MarkConsumed` is
a mark. The route's check for an expired row is not in `PersonDecides`, because it is made
before the decision and time may pass in between. `mishaps` bounds, here and in the three
modules that extend this one, everything that goes wrong: a withdrawal, an expiry, a
foreign write to the target, a call to the ledger that fails, a crash.

**GovernedWrite** has the runs of `GovernedCapabilityWriter`, of one node and one attempt, and
the `generation` of their one target. `Start` is the first authorization and the creation of
the run. `Admit` is the gateway's second authorization; the run is then *admitted*, and while
it is, the approval may be withdrawn, expire or be marked used: worker selection, the lease
check on the database, the rate, the credential and two published events come between, and
none of them reads the approval. `Invoke` asks the worker without another look; `Refuse` is
any check, before or after the authorization, that ends the only attempt. `Land` is the
worker's conditional write (its answer may be lost). A run that failed or ended unknown is
*ended*: nothing here tells them apart. `asked` and `landed` are histories.

**ApprovalRoutes** adds the product's routes: a person requests, and whoever may executes.
An approval that belongs to a plan of the runtime is refused there (`MayExecute`).

**Remediation** has, for each process, what its thread is doing (`task`), the plans it is
waiting for (`pending`) and, while it starts, those it has yet to look at (`todo`). A plan
stands for its approval, its row and its events. `execute_plan` is cut where another
process can see or change something: `Count`, `ClaimAction`, `CheckStale`, `FenceTarget`,
`Executing`, `Write`, `Drive`, `Note`, `Report`, `Verify`. Merged into one step are the plan's
row and its approval's, a closing stage and the event after it, and the readings of
`_stale_reasons`: what changes between two of them may as well change after them. `lost`
counts the calls to the ledger that failed; a mark of use that fails, an exception of the
governed write and a crash are mishaps, but excuse nothing.

**GovernedAction** is the promise. Seen through Remediation, `standing[a]` is *revoked* as
soon as anything makes the approval invalid, *permitted* while it is granted, *open*
before; `admitted[a]` is the number of runs under a that were admitted and have not asked the
worker yet; `asked` and `landed` are GovernedWrite's; and the plans are the actions that are
asked for once. An admission needs an approval that stands and serves once, for asking or for
nothing; an approval that fell admits nothing more, and the promise is no stronger than that.

| Module | Source, mostly |
|---|---|
| ExecutionAggregate | `domain/execution.py`, `lease.py`, `state.py`, `failure.py`, `retry.py`, `effects.py`, `policy.py`, `checkpoint.py`, `recovery.py`; `application/recovery_coordinator.py` |
| ExecutionRun | the handlers of `application/service.py` |
| ExecutionStore | `service.py`, `infrastructure/sql_repository.py` |
| Dispatch | `application/dispatcher.py`, `domain/dispatch.py`, `application/invocation_gateway.py`, `worker_runtime.py`, `api/capability_execution_composition.py` |
| Leadership | `database/durable/leadership.py` |
| AuditChain | `platform/audit/runtime.py`, `database/durable/audit.py`, `api/durability_composition.py` |
| Outbox | `infrastructure/sql_outbox.py`, `application/outbox_publisher.py` |
| Approval | `contexts/connectivity/infrastructure/sql_approval.py`, `application/authorization.py` |
| GovernedWrite | `api/capability_execution_composition.py`, `invocation_gateway.py`, `worker_runtime.py`, `workers/contained_k8s_rollback/worker.py` |
| ApprovalRoutes | `api/product/approval_routes.py`, `api/product/remediation.py` |
| Remediation | `api/remediation_runtime.py`, `contracts/remediation.py`, `sql_coordination.py` (the keys) |
| Scheduler | `application/scheduler.py`, `recovery_coordinator.py`, `service.py` (discovery), `api/capability_execution_composition.py` (readers) |

`PROJECT.json` maps every definition to the lines it stands for.

## 3 Runs and what they show

Passing runs:

| Run | Question | Properties |
|---|---|---|
| `execution_run` | Is the record coherent whatever legal commands are given, in any order? | `TypeOK`; `LeaseMatchesAttempt` (a node's state, lease and attempts agree); `AmbiguousMutationNeverRepeated`; `CompletedIsSettled`; `NoNodeForgotten` (the last dependency to land, however it lands, frees its dependents in the same write); `CheckpointsNeverAhead`; `RecoveryLeavesNoDoubt` (no plan but to look or to wait while an unkeyed mutation is in doubt, and none that reports nothing left behind while one stands); `RecoveryCanBeDone` (what an operator is told can be done); `TerminalIsFinal`; `AttemptHistoryKept` |
| `store_checked` | Are load and compare-and-swap together as good as an atomic command? | `Spec`: three processes implement ExecutionRun; `CopyMatchesRevision`; `EveryGrantOnRecord` |
| `store_overwriting` | What survives when the unchecked commands are used too? | `StoredRunCoherent` (writes are lost whole, never mixed); `CopyMatchesRevision`; `StoreTypeOK` |
| `dispatch_at_most_once` | Can the effect of an unkeyed mutation land twice, or be denied? | `AtMostOnce`; `LandedIsOnRecord`; `InvocationsOnRecord`; `OneInFlight`; `DispatchTypeOK` |
| `audit_chain` | Can the chain fork, skip, or be written by a superseded leader? | `ChainNeverForks`; `SupersededWritesNothing`; `OneWriterPerTerm`; `TokenNamesOneInstance`; `AuditTypeOK` |
| `outbox` | Is delivery honest, final and live? | `PublishedWasReceived`; `DeadLettersWereRefused`; `SettledStaysSettled`; `ServedEventsSettle` (liveness); `OutboxTypeOK` |
| `scheduler` | Can two processes coordinate in the name of one term? | `OneCoordinatorPerTerm`; `SchedulerTypeOK` |
| `scheduler_liveness` | Is a ready run dispatched whoever crashed, stopped or lost the role? Also when a tick of its reader takes the role for a process that was stopped, cycles nothing, and leaves it there until it lapses? | `ReadyRunsAreDispatched` (liveness) |
| `remediation` | Does an approval bound what is done under it, whoever crashes, resumes or runs beside? | `ImplementsGovernedAction` (the refinement: asked only on an admission given while the approval stood, each serving once, and once per plan); `EffectsWithinBudget`; `NotExecutedMeansNot`; `RemediationTypeOK` |

Runs that end in a counterexample, each to one sentence of the repository (section 7):
`store_lost_grant`, `dispatch_late_answer`, `audit_successor`.

Each property of a passing run has a mutant: an operator beside the definition it changes
(its comment begins with "Mutant"), which changes the model as a plausible bug would
and makes TLC report that property.

`AtMostOnce` deserves a word. It is not enforced in one place. It takes the retry rule
(a mutation without a key is not repeated after an ambiguous end), the reclaim rule (a
lapsed lease ends *unknown*, never *failed*), the lease check before the call, and the
fact that a lost record leaves the node leased. Each mutant of the run removes one of
them.

Nor is `EffectsWithinBudget`. Two processes may both find the budget unspent, and the key of
an action is the plan's, not the incident's. What keeps two plans of one incident from both
landing is the worker, which writes only to the generation its plan was approved for: the
first write takes it away from the second.

## 4 Bounds

| Bound | Where | Value | Why it is enough |
|---|---|---|---|
| nodes, attempts | ExecutionRun, Store, Dispatch | a two-node chain, or one node with two attempts | dependencies need two nodes; a repeat needs two attempts; nodes interact only through dependencies and the run's state |
| `MaxTime`, `LeaseSeconds` | same | 1 to 3, leases of 1 | a lease can be granted, lapse, be reclaimed and granted again; handlers may decide with any earlier moment |
| `MaxCheckpoints` | ExecutionRun, Store | 1, or 0 where no property is about them | one checkpoint and commands before and after it |
| `MaxRevision` | ExecutionStore | 4 to 10 | for two or three processes: load, be overtaken, write; the proofs have no such bound on what they say |
| `Procs`, `Dispatchers`, `Instances`, `Publishers` | all | 2, three where only checked writes are made | races are between two actors; the third shows that nothing special happens with more |
| `MaxToken` | Leadership | 4 (audit), 2 (scheduler) | an election, a takeover, and a return of the first leader; the scheduler needs one takeover |
| `MaxRecords`, `MaxDoubts` | AuditChain | 3 and 1 | two writers and a record after the second; one commit nobody heard of |
| `MaxMishaps` | Outbox | 1 | one crash, unknown answer or lost write, at every point; lapsing claims are unbounded |
| `MaxPublishAttempts` | Outbox | 2 | below and at the threshold (the code has 10) |
| `BatchSize` | Outbox | 2 | a batch with something left when its claim lapses |
| `MaxRuns`, `Limit` | Scheduler | 1 and 1 | one run is watched while the fleet changes around it; runs meet only in the windows, and what a full window does is in section 7 |
| `family` | `scheduler_liveness` | *loops*, *reader* | with a reader and both processes free, the state space is beyond a liveness check. In *loops* nobody drives a run and all else is free. In *reader* one process is up first and stays up; the other drives the run, starts its loop before anybody led, stops and never crashes; the first ticks only while that loop does not run. It keeps every order of stopping, giving back, the reader's tick and the other's ticks, which is where the role may be left with a stopped process (TLC reaches such states, and the takeover after them) |
| `Plans`, `Approvals`, `Instances` | Remediation | a plan for a person, one for policy, an action of a person; 2 | two plans of one incident compete for its budget and its target; after a restart two processes hold the same plan |
| `MaxExecutions`, `MaxGeneration`, `MaxRuns` | Remediation | 1, 4, 2 | one execution spends the budget; a generation for each write and a foreign one; every plan may start a run, or one approval two |
| `MaxMishaps`, `Small` | Remediation | 2 | two mishaps, at every point, with one process up at a time (a crash, then what the next one meets); one mishap with two processes side by side; an action of a person alone with one mishap, or beside a plan with none |

Elections, records, revisions and ticks are bounded in the guards of the modules
themselves (`MaxToken`, `MaxRecords`, `MaxRevision`, `MaxTime`). The safety theorems of
section 6 hold for every value of these bounds.

Symmetry is used for processes that are told apart by nothing, in runs with no liveness
property.

## 5 Fairness and deadlock

*Outbox* (`OutboxFairness`): the pump claims again and again, a publisher with a batch goes
on with it, claims lapse with time. The pump's loop and the database's clock justify it.
Nothing forces a mishap, and none is excluded.

*AuditChain* (`AuditFairness`): the pump asks for the role, records are asked for again and
again, the started append ends. No process is promised to come back. It is used in
`audit_successor` only, where more fairness makes the counterexample stronger.

*Scheduler* (`SchedulerFairness`): a lease nobody renews lapses; a process that was told
to stop gets there and exits; a loop goes on while its scheduler runs (it catches every
exception); the database answers it again and again (strong fairness on `Ask`: a loop
that never gets an answer is a database that is away for good); and while the process
leads, its discovery interval is over again and again. Readers are promised nothing, nor
that anybody starts a process, submits, or operates. `ReadyRunsAreDispatched` has a
premise, `FleetStaysUp`: some process runs its scheduler for good, and in the end the
bound on elections is not what keeps the role from being taken. The second part only
removes what the bound itself would cause. `scheduler_liveness` assumes exactly this
fairness; its two families only restrict what else may happen.

`CHECK_DEADLOCK FALSE` is set where a settled system may stop: a run that ended
(`execution_run`, `dispatch_*`), an outbox with nothing left to do (`outbox`) and plans that
are all closed (`remediation`). The code promises no plan of a remediation that it will be
closed (a process that starts passes over stages it does not know how to take up), so
Remediation states no liveness and no fairness.

## 6 What is proved

For every value of the constants, with TLAPS; every leaf is checked by SMT, Zenon or
LS4. Every safety property of a passing run is a theorem, of the specification that the
run instantiates.

| Theorem | Statement | Argument |
|---|---|---|
| `ExecutionRunProofs!TypeCorrect` | `Spec => []TypeOK` | inductive as it stands; one lemma per kind of change |
| `LeaseAlwaysMatchesAttempt`, `NobodyForgotten`, `CheckpointsTrustworthy`, `AmbiguityNeverRepeated`, `CompletedSettled` | the invariants of `execution_run` | `RunInv`, below |
| `RecoveryNeverInDoubt`, `RecoveryAlwaysDoable` | the plans of recovery | the first from `RunInv`, the second from the types; what each branch of `PlanRecovery` implies is a lemma |
| `TerminalNeverChanges`, `AttemptsNeverRewritten` | the two action properties | each move of a node keeps the attempts that have ended; every command asks first whether the run is over |
| `ExecutionStoreProofs!StoreTypeCorrect`, `CopiesMatch` | types; `CopyMatchesRevision`, whatever commands overwrite | `StoreInv`: types, no copy is ahead of the row, and the property: without the second an old copy could meet its revision again |
| `StoredRunAlwaysCoherent` | `StoreSpec => []StoredRunCoherent`, whatever commands overwrite | `StoreCoherent`: the row and every copy are coherent, since a write is what one process made of one coherent copy. A write may be lost, two are never mixed |
| `CheckedWritesAreAtomic` | with `Replacing = {}`: `StoreSpec => Spec` | under `StoreInv` a checked write replaces the run it was decided on, so it *is* the atomic command; loads, drops and plans stutter |
| `GrantsOnRecord` | with `Replacing = {}`: no grant is erased or repeated | from the same facts: only `assign` appends an attempt, and it writes the grant with it |
| `DispatchProofs!DispatchImplementsRun` | `DispatchSpec => Spec` | each step of a dispatcher, worker or operator is one command or leaves the run alone; every theorem about `Spec` thereby holds of Dispatch |
| `LandsAtMostOnce`, `OneDispatcherInFlight`, `LandedOnRecord`, `EveryInvocationOnRecord`, `DispatchTypeCorrect` | the properties of `dispatch_at_most_once` | `DispatchInv`, below |
| `AuditChainProofs!AuditTypeCorrect`, `TokensTellLeadersApart` | types; `TokenNamesOneInstance` | `ChainInv`: no handle is above the row's token, one equal to it is the holder's; a new token is above all |
| `ChainIsOne`, `TermsHaveOneWriter`, `FenceHolds` | the chain is gapless, one writer per token, nothing under a superseded one | records carry granted tokens, those of the latest are the holder's; an append passes the fence and stands at the tail |
| `OutboxProofs!OutboxTypeCorrect`, `PublishedReachedTheSink` | types; `PublishedWasReceived` | `OutboxInv`: an answer in hand is what the sink said, and the sink never refuses what it took |
| `OnlyTheRefusedAreGivenUp` | `OutboxSpec => []DeadLettersWereRefused` | `RefusalsCover`: the failed attempts on a row and the refusals still in publishers' hands are together no more than what the sink refused. Without those in hand a late second answer could count one refusal twice |
| `LateAnswersChangeNothing` | `OutboxSpec => SettledStaysSettled` | a row is published only if received and given up only if refused to the threshold; a late answer therefore agrees with what is there |
| `SchedulerProofs!SchedulerTypeCorrect` | `SchedulerSpec => []SchedulerTypeOK` | inductive as it stands |
| `TermsHaveOneCoordinator` | `SchedulerSpec => []OneCoordinatorPerTerm` | `SchedulerInv`: a process *goes by* a term through its handle or through what a thread of it was told; terms gone by were elected, the last one by the holder, and no two processes go by one; who coordinates was told a term. A step keeps the terms or begins one (`TermsStep`) |
| `RemediationProofs!RemediationTypeCorrect`, `ClosedPlansNeverRun`, `BudgetHolds` | types; `NotExecutedMeansNot`; `EffectsWithinBudget` | `RemediationInv`, below |
| `RemediationImplementsGovernedAction` | `RemediationSpec => ImplementsGovernedAction` | from `RemediationInv`: every step permits, revokes, admits, forgoes, asks for or lets take effect one action, or stutters (`ActionStepMaps`). A run is admitted only while its approval stands and leaves that state by asking once or by ending. That a plan is asked for once is its key: one run each |

The three long arguments.

**The run** (`RunInv`). `LeaseMatchesAttempt` alone is not inductive: a retry makes a node
ready, a success promotes others and seals the run, and each touches several of the
invariants at once. `RunInv` says of each node that state, lease and attempts tell one
story and that a success stays its last attempt (`NodeCoherent`), that an attempt with an
unknown outcome stays the last of an unkeyed mutation and its node never becomes ready
again (`NodeUnrepeated`); and of the run that nobody waits whose
dependencies are satisfied (`NoneForgotten`), that no checkpoint is ahead (`NoneAhead`), and
that a completed run has nothing outstanding (`Settled`). The commands are first reduced to
their moves (`StepMoves`): a command moves one node (`NodeMoved`) and at most promotes others
(`Kept`), moves the state of the run, or takes a checkpoint. The invariant is then proved once
for each kind of move and not for each command.

**The dispatchers** (`DispatchInv`). `AtMostOnce` speaks of what the provider did, which the
record does not show. The invariant ties the two: whoever works on an unkeyed mutation is alone
in it, and its last attempt is open or doubtful (`OneHand`); once it landed, that attempt is
*spent* and whoever still works on it has its answer and was not told that nothing was done
(`LandedOnce`). A spent last attempt is one that `RunInv` lets nothing follow, so the
coherence of the record is what keeps a second dispatcher out. `AttemptsCover` counts:
invocations made and dispatchers about to make one are together no more than the attempts.
The late answers of section 7, which close another attempt than their own, are in these
behaviours, and the theorems hold in spite of them.

**Remediation** (`RemediationInv`). Three arguments. *The action key*: from its claim on a plan
is in the hands of one process, and has no run until that process starts its one run
(`OneRunEach`); a plan closed unstarted has no run and is in nobody's hands
(`UnstartedNeverRun`). *The tally*: landed and invoked are no more than asked; asked, bound
and admitted no more than the runs (`Tally`). *The generation*, for the budget: a plan takes effect only on
the generation it was made for, and moves the target past it. So of two plans that took effect
the later one's count of executions was taken when the earlier was already written to the
ledger as executing, or its write was lost. Each process compares with its own count, and
all of them together still stay within `MaxExecutions + lost` (`Budgeted`).

The invariants of all three, and `RefusalsCover`, were checked with TLC on the instances of
the runs before they were proved.

Assumptions are the `ASSUME`s of the modules: the shape of the workflow (`DependsOn` is a
function into the nodes and no node waits for itself), positive lease lengths and attempt
limits, that plans are among the approvals, and that the null values are not among the values
they stand for. Nothing is assumed about clocks, numbers of processes, or the bounds beyond
being numbers; sets of nodes, processes or plans need not be finite.

Model-checked only: the two liveness properties, `ServedEventsSettle` and
`ReadyRunsAreDispatched`. They rest on fairness and so on ENABLED, which the prover does
not reason about. The properties of the runs that expect a violation are false and have
no theorem.

## 7 Where the code and its documents disagree

* **A grant can be erased** (`store_lost_grant`). `dispatcher.py:27` says two dispatchers
  reaching for one node produce one owner. `assign` is checked, but `pause`, `resume` and
  the other commands of an operator write through the unchecked `replace` (`service.py:411`):
  pausing on a copy loaded before an assignment erases the lease, and the same attempt is
  handed out again.
* **A late answer closes another attempt** (`dispatch_late_answer`). ADR-039 says an answer
  of a superseded attempt is not applied. Answers are recorded by node and lease holder,
  and all dispatchers of a run are one holder (`capability_execution_composition.py:1090`).
* **A successor cannot write** (`audit_successor`). ADR-055 promises that a successor
  continues the chain. The tail is read when the runtime is constructed
  (`platform/audit/runtime.py:137`); a process that was already running when it takes the
  role is refused at the tail for good.

More are visible in the models and have no run of their own. Where a property is named, TLC
refutes it.

* *An approval that falls does not stop the call* (`AskedUnderStandingApproval` of Remediation,
  with the constants of `remediation`). ADR-038 says that a withdrawn grant or an expired
  approval must be able to stop work already in flight (lines 87 to 89). The gateway reads the
  approval early in `admit` (`invocation_gateway.py:574`); what falls between that and
  `adapter.run` (`worker_runtime.py:628`) is not seen, and the worker is asked. What does
  hold is `ImplementsGovernedAction`.
* *A closed plan may act* (`ClosedPerformsNothing`, same constants). `contracts/remediation.py:114`
  names the stages after which a plan performs nothing further. An exception after the
  governed write was started is closed as a refusal (`remediation_runtime.py:907`), and a plan
  reconciled after a crash is closed as verified, while their runs may still be dispatched.
  `NotExecutedMeansNot` covers the closings for which it is true, and the budget counts such a
  plan as executed: `EffectsWithinBudget` would fail if it did not (`SpentUnrefused`).
* *A use is noted before it is made* (`RecheckPrecedesUse`, same constants). `authorization.py:139`
  says that an approval is marked consumed only after its governed write returned, so that
  every re-check comes first. A caller whose ticks are spent
  (`capability_execution_composition.py:1686`) marks the approval (`remediation_runtime.py:923`)
  while the run is still bound, and the re-check then refuses the very write the mark stands
  for.
* *The tail of the runs is not found* (`TailIsFound` of Scheduler, with `FairSchedulerSpec`, one
  instance, no readers, `MaxRuns = 2`, `Limit = 1` and `MaxToken = 1`). `scheduler.py:275` says
  that what does not fit the window is found by the next sweep. The window is the latest
  running runs and is filtered for ready ones afterwards (`service.py:1004`); runs that wait
  for a person stay running, and a window full of them hides every earlier run.
* *An answer is recorded before it is classified* (`RecordAnswer` before `Classify` in
  Dispatch), so that an undisturbed success is classified a duplicate.
* *A claim of the outbox is neither renewed nor looked at again* while its batch is handed
  over, so two publishers can hand over one entry although neither crashed; the properties
  of `outbox` hold all the same. And a publisher's context names one tenant: the entries
  outside `Served` never settle.
* *Something may be left behind.* `fail_execution` means "Nothing is recoverable and nothing
  was left behind" (`domain/recovery.py`), and the plan looks at the last attempt of a node
  only. A keyed mutation whose first attempt timed out and whose second was refused may
  have been applied by the first. `RecoveryLeavesNoDoubt` is therefore about mutations
  without a key. And a run whose last node failed for good, with nothing waiting on it, is
  planned as `resume_from_checkpoint` ("work remains") with nothing to resume.
* *A retry that will be refused is planned.* The scan of a starting process takes every
  failed node with an attempt left for retryable, also one whose failure is terminal by its
  class; the retry decision, which the operator's query consults, refuses it. Nobody acts
  on the scan's plan but by tracking the run, so `RecoveryCanBeDone` is about the query.
* *The use of an approval is a note.* `authorization.py:137` and `sql_approval.py` speak of
  approvals for single use. A caller who does not wait never notes the use
  (`approval_routes.py`), two callers may start two runs before either notes it, and the
  note may fail. A person's action (`manual` in the run) is for that reason not among the actions
  that are asked for once; a plan is, because of its keys and not of the note.
* *The critical pair is not one unit.* `durability_composition.py` offers `record_outcome`,
  which stores a run and its events atomically, and nothing calls it; the service stores
  the run and then records the events (`service.py:299`).

## 8 What is not modelled

* Of the modelled parts: the gateway's checks of identity, tenancy, binding, approval,
  selection and budget (one nondeterministic refusal), deadlines and the limit of nodes
  per cycle, the worker pool and its selection, the query handlers, metrics, the
  in-memory stand-ins of the SQL stores, and FAILED as a state of the scheduler (a
  scheduler whose recovery raises does not start).
* The events of a command are recorded in a unit of their own after its state was saved
  (`service.py:299`); Outbox begins when an event is recorded, so what a crash in between
  loses is not in the models yet.
* Scheduler and Dispatch are not composed: a cycle is one lease and one outcome in
  Scheduler, and Dispatch has dispatchers that nobody schedules, which is more than any
  scheduler would let happen.
* The parts of the inventory without a module: the work queue, node leases and the recovery
  role, compensation. Nothing in the production wiring enqueues, grants a node lease or
  records a compensation. Of the idempotency store, the outcomes of keys: they are written
  and nobody reads them.
* Of approvals and remediation: how a plan is derived and how a verdict is reached, the
  policy's other reasons to refuse (one nondeterministic refusal), tenancy, digests, and what
  a lapsing lease does to the attempt of a run (Dispatch has it). Remediation is not composed
  with Scheduler: whoever leads dispatches a bound run at any time.
* The clock of an authorization and its reading of the row are one moment, and a run exists
  as soon as it is authorized: nobody looks at it in between. After the admission the adapter
  (`adapters/base.py:730`) and the rollback worker (`worker.py:454`, `466`) look at the clock
  again. Their window is that of the binding, the decision and the deadline; the approval's
  own expiry is not among the facts `facts_for` gives the gateway
  (`capability_execution_composition.py:952`), and the adapter's last look
  (`DirectoryAdapterPreflight`) is at the directory of workers. Both can only refuse, as
  `Refuse` and `NotLanded` may at any time.
* Provider adapters: how an exception is classified is taken as given, with the outcomes
  the classification has.
* SQL isolation is taken to give each statement or unit of work its atomicity, and the
  unique constraints the tables declare.

## 9 Plan

In order of what a mistake would cost.

1. **The record and its events** (`RecordedCommands`): ExecutionStore's writes with the outbox
   row that follows, in two units, with crashes; which events may be missing, and that
   none is early.
2. **Scheduler with Dispatch**: cycles under a role that may be lost in the middle; `AtMostOnce`
   with the role, and what the role adds to it.
3. **Node leases and durable recovery** (`NodeLease`, `Recovery`) and **the work queue**
   (`WorkQueue`), which production does not use (`dispatcher.py:36`), last.
4. **Pure algorithms**: `compensation_order` and `recovery_priority` against reference
   definitions over bounded runs.
5. **Proofs** of what these modules will state: that no event is early, from
   `StoreInv`; `AtMostOnce` under the composition with the role, from `DispatchInv` by
   refinement. Of the modules there are: that Leadership's tokens only grow and are never
   granted twice, as an action property of every module that composes it; and what the safety
   half of `ServedEventsSettle` needs, that a settled entry was claimed by its publisher.
