---------------------------- MODULE ExecutionStore ----------------------------
(***************************************************************************)
(* The execution service against its database                              *)
(* (infrastructure/sql_repository.py): several processes (dispatchers, API *)
(* handlers) each load a copy of the stored run, decide on that copy, and  *)
(* write the result back.  Loading and writing are statements of their     *)
(* own, so other processes write in between.                               *)
(*                                                                         *)
(* assign, record_success, record_failure and reclaim write through        *)
(* compare_and_swap: the write is refused unless the revision is still the *)
(* one the copy was loaded at.  Every other command writes through         *)
(* replace, which overwrites whatever is there.  Replacing says which of   *)
(* those commands the processes issue, so that a configuration can ask     *)
(* what the checked writes guarantee with and without the others.          *)
(*                                                                         *)
(* A process that dies, is refused, or loses the compare-and-swap writes   *)
(* nothing: all three are Drop.  What the processes promise together is    *)
(* the specification Spec of ExecutionRun, over the same run and clock.    *)
(***************************************************************************)
EXTENDS ExecutionRun

CONSTANTS
    Procs,         \* the processes serving commands
    Replacing,     \* the unchecked commands they issue
    MaxRevision,   \* bound on the writes to the run
    NoCopy         \* a process that has nothing loaded

Unchecked ==
    {"pause", "resume", "complete", "abort", "heartbeat", "retry", "skip",
     "compensate", "checkpoint"}

Copy == [run : Run, revision : Nat, since : Nat, planned : SUBSET Nodes]

ASSUME StoreAssumption ==
    /\ Replacing \subseteq Unchecked
    /\ MaxRevision \in Nat
    /\ NoCopy \notin Copy

VARIABLES
    revision,   \* the revision column of the run's row
    loaded,     \* loaded[p]: the copy process p decides on
    granted     \* history: the attempt numbers handed out for each node

storeVars == <<run, now, revision, loaded, granted>>

StoreInit ==
    /\ Init
    /\ revision = 1
    /\ loaded = [p \in Procs |-> NoCopy]
    /\ granted = [n \in Nodes |-> <<>>]

-----------------------------------------------------------------------------
(* Statements against the row.                                             *)

\* Mutant: the run and its revision read by two statements, a write between.
LoadApart(p) ==
    /\ loaded[p] = NoCopy
    /\ \E r \in {revision, revision + 1} :
        loaded' = [loaded EXCEPT ![p] =
                    [run |-> run, revision |-> r, since |-> now, planned |-> {}]]
    /\ UNCHANGED <<run, now, revision, granted>>

\* find_with_revision: the run and its revision in one statement.
Load(p) ==
    /\ loaded[p] = NoCopy
    /\ loaded' = [loaded EXCEPT ![p] =
                    [run |-> run, revision |-> revision, since |-> now, planned |-> {}]]
    /\ UNCHANGED <<run, now, revision, granted>>

\* The process raises, loses the compare-and-swap, or dies: nothing is written.
Drop(p) ==
    /\ loaded[p] # NoCopy
    /\ loaded' = [loaded EXCEPT ![p] = NoCopy]
    /\ UNCHANGED <<run, now, revision, granted>>

Write(p, new) ==
    /\ run' = new
    /\ revision' = revision + 1
    /\ loaded' = [loaded EXCEPT ![p] = NoCopy]
    /\ UNCHANGED now

\* Mutant: the predicate on the revision column is missing.
SwapAnyRevision(p, new) == loaded[p] # NoCopy /\ Write(p, new)

\* compare_and_swap: compare and swap are one statement.
Swap(p, new) ==
    /\ loaded[p] # NoCopy
    /\ loaded[p].revision = revision
    /\ Write(p, new)

\* Mutant: the overwrite leaves the revision as it is.
ReplaceQuietly(p, new) ==
    /\ loaded[p] # NoCopy
    /\ revision < MaxRevision
    /\ run' = new
    /\ loaded' = [loaded EXCEPT ![p] = NoCopy]
    /\ UNCHANGED <<now, revision, granted>>

\* replace: overwrite, whatever is stored.
Replace(p, new) ==
    /\ loaded[p] # NoCopy
    /\ revision < MaxRevision
    /\ Write(p, new)
    /\ UNCHANGED granted

\* The moments a handler may decide at: it reads the clock after it loaded.
Moments(p) == loaded[p].since .. now

-----------------------------------------------------------------------------
(* Commands whose write is checked.                                        *)

AssignFrom(p, n, w) ==
    /\ loaded[p] # NoCopy
    /\ CanAssign(loaded[p].run, n)
    /\ \E t \in Moments(p) : Swap(p, Assigned(loaded[p].run, n, w, t))
    /\ granted' = [granted EXCEPT ![n] = Append(@, Len(loaded[p].run.node[n].attempts) + 1)]

RecordSuccessFrom(p, n, w) ==
    /\ loaded[p] # NoCopy
    /\ \E t \in Moments(p) : CanRecord(loaded[p].run, n, w, t)
    /\ Swap(p, SuccessRecorded(loaded[p].run, n))
    /\ UNCHANGED granted

RecordFailureFrom(p, n, w, class) ==
    /\ loaded[p] # NoCopy
    /\ \E t \in Moments(p) : CanRecord(loaded[p].run, n, w, t)
    /\ Swap(p, FailureRecorded(loaded[p].run, n, class))
    /\ UNCHANGED granted

ReclaimFrom(p, n) ==
    /\ loaded[p] # NoCopy
    /\ \E t \in Moments(p) : CanReclaim(loaded[p].run, n, t)
    /\ Swap(p, Reclaimed(loaded[p].run, n))
    /\ UNCHANGED granted

-----------------------------------------------------------------------------
(* Commands whose write overwrites.                                        *)

PauseFrom(p) ==
    /\ "pause" \in Replacing /\ loaded[p] # NoCopy
    /\ CanMoveTo(loaded[p].run, "paused")
    /\ Replace(p, MovedTo(loaded[p].run, "paused"))

ResumeFrom(p) ==
    /\ "resume" \in Replacing /\ loaded[p] # NoCopy
    /\ \E c \in 0..Len(loaded[p].run.checkpoints) : CanResume(loaded[p].run, c)
    /\ Replace(p, MovedTo(loaded[p].run, "running"))

CompleteFrom(p) ==
    /\ "complete" \in Replacing /\ loaded[p] # NoCopy
    /\ CanComplete(loaded[p].run)
    /\ Replace(p, MovedTo(loaded[p].run, "completed"))

AbortFrom(p, to) ==
    /\ "abort" \in Replacing /\ loaded[p] # NoCopy
    /\ to \in {"failed", "cancelled", "timed_out"}
    /\ CanMoveTo(loaded[p].run, to)
    /\ Replace(p, MovedTo(loaded[p].run, to))

\* The heartbeat time is advisory and not modelled; the write is not.
HeartbeatFrom(p, n, w) ==
    /\ "heartbeat" \in Replacing /\ loaded[p] # NoCopy
    /\ \E t \in Moments(p) : HoldsLease(loaded[p].run.node[n], w, t)
    /\ Replace(p, WithRun(loaded[p].run, n, loaded[p].run.node[n]))

\* plan_retry loads again: the decision is taken on a second, later copy.
PlanRetry(p, n) ==
    /\ "retry" \in Replacing /\ loaded[p] # NoCopy
    /\ DecideRetry(n, run.node[n]) = "retry"
    /\ loaded' = [loaded EXCEPT ![p].planned = @ \cup {n}]
    /\ UNCHANGED <<run, now, revision, granted>>

RetryFrom(p, n) ==
    /\ "retry" \in Replacing /\ loaded[p] # NoCopy
    /\ n \in loaded[p].planned
    /\ CanRetry(loaded[p].run, n)
    /\ Replace(p, Retried(loaded[p].run, n))

SkipFrom(p, n) ==
    /\ "skip" \in Replacing /\ loaded[p] # NoCopy
    /\ CanSkip(loaded[p].run, n)
    /\ Replace(p, Skipped(loaded[p].run, n))

CompensateFrom(p, n) ==
    /\ "compensate" \in Replacing /\ loaded[p] # NoCopy
    /\ CanCompensate(loaded[p].run, n)
    /\ Replace(p, Compensated(loaded[p].run, n))

CheckpointFrom(p) ==
    /\ "checkpoint" \in Replacing /\ loaded[p] # NoCopy
    /\ CanCheckpoint(loaded[p].run)
    /\ Len(loaded[p].run.checkpoints) < MaxCheckpoints
    /\ Replace(p, Checkpointed(loaded[p].run))

-----------------------------------------------------------------------------

CheckedStep(p) ==
    \E n \in Nodes :
        \/ ReclaimFrom(p, n)
        \/ \E w \in Workers :
            \/ AssignFrom(p, n, w)
            \/ RecordSuccessFrom(p, n, w)
            \/ \E class \in Classes : RecordFailureFrom(p, n, w, class)

OverwritingStep(p) ==
    \/ PauseFrom(p) \/ ResumeFrom(p) \/ CompleteFrom(p) \/ CheckpointFrom(p)
    \/ \E to \in TerminalStates : AbortFrom(p, to)
    \/ \E n \in Nodes :
        \/ PlanRetry(p, n) \/ RetryFrom(p, n) \/ SkipFrom(p, n) \/ CompensateFrom(p, n)
        \/ \E w \in Workers : HeartbeatFrom(p, n, w)

StoreNext ==
    \/ Tick /\ UNCHANGED <<revision, loaded, granted>>
    \/ \E p \in Procs : Load(p) \/ Drop(p) \/ CheckedStep(p) \/ OverwritingStep(p)

StoreSpec == StoreInit /\ [][StoreNext]_storeVars

-----------------------------------------------------------------------------
(* Type invariant.  The row holds a run and a revision, each process a     *)
(* copy of an earlier row or nothing.                                      *)
StoreTypeOK ==
    /\ TypeOK
    /\ revision \in Nat
    /\ loaded \in [Procs -> Copy \cup {NoCopy}]
    /\ granted \in [Nodes -> Seq(Nat)]

(* A copy whose revision still matches is the stored run: what a checked   *)
(* write decided on is what it replaces.  It fails as soon as any write    *)
(* leaves the revision alone, or the copy and its revision are read apart  *)
(* (the defect find_with_revision was written for).                        *)
CopyMatchesRevision ==
    \A p \in Procs :
        loaded[p] # NoCopy =>
            /\ loaded[p].revision <= revision
            /\ loaded[p].revision = revision => loaded[p].run = run

(* Every lease a process was told it got is on record, in order: no write  *)
(* erases an attempt another process is acting on.                         *)
EveryGrantOnRecord ==
    \A n \in Nodes :
        /\ Len(granted[n]) = Len(run.node[n].attempts)
        /\ \A i \in 1..Len(granted[n]) : granted[n][i] = i

(* One owner for each attempt: the same attempt at a node is never handed  *)
(* out twice ("the loser is refused rather than overwritten").             *)
AttemptGrantedOnce ==
    \A n \in Nodes : \A i, j \in 1..Len(granted[n]) :
        granted[n][i] = granted[n][j] => i = j

(* Overwriting may lose a write but never mixes two: the stored run is     *)
(* always one that a single process decided on as a whole, with the states *)
(* of its nodes, their leases and their attempts in step.                  *)
StoredRunCoherent == LeaseMatchesAttempt /\ NoNodeForgotten /\ CheckpointsNeverAhead

=============================================================================
