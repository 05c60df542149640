------------------------- MODULE ExecutionStoreProofs -------------------------
(***************************************************************************)
(* Proofs about ExecutionStore, for any number of processes, any workflow  *)
(* and any interleaving of loads and writes.                               *)
(***************************************************************************)
EXTENDS ExecutionStore, ExecutionRunProofs

-----------------------------------------------------------------------------
(* The inductive invariant: a copy is well formed, was loaded in the past, *)
(* and is the stored run if its revision still matches.                    *)

CopiesNotAhead == \A p \in Procs : loaded[p] # NoCopy => loaded[p].since <= now

StoreInv == StoreTypeOK /\ CopiesNotAhead /\ CopyMatchesRevision

LEMMA StoreInit_Inv ==
    ASSUME StoreInit
    PROVE  StoreInv
<1>1. TypeOK
  BY InitType DEF StoreInit
<1>2. <<>> \in Seq(Nat)
  BY EmptySeq
<1> QED
  BY <1>1, <1>2 DEF StoreInit, StoreInv, StoreTypeOK, CopiesNotAhead, CopyMatchesRevision

LEMMA Write_Inv ==
    ASSUME StoreInv, NEW p \in Procs, NEW new \in Run, Write(p, new),
           granted' \in [Nodes -> Seq(Nat)]
    PROVE  StoreInv'
<1>1. revision' = revision + 1 /\ revision \in Nat /\ now' = now /\ run' = new
  BY DEF Write, StoreInv, StoreTypeOK
<1>2. \A q \in Procs : loaded'[q] # NoCopy => loaded'[q] = loaded[q] /\ q # p
  BY DEF Write, StoreInv, StoreTypeOK
<1>3. StoreTypeOK'
  BY <1>1 DEF Write, StoreInv, StoreTypeOK, TypeOK
<1>4. CopiesNotAhead'
  BY <1>1, <1>2 DEF StoreInv, CopiesNotAhead
<1>5. \A q \in Procs : loaded[q] # NoCopy => loaded[q].revision \in Nat
  BY DEF StoreInv, StoreTypeOK, Copy
<1>6. CopyMatchesRevision'
  BY <1>1, <1>2, <1>5 DEF StoreInv, CopyMatchesRevision
<1> QED
  BY <1>3, <1>4, <1>6 DEF StoreInv

-----------------------------------------------------------------------------
(* What the commands write is a run.                                       *)

LEMMA Checked_Writes ==
    ASSUME StoreInv, NEW p \in Procs, CheckedStep(p)
    PROVE  /\ loaded[p] # NoCopy /\ loaded[p].revision = revision
           /\ granted' \in [Nodes -> Seq(Nat)]
           /\ \E new \in Run : Write(p, new)
<1> DEFINE r == loaded[p].run
<1>1. PICK n \in Nodes :
        \/ ReclaimFrom(p, n)
        \/ \E w \in Workers :
            \/ AssignFrom(p, n, w)
            \/ RecordSuccessFrom(p, n, w)
            \/ \E class \in Classes : RecordFailureFrom(p, n, w, class)
  BY DEF CheckedStep
<1>2. loaded[p] # NoCopy /\ loaded[p].revision = revision
  BY <1>1 DEF ReclaimFrom, AssignFrom, RecordSuccessFrom, RecordFailureFrom, Swap
<1>3. r \in Run /\ loaded[p].since \in Nat /\ now \in Nat /\ Moments(p) \subseteq Nat
      /\ granted \in [Nodes -> Seq(Nat)]
  BY <1>2 DEF StoreInv, StoreTypeOK, TypeOK, Copy, Moments
<1>4. CASE ReclaimFrom(p, n)
  BY <1>2, <1>3, <1>4, ReclaimedType DEF ReclaimFrom, Swap
<1>5. ASSUME NEW w \in Workers, AssignFrom(p, n, w)
      PROVE  /\ granted' \in [Nodes -> Seq(Nat)]
             /\ \E new \in Run : Write(p, new)
  <2>1. PICK t \in Moments(p) : Write(p, Assigned(r, n, w, t))
    BY <1>5 DEF AssignFrom, Swap
  <2>2. Assigned(r, n, w, t) \in Run
    BY <1>3, AssignedType
  <2>3. Len(r.node[n].attempts) + 1 \in Nat
    <3>1. r.node[n].attempts \in Seq(Attempt)
      BY <1>3 DEF Run, NodeRun
    <3>2. Len(r.node[n].attempts) \in Nat
      BY <3>1, LenProperties
    <3>3. \A k \in Nat : k + 1 \in Nat
      OBVIOUS
    <3> QED
      BY <3>2, <3>3, Zenon
  <2>4. Append(granted[n], Len(r.node[n].attempts) + 1) \in Seq(Nat)
    BY <1>3, <2>3, AppendProperties
  <2> QED
    BY <1>3, <1>5, <2>1, <2>2, <2>4 DEF AssignFrom
<1>6. ASSUME NEW w \in Workers,
             \/ RecordSuccessFrom(p, n, w)
             \/ \E class \in Classes : RecordFailureFrom(p, n, w, class)
      PROVE  /\ granted' \in [Nodes -> Seq(Nat)]
             /\ \E new \in Run : Write(p, new)
  <2>1. r.node[n].lease # NoLease
    BY <1>6 DEF RecordSuccessFrom, RecordFailureFrom, CanRecord, HoldsLease
  <2>2. SuccessRecorded(r, n) \in Run /\ \A class \in Classes : FailureRecorded(r, n, class) \in Run
    BY <1>3, <2>1, RecordedType, RunAssumption
  <2> QED
    BY <1>3, <1>6, <2>2 DEF RecordSuccessFrom, RecordFailureFrom, Swap
<1> QED
  BY <1>1, <1>2, <1>3, <1>4, <1>5, <1>6 DEF ReclaimFrom

LEMMA Overwriting_Writes ==
    ASSUME StoreInv, NEW p \in Procs, OverwritingStep(p)
    PROVE  \/ \E n \in Nodes : PlanRetry(p, n)
           \/ granted' = granted /\ \E new \in Run : Write(p, new)
<1> DEFINE r == loaded[p].run
<1> SUFFICES ASSUME \A n \in Nodes : ~PlanRetry(p, n)
             PROVE  granted' = granted /\ \E new \in Run : Write(p, new)
  OBVIOUS
<1>1. loaded[p] # NoCopy
  BY DEF OverwritingStep, PauseFrom, ResumeFrom, CompleteFrom, CheckpointFrom, AbortFrom,
         RetryFrom, SkipFrom, CompensateFrom, HeartbeatFrom
<1>2. r \in Run
  BY <1>1 DEF StoreInv, StoreTypeOK, Copy
<1>3. CASE PauseFrom(p) \/ ResumeFrom(p) \/ CompleteFrom(p)
  BY <1>2, <1>3, MovedToType DEF PauseFrom, ResumeFrom, CompleteFrom, Replace, ExecutionState
<1>4. CASE CheckpointFrom(p)
  BY <1>2, <1>4, CheckpointedType DEF CheckpointFrom, Replace
<1>5. ASSUME NEW to \in TerminalStates, AbortFrom(p, to)
      PROVE  granted' = granted /\ \E new \in Run : Write(p, new)
  BY <1>2, <1>5, MovedToType DEF AbortFrom, Replace, ExecutionState, TerminalStates
<1>6. ASSUME NEW n \in Nodes, RetryFrom(p, n) \/ SkipFrom(p, n) \/ CompensateFrom(p, n)
      PROVE  granted' = granted /\ \E new \in Run : Write(p, new)
  BY <1>2, <1>6, RestatedType DEF RetryFrom, SkipFrom, CompensateFrom, Replace
<1>7. ASSUME NEW n \in Nodes, NEW w \in Workers, HeartbeatFrom(p, n, w)
      PROVE  granted' = granted /\ \E new \in Run : Write(p, new)
  <2>1. WithRun(r, n, r.node[n]) \in Run
    BY <1>2, WithRunType DEF Run
  <2> QED
    BY <1>7, <2>1 DEF HeartbeatFrom, Replace
<1> QED
  BY <1>3, <1>4, <1>5, <1>6, <1>7 DEF OverwritingStep

-----------------------------------------------------------------------------

LEMMA Store_Inv ==
    ASSUME StoreInv, [StoreNext]_storeVars
    PROVE  StoreInv'
<1> USE DEF StoreInv, StoreTypeOK, CopiesNotAhead, CopyMatchesRevision
<1>1. CASE Tick /\ UNCHANGED <<revision, loaded, granted>>
  <2>1. \A p \in Procs : loaded[p] # NoCopy => loaded[p].since \in Nat
    BY DEF Copy
  <2> QED
    BY <1>1, <2>1 DEF Tick, TypeOK
<1>2. ASSUME NEW p \in Procs, Load(p)
      PROVE  StoreInv'
  <2> DEFINE fresh == [run |-> run, revision |-> revision, since |-> now, planned |-> {}]
  <2>1. fresh \in Copy
    BY DEF Copy, TypeOK
  <2>2. /\ loaded' = [loaded EXCEPT ![p] = fresh]
        /\ UNCHANGED <<run, now, revision, granted>>
    BY <1>2 DEF Load
  <2>3. now \in Nat
    BY DEF TypeOK
  <2> QED
    BY <2>1, <2>2, <2>3 DEF TypeOK
<1>3. ASSUME NEW p \in Procs, Drop(p)
      PROVE  StoreInv'
  BY <1>3 DEF Drop, TypeOK
<1>4. ASSUME NEW p \in Procs, CheckedStep(p)
      PROVE  StoreInv'
  BY <1>4, Checked_Writes, Write_Inv
<1>5. ASSUME NEW p \in Procs, NEW n \in Nodes, PlanRetry(p, n)
      PROVE  StoreInv'
  <2>1. loaded[p] \in Copy
    BY <1>5 DEF PlanRetry
  <2>2. [loaded[p] EXCEPT !.planned = @ \cup {n}] \in Copy
    BY <2>1 DEF Copy
  <2>3. /\ loaded' = [loaded EXCEPT ![p] = [loaded[p] EXCEPT !.planned = @ \cup {n}]]
        /\ UNCHANGED <<run, now, revision, granted>>
    BY <1>5 DEF PlanRetry
  <2>4. \A q \in Procs : loaded'[q] # NoCopy =>
            /\ loaded[q] # NoCopy
            /\ loaded'[q].run = loaded[q].run
            /\ loaded'[q].revision = loaded[q].revision
            /\ loaded'[q].since = loaded[q].since
    BY <1>5, <2>1, <2>3 DEF Copy, PlanRetry
  <2> QED
    BY <2>2, <2>3, <2>4 DEF TypeOK
<1>6. ASSUME NEW p \in Procs, OverwritingStep(p)
      PROVE  StoreInv'
  BY <1>5, <1>6, Overwriting_Writes, Write_Inv
<1>7. CASE UNCHANGED storeVars
  BY <1>7 DEF storeVars, TypeOK
<1> QED
  BY <1>1, <1>2, <1>3, <1>4, <1>6, <1>7 DEF StoreNext

(* Whatever commands are issued and however they interleave, a copy whose  *)
(* revision still matches is the stored run.                               *)
THEOREM CopiesMatch == StoreSpec => []CopyMatchesRevision
<1>1. StoreInit => StoreInv
  BY StoreInit_Inv
<1>2. StoreInv /\ [StoreNext]_storeVars => StoreInv'
  BY Store_Inv
<1>3. StoreInv => CopyMatchesRevision
  BY DEF StoreInv
<1> QED
  BY <1>1, <1>2, <1>3, PTL DEF StoreSpec

-----------------------------------------------------------------------------
(* Overwriting may lose a write but never mixes two: the stored run and    *)
(* every copy of it are coherent, because each write is what one process   *)
(* made of one coherent copy.                                              *)

StoreCoherent ==
    /\ RunCoherent(run)
    /\ \A p \in Procs : loaded[p] # NoCopy => RunCoherent(loaded[p].run)

LEMMA Write_Coherent ==
    ASSUME StoreInv, StoreCoherent, NEW p \in Procs, NEW new, RunCoherent(new), Write(p, new)
    PROVE  StoreCoherent'
<1>1. run' = new
  BY DEF Write
<1>2. \A q \in Procs : loaded'[q] # NoCopy => loaded'[q] = loaded[q]
  BY DEF Write, StoreInv, StoreTypeOK
<1> QED
  BY <1>1, <1>2 DEF StoreCoherent

LEMMA Checked_Coherent ==
    ASSUME StoreInv, StoreCoherent, NEW p \in Procs, CheckedStep(p)
    PROVE  StoreCoherent'
<1> DEFINE r == loaded[p].run
<1>1. loaded[p] # NoCopy
  BY Checked_Writes
<1>2. r \in Run /\ RunCoherent(r) /\ Moments(p) \subseteq Nat
  BY <1>1 DEF StoreInv, StoreTypeOK, TypeOK, Copy, Moments, StoreCoherent
<1>3. ASSUME NEW n \in Nodes, ReclaimFrom(p, n)
      PROVE  StoreCoherent'
  BY <1>2, <1>3, CommandsCoherent, Write_Coherent DEF ReclaimFrom, Swap, CanReclaim, CanAbandon
<1>4. ASSUME NEW n \in Nodes, NEW w \in Workers, AssignFrom(p, n, w)
      PROVE  StoreCoherent'
  BY <1>2, <1>4, CommandsCoherent, Write_Coherent DEF AssignFrom, Swap
<1>5. ASSUME NEW n \in Nodes, NEW w \in Workers,
             \/ RecordSuccessFrom(p, n, w)
             \/ \E class \in Classes : RecordFailureFrom(p, n, w, class)
      PROVE  StoreCoherent'
  <2>1. r.node[n].state = "leased" /\ r.node[n].lease # NoLease
    BY <1>5 DEF RecordSuccessFrom, RecordFailureFrom, CanRecord, HoldsLease
  <2> QED
    BY <1>2, <1>5, <2>1, CommandsCoherent, Write_Coherent, RunAssumption
       DEF RecordSuccessFrom, RecordFailureFrom, Swap
<1> QED
  BY <1>3, <1>4, <1>5 DEF CheckedStep

LEMMA Overwriting_Coherent ==
    ASSUME StoreInv, StoreCoherent, NEW p \in Procs, OverwritingStep(p)
    PROVE  StoreCoherent'
<1> DEFINE r == loaded[p].run
<1>1. loaded[p] # NoCopy
  BY DEF OverwritingStep, PauseFrom, ResumeFrom, CompleteFrom, CheckpointFrom, AbortFrom,
         PlanRetry, RetryFrom, SkipFrom, CompensateFrom, HeartbeatFrom
<1>2. r \in Run /\ RunCoherent(r) /\ loaded[p] \in Copy
  BY <1>1 DEF StoreInv, StoreTypeOK, Copy, StoreCoherent
<1>3. CASE PauseFrom(p) \/ ResumeFrom(p) \/ CompleteFrom(p)
  BY <1>2, <1>3, MovedToCoherent, Write_Coherent
     DEF PauseFrom, ResumeFrom, CompleteFrom, Replace, ExecutionState
<1>4. CASE CheckpointFrom(p)
  BY <1>2, <1>4, CheckpointedCoherent, Write_Coherent DEF CheckpointFrom, Replace
<1>5. ASSUME NEW to \in TerminalStates, AbortFrom(p, to)
      PROVE  StoreCoherent'
  BY <1>2, <1>5, MovedToCoherent, Write_Coherent
     DEF AbortFrom, Replace, ExecutionState, TerminalStates
<1>6. ASSUME NEW n \in Nodes, RetryFrom(p, n) \/ SkipFrom(p, n) \/ CompensateFrom(p, n)
      PROVE  StoreCoherent'
  BY <1>2, <1>6, CommandsCoherent, Write_Coherent DEF RetryFrom, SkipFrom, CompensateFrom, Replace
<1>7. ASSUME NEW n \in Nodes, NEW w \in Workers, HeartbeatFrom(p, n, w)
      PROVE  StoreCoherent'
  BY <1>2, <1>7, CommandsCoherent, Write_Coherent DEF HeartbeatFrom, Replace
<1>8. ASSUME NEW n \in Nodes, PlanRetry(p, n)
      PROVE  StoreCoherent'
  <2>1. \A q \in Procs : loaded'[q] # NoCopy =>
            loaded[q] # NoCopy /\ loaded'[q].run = loaded[q].run
    <3>1. /\ [loaded[p] EXCEPT !.planned = @ \cup {n}].run = loaded[p].run
          /\ loaded' = [loaded EXCEPT ![p] = [loaded[p] EXCEPT !.planned = @ \cup {n}]]
      BY <1>2, <1>8 DEF Copy, PlanRetry
    <3> QED
      BY <1>1, <3>1 DEF StoreInv, StoreTypeOK
  <2>2. run' = run
    BY <1>8 DEF PlanRetry
  <2> QED
    BY <2>1, <2>2 DEF StoreCoherent
<1> QED
  BY <1>3, <1>4, <1>5, <1>6, <1>7, <1>8 DEF OverwritingStep

LEMMA StoreInvariant == StoreSpec => [](StoreInv /\ StoreCoherent)
<1>1. StoreInit => StoreInv /\ StoreCoherent
  BY StoreInit_Inv, RunInvInit DEF StoreInit, RunInv, StoreCoherent
<1>2. StoreInv /\ StoreCoherent /\ [StoreNext]_storeVars => (StoreInv /\ StoreCoherent)'
  <2> SUFFICES ASSUME StoreInv, StoreCoherent, [StoreNext]_storeVars
               PROVE  StoreCoherent'
    BY Store_Inv
  <2>1. CASE Tick /\ UNCHANGED <<revision, loaded, granted>>
    BY <2>1 DEF Tick, StoreCoherent
  <2>2. ASSUME NEW p \in Procs, Load(p) \/ Drop(p)
        PROVE  StoreCoherent'
    BY <2>2 DEF Load, Drop, StoreCoherent, StoreInv, StoreTypeOK
  <2>3. CASE UNCHANGED storeVars
    BY <2>3 DEF storeVars, StoreCoherent
  <2> QED
    BY <2>1, <2>2, <2>3, Checked_Coherent, Overwriting_Coherent DEF StoreNext
<1> QED
  BY <1>1, <1>2, PTL DEF StoreSpec

(* The row always holds a run and each process a copy of one.              *)
THEOREM StoreTypeCorrect == StoreSpec => []StoreTypeOK
<1>1. StoreInv => StoreTypeOK
  BY DEF StoreInv
<1> QED
  BY <1>1, StoreInvariant, PTL

(* Whatever is lost to an overwrite, the stored run tells one story: lease *)
(* and attempts in step, no node forgotten, no checkpoint ahead.           *)
THEOREM StoredRunAlwaysCoherent == StoreSpec => []StoredRunCoherent
<1>1. StoreCoherent => StoredRunCoherent
  BY DEF StoreCoherent, RunCoherent, NodeCoherent, NoneForgotten, NoneAhead, StoredRunCoherent,
         LeaseMatchesAttempt, NoNodeForgotten, CheckpointsNeverAhead
<1> QED
  BY <1>1, StoreInvariant, PTL

-----------------------------------------------------------------------------
(* With checked writes only, the processes behave as one.                  *)

LEMMA Checked_Refines ==
    ASSUME StoreInv, NEW p \in Procs, CheckedStep(p)
    PROVE  Next
<1> DEFINE r == loaded[p].run
<1>1. loaded[p] # NoCopy /\ loaded[p].revision = revision
  BY Checked_Writes
<1>2. r = run
  BY <1>1 DEF StoreInv, CopyMatchesRevision
<1>3. Moments(p) \subseteq 0..now
  BY <1>1 DEF StoreInv, StoreTypeOK, TypeOK, Copy, CopiesNotAhead, Moments
<1>4. ASSUME NEW n \in Nodes, ReclaimFrom(p, n)
      PROVE  \E t \in 0..now : Reclaim(n, t)
  BY <1>2, <1>3, <1>4 DEF ReclaimFrom, Swap, Write, Reclaim
<1>5. ASSUME NEW n \in Nodes, NEW w \in Workers, AssignFrom(p, n, w)
      PROVE  \E t \in 0..now : Assign(n, w, t)
  BY <1>2, <1>3, <1>5 DEF AssignFrom, Swap, Write, Assign
<1>6. ASSUME NEW n \in Nodes, NEW w \in Workers, RecordSuccessFrom(p, n, w)
      PROVE  \E t \in 0..now : RecordSuccess(n, w, t)
  BY <1>2, <1>3, <1>6 DEF RecordSuccessFrom, Swap, Write, RecordSuccess
<1>7. ASSUME NEW n \in Nodes, NEW w \in Workers, NEW class \in Classes,
             RecordFailureFrom(p, n, w, class)
      PROVE  \E t \in 0..now : RecordFailure(n, w, class, t)
  BY <1>2, <1>3, <1>7 DEF RecordFailureFrom, Swap, Write, RecordFailure
<1> QED
  BY <1>4, <1>5, <1>6, <1>7 DEF CheckedStep, Next

LEMMA NothingOverwrites ==
    ASSUME Replacing = {}, NEW p \in Procs
    PROVE  ~OverwritingStep(p)
BY DEF OverwritingStep, PauseFrom, ResumeFrom, CompleteFrom, CheckpointFrom, AbortFrom,
       PlanRetry, RetryFrom, SkipFrom, CompensateFrom, HeartbeatFrom

(* Compare-and-swap makes load, decide and write one step: as long as no   *)
(* command overwrites, any number of processes together do only what the   *)
(* atomic service does.                                                    *)
THEOREM CheckedWritesAreAtomic ==
    ASSUME Replacing = {}
    PROVE  StoreSpec => Spec
<1>1. StoreInit => StoreInv /\ Init
  BY StoreInit_Inv DEF StoreInit
<1>2. StoreInv /\ [StoreNext]_storeVars => StoreInv' /\ [Next]_vars
  <2> SUFFICES ASSUME StoreInv, [StoreNext]_storeVars
               PROVE  [Next]_vars
    BY Store_Inv
  <2>1. CASE Tick
    BY <2>1 DEF Next
  <2>2. ASSUME NEW p \in Procs, Load(p) \/ Drop(p)
        PROVE  UNCHANGED vars
    BY <2>2 DEF Load, Drop, vars
  <2>3. CASE UNCHANGED storeVars
    BY <2>3 DEF storeVars, vars
  <2> QED
    BY <2>1, <2>2, <2>3, Checked_Refines, NothingOverwrites DEF StoreNext
<1> QED
  BY <1>1, <1>2, PTL DEF StoreSpec, Spec

(* As long as no command overwrites, no attempt that was handed out is     *)
(* ever erased, and each is handed out once.                               *)
THEOREM GrantsOnRecord ==
    ASSUME Replacing = {}
    PROVE  StoreSpec => []EveryGrantOnRecord
<1>1. StoreInit => StoreInv /\ EveryGrantOnRecord
  <2> SUFFICES ASSUME StoreInit
               PROVE  EveryGrantOnRecord
    BY StoreInit_Inv
  <2>1. \A n \in Nodes : run.node[n].attempts = <<>> /\ granted[n] = <<>>
    BY DEF StoreInit, Init, Started
  <2>2. Len(<<>>) = 0
    BY EmptySeq
  <2> QED
    BY <2>1, <2>2 DEF EveryGrantOnRecord
<1>2. StoreInv /\ EveryGrantOnRecord /\ [StoreNext]_storeVars => (StoreInv /\ EveryGrantOnRecord)'
  <2> SUFFICES ASSUME StoreInv, EveryGrantOnRecord, [StoreNext]_storeVars
               PROVE  EveryGrantOnRecord'
    BY Store_Inv
  <2>1. ASSUME run' = run, granted' = granted
        PROVE  EveryGrantOnRecord'
    BY <2>1 DEF EveryGrantOnRecord
  <2>2. ASSUME NEW p \in Procs, CheckedStep(p)
        PROVE  EveryGrantOnRecord'
    <3> DEFINE r == loaded[p].run
    <3>1. r = run /\ loaded[p] # NoCopy
      BY <2>2, Checked_Writes DEF StoreInv, CopyMatchesRevision
    <3>2. run \in Run /\ granted \in [Nodes -> Seq(Nat)] /\ Moments(p) \subseteq Nat
      BY <3>1 DEF StoreInv, StoreTypeOK, TypeOK, Copy, Moments
    <3>3. ASSUME granted' = granted,
                 \A m \in Nodes : Len(run'.node[m].attempts) = Len(run.node[m].attempts)
          PROVE  EveryGrantOnRecord'
      BY <3>3 DEF EveryGrantOnRecord
    <3>4. ASSUME NEW n \in Nodes, ReclaimFrom(p, n)
          PROVE  EveryGrantOnRecord'
      <4>1. run' = Reclaimed(run, n) /\ granted' = granted
        BY <3>1, <3>4 DEF ReclaimFrom, Swap, Write
      <4> QED
        BY <3>2, <3>3, <4>1, ReclaimedAttempts
    <3>5. ASSUME NEW n \in Nodes, NEW w \in Workers, NEW class \in Classes,
                 RecordFailureFrom(p, n, w, class)
          PROVE  EveryGrantOnRecord'
      <4>1. run' = FailureRecorded(run, n, class) /\ granted' = granted
            /\ run.node[n].lease # NoLease
        BY <3>1, <3>5 DEF RecordFailureFrom, Swap, Write, CanRecord, HoldsLease
      <4> QED
        BY <3>2, <3>3, <4>1, RecordedAttempts, RunAssumption
    <3>6. ASSUME NEW n \in Nodes, NEW w \in Workers, RecordSuccessFrom(p, n, w)
          PROVE  EveryGrantOnRecord'
      <4>1. run' = SuccessRecorded(run, n) /\ granted' = granted
            /\ run.node[n].lease # NoLease
        BY <3>1, <3>6 DEF RecordSuccessFrom, Swap, Write, CanRecord, HoldsLease
      <4> QED
        BY <3>2, <3>3, <4>1, RecordedAttempts
    <3>7. ASSUME NEW n \in Nodes, NEW w \in Workers, AssignFrom(p, n, w)
          PROVE  EveryGrantOnRecord'
      <4> DEFINE k == Len(run.node[n].attempts)
      <4>1. PICK t \in Nat : run' = Assigned(run, n, w, t)
        BY <3>1, <3>2, <3>7 DEF AssignFrom, Swap, Write
      <4>2. /\ Len(run'.node[n].attempts) = k + 1
            /\ \A m \in Nodes \ {n} : run'.node[m].attempts = run.node[m].attempts
        BY <3>2, <4>1, AssignedAttempts
      <4>3. granted' = [granted EXCEPT ![n] = Append(granted[n], k + 1)]
        BY <3>1, <3>7 DEF AssignFrom
      <4>4. \A m \in Nodes : Len(run.node[m].attempts) \in Nat
        <5>1. \A m \in Nodes : run.node[m].attempts \in Seq(Attempt)
          BY <3>2 DEF Run, NodeRun
        <5> QED
          BY <5>1, LenProperties
      <4>5. k + 1 \in Nat
        BY <4>4
      <4>6. /\ Len(granted'[n]) = k + 1
            /\ granted'[n][k + 1] = k + 1
            /\ \A i \in 1..k : granted'[n][i] = i
        BY <3>2, <4>3, <4>5, AppendProperties DEF EveryGrantOnRecord
      <4>7. \A m \in Nodes \ {n} : granted'[m] = granted[m]
        BY <3>2, <4>3
      <4>8. \A i \in 1..(k + 1) : granted'[n][i] = i
        BY <4>4, <4>6
      <4>9. \A m \in Nodes \ {n} :
                /\ Len(granted'[m]) = Len(run'.node[m].attempts)
                /\ \A i \in 1..Len(granted'[m]) : granted'[m][i] = i
        BY <4>2, <4>7 DEF EveryGrantOnRecord
      <4> QED
        BY <4>2, <4>6, <4>8, <4>9 DEF EveryGrantOnRecord
    <3> QED
      BY <2>2, <3>4, <3>5, <3>6, <3>7 DEF CheckedStep
  <2>3. CASE UNCHANGED storeVars
    BY <2>1, <2>3 DEF storeVars
  <2>4. CASE Tick /\ UNCHANGED <<revision, loaded, granted>>
    BY <2>1, <2>4 DEF Tick
  <2>5. ASSUME NEW p \in Procs, Load(p) \/ Drop(p)
        PROVE  EveryGrantOnRecord'
    BY <2>1, <2>5 DEF Load, Drop
  <2> QED
    BY <2>2, <2>3, <2>4, <2>5, NothingOverwrites DEF StoreNext
<1> QED
  BY <1>1, <1>2, PTL DEF StoreSpec

=============================================================================
