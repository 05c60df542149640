---------------------------- MODULE SchedulerProofs ----------------------------
(***************************************************************************)
(* What a term of the scheduler role is worth, for any fleet, any number   *)
(* of runs and elections: the type invariant of Scheduler, and that ticks  *)
(* which coordinate under one term are one process's.                      *)
(***************************************************************************)
EXTENDS Scheduler, TLAPS

\* Process i goes by term k: by its handle, or by what a thread of it was told.
GoesBy(i, k) ==
    /\ k # 0
    /\ \/ handle[i] = k
       \/ \E t \in Threads : t[1] = i /\ mine[t] = k

\* A term was elected before anyone goes by it, and the last one is the holder's.
TermsElected ==
    \A i \in Instances, k \in Nat :
        GoesBy(i, k) => k <= row.token /\ (k = row.token => row.holder = i)

TermsApart ==
    \A i, j \in Instances, k \in Nat : GoesBy(i, k) /\ GoesBy(j, k) => i = j

\* Who coordinates was told a term.
CoordinatorsWereTold ==
    \A t \in Threads : stage[t] \in {"sweeping", "cycling"} => mine[t] # 0

SchedulerInv ==
    /\ SchedulerTypeOK
    /\ TermsElected
    /\ TermsApart
    /\ CoordinatorsWereTold

\* What a step does to the terms: at most it drops some, or elects one process.
TermsKept ==
    /\ row'.token = row.token
    /\ row'.holder = row.holder
    /\ \A i \in Instances, k \in Nat : GoesBy(i, k)' => GoesBy(i, k)

TermBegins ==
    \E e \in Instances :
        /\ row'.token = row.token + 1
        /\ row'.holder = e
        /\ \A i \in Instances, k \in Nat :
              GoesBy(i, k)' => GoesBy(i, k) \/ (i = e /\ k = row'.token)

-----------------------------------------------------------------------------

(* A thread belongs to a process of the fleet.                             *)
LEMMA ThreadsAreOfInstances == \A t \in Threads : t[1] \in Instances
BY SchedulerAssumption DEF Threads

(* A write of a run keeps the types of the stored runs.                    *)
LEMMA UpdateType ==
    ASSUME SchedulerTypeOK, NEW r \in Runs,
           NEW state \in {"absent", "ready", "busy", "stuck", "done"},
           Update(r, state)
    PROVE  /\ run' \in [Runs -> {"absent", "ready", "busy", "stuck", "done"}]
           /\ newer' \in [Runs -> SUBSET Runs]
BY DEF SchedulerTypeOK, Update

(* Electing an instance and renewing keep the row a row.                   *)
LEMMA RowType ==
    ASSUME SchedulerTypeOK, NEW i \in Instances
    PROVE  /\ Elected(i) \in Row /\ Elected(i).token = row.token + 1 /\ Elected(i).holder = i
           /\ Renewed \in Row /\ Renewed.token = row.token /\ Renewed.holder = row.holder
           /\ row.token \in Nat
<1>1. row \in Row
  BY DEF SchedulerTypeOK, LeadershipTypeOK
<1>2. /\ Elected(i) \in Row
      /\ Elected(i).token = row.token + 1
      /\ Elected(i).holder = i
      /\ row.token \in Nat
  BY <1>1 DEF Elected, Row, Statuses
<1>3. Renewed \in Row /\ Renewed.token = row.token /\ Renewed.holder = row.holder
  BY <1>1 DEF Renewed, Row
<1> QED BY <1>2, <1>3

(* The life of a process keeps the types.                                  *)
LEMMA ProcessType ==
    ASSUME SchedulerTypeOK, NEW i \in Instances, ProcessStep(i)
    PROVE  SchedulerTypeOK'
<1> USE DEF SchedulerTypeOK, LeadershipTypeOK
<1>1. CASE Start(i)
  <2>1. \A urgent, held : Resumable(urgent, held) \subseteq Runs
    BY DEF Resumable, Open
  <2> QED BY <1>1, <2>1 DEF Start, threadVars, runVars
<1>2. CASE BeginStop(i)
  BY <1>2 DEF BeginStop, threadVars, runVars
<1>3. CASE FinishStop(i)
  <2>1. row' \in Row
    BY <1>3 DEF FinishStop, Release, Forget, Row, Statuses
  <2>2. handle' \in [Instances -> Nat]
    BY <1>3 DEF FinishStop, Release, Forget
  <2> QED BY <1>3, <2>1, <2>2 DEF FinishStop, threadVars, runVars
<1>4. CASE Exit(i) \/ Crash(i)
  <2>1. Vanish(i)
    BY <1>4 DEF Exit, Crash
  <2> QED BY <2>1, SchedulerAssumption DEF Vanish, runVars
<1>5. CASE Submit(i)
  <2>1. PICK r \in Runs, state \in {"ready", "stuck"} : Update(r, state)
    BY <1>5 DEF Submit, StartRun
  <2> QED BY <1>5, <2>1, UpdateType DEF Submit, threadVars
<1>6. CASE Drive(i)
  <2>1. PICK r \in Runs : /\ Update(r, "ready")
                          /\ driven' = [driven EXCEPT ![i] = r]
                          /\ targets' = [targets EXCEPT ![i] = @ \cup {r}]
    BY <1>6 DEF Drive, StartRun
  <2>2. r \in 0..MaxRuns
    BY SchedulerAssumption DEF Runs
  <2> QED BY <1>6, <2>1, <2>2, UpdateType DEF Drive, threadVars
<1>7. CASE Leave(i)
  BY <1>7, SchedulerAssumption DEF Leave, threadVars, runVars
<1> QED BY <1>1, <1>2, <1>3, <1>4, <1>5, <1>6, <1>7 DEF ProcessStep

(* So does a tick.                                                         *)
LEMMA ThreadType ==
    ASSUME SchedulerTypeOK, NEW t \in Threads, ThreadStep(t)
    PROVE  SchedulerTypeOK'
<1>0. t[1] \in Instances
  BY ThreadsAreOfInstances
<1> USE DEF SchedulerTypeOK, LeadershipTypeOK
<1>1. CASE Look(t)
  BY <1>0, <1>1 DEF Look, runVars
<1>2. CASE Ask(t) \/ Unverified(t)
  <2>1. row' \in Row
    BY <1>0, <1>2, RowType DEF Ask, Unverified
  <2>2. mine' \in [Threads -> Nat]
    BY <1>0, <1>2, RowType DEF Ask, Unverified
  <2> QED BY <1>2, <2>1, <2>2 DEF Ask, Unverified, runVars
<1>3. ASSUME NEW discover \in BOOLEAN, Keep(t, discover) PROVE SchedulerTypeOK'
  <2>1. Dispatchable \subseteq Runs
    BY DEF Dispatchable, Window, Open
  <2>2. handle' \in [Instances -> Nat]
    BY <1>0, <1>3 DEF Keep
  <2>3. CASE mine[t] = 0
    BY <1>3, <2>2, <2>3 DEF Keep, runVars
  <2>4. CASE mine[t] # 0
    BY <1>0, <1>3, <2>1, <2>2, <2>4 DEF Keep, runVars
  <2> QED BY <2>3, <2>4
<1>4. ASSUME NEW r \in Runs, BeginCycle(t, r) PROVE SchedulerTypeOK'
  <2>1. CASE run[r] = "ready"
    <3>1. Update(r, "busy")
      BY <1>4, <2>1 DEF BeginCycle
    <3>2. r \in 0..MaxRuns /\ r # 0
      BY SchedulerAssumption DEF Runs
    <3> QED BY <1>4, <2>1, <3>1, <3>2, UpdateType DEF BeginCycle
  <2>2. CASE run[r] # "ready"
    BY <1>4, <2>2 DEF BeginCycle, runVars
  <2> QED BY <2>1, <2>2
<1>5. ASSUME NEW outcome \in {"done", "stuck"}, EndCycle(t, outcome) PROVE SchedulerTypeOK'
  <2>1. serving[t] \in Runs
    BY <1>5, SchedulerAssumption DEF EndCycle, Runs
  <2>2. Update(serving[t], outcome)
    BY <1>5 DEF EndCycle
  <2> QED BY <1>5, <2>1, <2>2, UpdateType, SchedulerAssumption DEF EndCycle
<1>6. CASE EndTick(t)
  BY <1>6 DEF EndTick, runVars
<1> QED BY <1>1, <1>2, <1>3, <1>4, <1>5, <1>6 DEF ThreadStep, Cycle

(* Every step keeps the types.                                             *)
LEMMA TypeStep ==
    ASSUME SchedulerTypeOK, [SchedulerNext]_schedulerVars
    PROVE  SchedulerTypeOK'
<1>1. ASSUME NEW r \in Runs, Operate(r) PROVE SchedulerTypeOK'
  <2>1. Update(r, "stuck") \/ Update(r, "done")
    BY <1>1 DEF Operate
  <2> QED BY <1>1, <2>1, UpdateType DEF Operate, SchedulerTypeOK, LeadershipTypeOK, threadVars
<1>2. CASE RoleLapses
  <2>1. row' \in Row /\ UNCHANGED handle
    BY <1>2 DEF RoleLapses, Lapse, SchedulerTypeOK, LeadershipTypeOK, Row
  <2> QED BY <1>2, <2>1 DEF RoleLapses, SchedulerTypeOK, LeadershipTypeOK, threadVars, runVars
<1>3. CASE UNCHANGED schedulerVars
  BY <1>3 DEF schedulerVars, SchedulerTypeOK, LeadershipTypeOK, threadVars, runVars
<1> QED BY <1>1, <1>2, <1>3, ThreadType, ProcessType DEF SchedulerNext

-----------------------------------------------------------------------------

(* A step that leaves the row, the handles and what threads were told.     *)
LEMMA TermsUntouched ==
    ASSUME UNCHANGED <<row, handle, mine>>
    PROVE  TermsKept
BY DEF TermsKept, GoesBy

(* What becomes of a process hands out no term.                            *)
LEMMA ProcessTerms ==
    ASSUME SchedulerTypeOK, NEW i \in Instances, ProcessStep(i)
    PROVE  TermsKept
<1>0. row \in Row /\ handle \in [Instances -> Nat] /\ mine \in [Threads -> Nat]
  BY DEF SchedulerTypeOK, LeadershipTypeOK
<1>1. CASE FinishStop(i)
  <2>1. row'.token = row.token /\ row'.holder = row.holder
    BY <1>0, <1>1 DEF FinishStop, Release, Forget, Row
  <2>2. /\ handle' = [handle EXCEPT ![i] = 0]
        /\ mine' = mine
    BY <1>1 DEF FinishStop, Release, Forget, threadVars
  <2> QED BY <1>0, <2>1, <2>2 DEF TermsKept, GoesBy
<1>2. CASE Exit(i) \/ Crash(i)
  <2>1. /\ row' = row
        /\ handle' = [handle EXCEPT ![i] = 0]
        /\ \A t \in Threads : mine'[t] = mine[t] \/ mine'[t] = 0
    BY <1>0, <1>2 DEF Exit, Crash, Vanish
  <2> QED BY <1>0, <2>1 DEF TermsKept, GoesBy
<1>3. CASE Start(i) \/ BeginStop(i) \/ Submit(i) \/ Drive(i) \/ Leave(i)
  <2>1. UNCHANGED <<row, handle, mine>>
    BY <1>3 DEF Start, BeginStop, Submit, Drive, Leave, threadVars
  <2> QED BY <2>1, TermsUntouched
<1> QED BY <1>1, <1>2, <1>3 DEF ProcessStep

(* A tick hands out a term only by an election, and to its own process.    *)
LEMMA ThreadTerms ==
    ASSUME SchedulerTypeOK, NEW t \in Threads, ThreadStep(t)
    PROVE  TermsKept \/ TermBegins
<1>0. /\ row \in Row /\ handle \in [Instances -> Nat] /\ mine \in [Threads -> Nat]
      /\ t[1] \in Instances
  BY ThreadsAreOfInstances DEF SchedulerTypeOK, LeadershipTypeOK
<1>1. CASE Look(t)
  <2>1. /\ row' = row /\ handle' = handle
        /\ \A s \in Threads : mine'[s] = IF s = t THEN handle[t[1]] ELSE mine[s]
    BY <1>0, <1>1 DEF Look
  <2> QED BY <1>0, <2>1 DEF TermsKept, GoesBy
<1>2. ASSUME row' = Elected(t[1]), handle' = handle,
             \A s \in Threads : mine'[s] = mine[s] \/ mine'[s] = 0
                                \/ (s = t /\ mine'[s] = row'.token)
      PROVE  TermBegins
  <2>1. row'.token = row.token + 1 /\ row'.holder = t[1]
    BY <1>0, <1>2, RowType
  <2> QED BY <1>0, <1>2, <2>1 DEF TermBegins, GoesBy
<1>3. ASSUME row' = Renewed \/ row' = row, handle' = handle,
             \A s \in Threads : mine'[s] = mine[s] \/ mine'[s] = 0
      PROVE  TermsKept
  <2>1. row'.token = row.token /\ row'.holder = row.holder
    BY <1>0, <1>3, RowType
  <2> QED BY <1>0, <1>3, <2>1 DEF TermsKept, GoesBy
<1>4. CASE Ask(t)
  <2>1. CASE row' = Elected(t[1]) /\ mine' = [mine EXCEPT ![t] = Elected(t[1]).token]
    BY <1>0, <1>2, <1>4, <2>1 DEF Ask
  <2>2. CASE row' = Renewed /\ UNCHANGED mine
    BY <1>3, <1>4, <2>2 DEF Ask
  <2>3. CASE mine' = [mine EXCEPT ![t] = 0] /\ UNCHANGED row
    BY <1>0, <1>3, <1>4, <2>3 DEF Ask
  <2> QED BY <1>4, <2>1, <2>2, <2>3 DEF Ask
<1>5. CASE Unverified(t)
  <2>1. /\ handle' = handle
        /\ row' = row \/ row' = Renewed \/ row' = Elected(t[1])
        /\ \A s \in Threads : mine'[s] = mine[s] \/ mine'[s] = 0
    BY <1>0, <1>5 DEF Unverified
  <2> QED BY <1>2, <1>3, <2>1
<1>6. ASSUME NEW discover \in BOOLEAN, Keep(t, discover) PROVE TermsKept
  <2>1. /\ row' = row /\ mine' = mine
        /\ \A i \in Instances : handle'[i] = IF i = t[1] THEN mine[t] ELSE handle[i]
    BY <1>0, <1>6 DEF Keep
  <2> QED BY <1>0, <2>1 DEF TermsKept, GoesBy
<1>7. CASE Cycle(t)
  <2>1. UNCHANGED <<row, handle, mine>>
    BY <1>7 DEF Cycle, BeginCycle, EndCycle
  <2> QED BY <2>1, TermsUntouched
<1>8. CASE EndTick(t)
  <2>1. /\ row' = row /\ handle' = handle
        /\ \A s \in Threads : mine'[s] = mine[s] \/ mine'[s] = 0
    BY <1>0, <1>8 DEF EndTick
  <2> QED BY <1>3, <2>1
<1> QED BY <1>1, <1>4, <1>5, <1>6, <1>7, <1>8 DEF ThreadStep

(* Every step keeps the terms or begins one.                               *)
LEMMA TermsStep ==
    ASSUME SchedulerTypeOK, [SchedulerNext]_schedulerVars
    PROVE  TermsKept \/ TermBegins
<1>1. ASSUME NEW r \in Runs, Operate(r) PROVE TermsKept
  BY <1>1, TermsUntouched DEF Operate, threadVars
<1>2. CASE RoleLapses
  <2>1. /\ row'.token = row.token /\ row'.holder = row.holder
        /\ UNCHANGED <<handle, mine>>
    BY <1>2 DEF RoleLapses, Lapse, threadVars, SchedulerTypeOK, LeadershipTypeOK, Row
  <2> QED BY <2>1 DEF TermsKept, GoesBy
<1>3. CASE UNCHANGED schedulerVars
  BY <1>3, TermsUntouched DEF schedulerVars, threadVars
<1> QED BY <1>1, <1>2, <1>3, ThreadTerms, ProcessTerms DEF SchedulerNext

(* Either keeps what is said of the terms.                                 *)
LEMMA TermsInvStep ==
    ASSUME SchedulerTypeOK, TermsElected, TermsApart, TermsKept \/ TermBegins
    PROVE  TermsElected' /\ TermsApart'
<1>0. row.token \in Nat
  BY DEF SchedulerTypeOK, LeadershipTypeOK, Row
<1>1. CASE TermsKept
  BY <1>1 DEF TermsElected, TermsApart, TermsKept
<1>2. ASSUME TermBegins PROVE TermsElected' /\ TermsApart'
  <2>1. PICK e \in Instances :
          /\ row'.token = row.token + 1
          /\ row'.holder = e
          /\ \A i \in Instances, k \in Nat :
                GoesBy(i, k)' => GoesBy(i, k) \/ (i = e /\ k = row'.token)
    BY <1>2 DEF TermBegins
  <2>2. \A i \in Instances, k \in Nat : GoesBy(i, k) => k <= row.token
    BY DEF TermsElected
  <2>3. TermsElected'
    BY <1>0, <2>1, <2>2 DEF TermsElected
  <2>4. TermsApart'
    BY <1>0, <2>1, <2>2 DEF TermsApart
  <2> QED BY <2>3, <2>4
<1> QED BY <1>1, <1>2

(* A thread starts to coordinate only with a term, and gives it back last. *)
LEMMA CoordinatorsStep ==
    ASSUME SchedulerTypeOK, CoordinatorsWereTold, [SchedulerNext]_schedulerVars
    PROVE  CoordinatorsWereTold'
<1>0. mine \in [Threads -> Nat] /\ DOMAIN stage = Threads
  BY DEF SchedulerTypeOK
<1>1. ASSUME NEW t \in Threads, ThreadStep(t) PROVE CoordinatorsWereTold'
  <2>1. CASE Look(t) \/ Ask(t) \/ Unverified(t)
    <3>1. \A s \in Threads : s # t => stage'[s] = stage[s] /\ mine'[s] = mine[s]
      BY <1>0, <2>1 DEF Look, Ask, Unverified
    <3>2. stage'[t] \in {"asking", "told"}
      BY <1>0, <2>1 DEF Look, Ask, Unverified, SchedulerTypeOK
    <3> QED BY <3>1, <3>2 DEF CoordinatorsWereTold
  <2>2. ASSUME NEW discover \in BOOLEAN, Keep(t, discover) PROVE CoordinatorsWereTold'
    <3>1. CASE mine[t] = 0
      BY <1>0, <2>2, <3>1 DEF Keep, CoordinatorsWereTold, SchedulerTypeOK
    <3>2. CASE mine[t] # 0
      BY <1>0, <2>2, <3>2 DEF Keep, CoordinatorsWereTold, SchedulerTypeOK
    <3> QED BY <3>1, <3>2
  <2>3. CASE Cycle(t)
    <3>1. mine' = mine /\ stage[t] \in {"sweeping", "cycling"}
      BY <2>3 DEF Cycle, BeginCycle, EndCycle
    <3>2. \A s \in Threads : s # t => stage'[s] = stage[s]
      BY <1>0, <2>3 DEF Cycle, BeginCycle, EndCycle
    <3> QED BY <3>1, <3>2 DEF CoordinatorsWereTold
  <2>4. CASE EndTick(t)
    BY <1>0, <2>4 DEF EndTick, CoordinatorsWereTold, SchedulerTypeOK
  <2> QED BY <1>1, <2>1, <2>2, <2>3, <2>4 DEF ThreadStep
<1>2. ASSUME NEW i \in Instances, ProcessStep(i) PROVE CoordinatorsWereTold'
  <2>1. CASE Exit(i) \/ Crash(i)
    <3>1. \A t \in Threads : \/ stage'[t] = "idle"
                             \/ stage'[t] = stage[t] /\ mine'[t] = mine[t]
      BY <2>1 DEF Exit, Crash, Vanish
    <3> QED BY <3>1 DEF CoordinatorsWereTold
  <2>2. CASE UNCHANGED threadVars
    BY <2>2 DEF threadVars, CoordinatorsWereTold
  <2> QED BY <1>2, <2>1, <2>2 DEF ProcessStep, Start, BeginStop, FinishStop, Submit, Drive, Leave
<1>3. ASSUME UNCHANGED threadVars PROVE CoordinatorsWereTold'
  BY <1>3 DEF threadVars, CoordinatorsWereTold
<1> QED BY <1>1, <1>2, <1>3 DEF SchedulerNext, Operate, RoleLapses, schedulerVars

(* Nobody is up in the beginning.                                          *)
LEMMA SchedulerInvInit == SchedulerInit => SchedulerInv
<1> SUFFICES ASSUME SchedulerInit PROVE SchedulerInv
  OBVIOUS
<1>1. LeadershipTypeOK
  BY DEF SchedulerInit, LeadershipInit, LeadershipTypeOK, Row, Statuses
<1>2. SchedulerTypeOK
  BY <1>1, SchedulerAssumption DEF SchedulerInit, SchedulerTypeOK
<1>3. \A i \in Instances, k \in Nat : ~GoesBy(i, k)
  BY DEF SchedulerInit, LeadershipInit, GoesBy
<1>4. CoordinatorsWereTold
  BY DEF SchedulerInit, CoordinatorsWereTold
<1> QED BY <1>2, <1>3, <1>4 DEF SchedulerInv, TermsElected, TermsApart

(* The invariant both theorems follow from.                                *)
LEMMA SchedulerInvariant == SchedulerSpec => []SchedulerInv
<1>1. SchedulerInv /\ [SchedulerNext]_schedulerVars => SchedulerInv'
  BY TypeStep, TermsStep, TermsInvStep, CoordinatorsStep DEF SchedulerInv
<1> QED BY <1>1, SchedulerInvInit, PTL DEF SchedulerSpec

(* Every reachable state of a fleet is well formed, and a thread that is   *)
(* cycling, and no other, serves a run.                                    *)
THEOREM SchedulerTypeCorrect == SchedulerSpec => []SchedulerTypeOK
<1>1. SchedulerInv => SchedulerTypeOK
  BY DEF SchedulerInv
<1> QED BY <1>1, SchedulerInvariant, PTL

(* Two ticks that coordinate under one term are one process's.             *)
THEOREM TermsHaveOneCoordinator == SchedulerSpec => []OneCoordinatorPerTerm
<1>1. ASSUME SchedulerInv PROVE OneCoordinatorPerTerm
  <2> SUFFICES ASSUME NEW s \in Threads, NEW t \in Threads,
                      stage[s] \in {"sweeping", "cycling"},
                      stage[t] \in {"sweeping", "cycling"},
                      mine[s] = mine[t]
               PROVE  s[1] = t[1]
    BY DEF OneCoordinatorPerTerm
  <2>1. /\ s[1] \in Instances /\ t[1] \in Instances
        /\ mine[s] \in Nat
    BY <1>1, ThreadsAreOfInstances DEF SchedulerInv, SchedulerTypeOK
  <2>2. GoesBy(s[1], mine[s]) /\ GoesBy(t[1], mine[s])
    BY <1>1 DEF SchedulerInv, CoordinatorsWereTold, GoesBy
  <2> QED BY <1>1, <2>1, <2>2 DEF SchedulerInv, TermsApart
<1> QED BY <1>1, SchedulerInvariant, PTL

=============================================================================
