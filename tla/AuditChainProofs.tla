--------------------------- MODULE AuditChainProofs ---------------------------
(***************************************************************************)
(* What the fence of AuditChain guarantees for any number of instances,    *)
(* elections and records, whatever the clocks say.                         *)
(***************************************************************************)
EXTENDS AuditChain, SequenceTheorems, TLAPS

\* A handle carries a token that was granted; the latest belongs to the holder.
HandlesGranted ==
    \A i \in Instances :
        /\ handle[i] <= row.token
        /\ handle[i] = row.token /\ handle[i] # 0 => row.holder = i

RoleInv == LeadershipTypeOK /\ HandlesGranted /\ TokenNamesOneInstance

\* Every record was written under a granted token; those under the latest token
\* are the holder's.
RecordsGranted ==
    \A k \in 1..Len(chain) :
        /\ chain[k].token <= row.token
        /\ chain[k].token = row.token => chain[k].by = row.holder

ChainInv ==
    /\ AuditTypeOK
    /\ RoleInv
    /\ RecordsGranted
    /\ ChainNeverForks
    /\ OneWriterPerTerm

\* What a step may do to the role.
RoleMove ==
    \/ \E i \in Instances, heard \in BOOLEAN : Acquire(i, heard)
    \/ \E i \in Instances : Heartbeat(i)
    \/ \E i \in Instances : Release(i)
    \/ \E i \in Instances : handle' = [handle EXCEPT ![i] = 0] /\ UNCHANGED row
    \/ Lapse
    \/ UNCHANGED <<row, handle>>

-----------------------------------------------------------------------------

(* The role alone: whatever is done to it, tokens only rise, and as long   *)
(* as the token stays so does the holder.                                  *)
LEMMA RoleStepInv ==
    ASSUME RoleInv, RoleMove
    PROVE  /\ RoleInv'
           /\ row'.token >= row.token
           /\ row'.token = row.token => row'.holder = row.holder
<1>0. /\ row \in Row /\ row.token \in Nat
      /\ handle \in [Instances -> Nat]
      /\ HandlesGranted /\ TokenNamesOneInstance
  BY DEF RoleInv, LeadershipTypeOK, Row
<1> DEFINE SameOrDropped ==
      /\ handle' \in [Instances -> Nat]
      /\ \A i \in Instances : handle'[i] = handle[i] \/ handle'[i] = 0
<1>1. ASSUME NEW i \in Instances, NEW heard \in BOOLEAN, Acquire(i, heard)
      PROVE  /\ RoleInv'
             /\ row'.token >= row.token
             /\ row'.token = row.token => row'.holder = row.holder
  <2>1. /\ row' \in Row
        /\ row'.token = row.token + 1
        /\ row'.holder = i
    BY <1>0, <1>1 DEF Acquire, Elected, Row, Statuses
  <2>2. /\ handle' \in [Instances -> Nat]
        /\ \A j \in Instances : handle'[j] = handle[j] \/ (j = i /\ handle'[j] = row.token + 1)
    BY <1>0, <1>1 DEF Elected, Acquire
  <2>3. HandlesGranted' /\ TokenNamesOneInstance'
    BY <1>0, <2>1, <2>2 DEF HandlesGranted, TokenNamesOneInstance
  <2> QED BY <1>0, <2>1, <2>2, <2>3 DEF RoleInv, LeadershipTypeOK
<1>2. ASSUME row' \in Row, row'.token = row.token, row'.holder = row.holder, SameOrDropped
      PROVE  /\ RoleInv'
             /\ row'.token >= row.token
             /\ row'.token = row.token => row'.holder = row.holder
  <2>1. HandlesGranted' /\ TokenNamesOneInstance'
    BY <1>0, <1>2 DEF HandlesGranted, TokenNamesOneInstance
  <2> QED BY <1>0, <1>2, <2>1 DEF RoleInv, LeadershipTypeOK
<1>3. ASSUME RoleMove, ~ \E i \in Instances, heard \in BOOLEAN : Acquire(i, heard)
      PROVE  SameOrDropped
  BY <1>0, <1>3 DEF RoleMove, Heartbeat, Release, Lapse
<1>4. ASSUME RoleMove, ~ \E i \in Instances, heard \in BOOLEAN : Acquire(i, heard)
      PROVE  row' \in Row /\ row'.token = row.token /\ row'.holder = row.holder
  <2>1. \/ row' = row
        \/ row' = [row EXCEPT !.lapsed = FALSE]
        \/ row' = [row EXCEPT !.lapsed = TRUE]
        \/ row' = [row EXCEPT !.status = "released", !.lapsed = TRUE]
    BY <1>4 DEF RoleMove, Heartbeat, Release, Lapse
  <2> QED BY <1>0, <2>1 DEF Row, Statuses
<1> QED BY <1>1, <1>2, <1>3, <1>4

(* Every step of the specification does one of those things to the role.   *)
LEMMA EveryRoleMove ==
    ASSUME [AuditNext]_auditVars
    PROVE  RoleMove
<1>1. CASE Lapse /\ UNCHANGED auditOwn
  BY <1>1 DEF RoleMove
<1>2. ASSUME NEW i \in Instances, RoleStep(i) PROVE RoleMove
  BY <1>2 DEF RoleStep, TakeRole, LoseElection, Contended, KeepRole, Stop, Start, RoleMove
<1>3. ASSUME NEW i \in Instances, RecordStep(i) PROVE RoleMove
  BY <1>3 DEF RecordStep, Admit, Present, RefuseAppend, ExtendChain, RoleMove
<1>4. CASE UNCHANGED auditVars
  BY <1>4 DEF auditVars, RoleMove
<1> QED BY <1>1, <1>2, <1>3, <1>4 DEF AuditNext

(* The other variables keep their types.                                   *)
LEMMA TypeStep ==
    ASSUME AuditTypeOK, [AuditNext]_auditVars, LeadershipTypeOK'
    PROVE  AuditTypeOK'
<1> USE DEF AuditTypeOK
<1>1. CASE Lapse /\ UNCHANGED auditOwn
  BY <1>1 DEF auditOwn
<1>2. ASSUME NEW i \in Instances, RoleStep(i) PROVE AuditTypeOK'
  <2>1. CASE \E heard \in BOOLEAN : TakeRole(i, heard)
    BY <2>1 DEF TakeRole
  <2>2. CASE LoseElection(i) \/ KeepRole(i)
    BY <2>2 DEF LoseElection, KeepRole, auditOwn
  <2>3. CASE Stop(i)
    BY <2>3 DEF Stop
  <2>4. CASE Start(i)
    BY <2>4, LenProperties DEF Start
  <2> QED BY <1>2, <2>1, <2>2, <2>3, <2>4 DEF RoleStep
<1>3. ASSUME NEW i \in Instances, RecordStep(i) PROVE AuditTypeOK'
  <2>1. CASE Admit(i)
    BY <2>1 DEF Admit, Step
  <2>2. CASE Present(i)
    BY <2>2 DEF Present, Step, LeadershipTypeOK
  <2>3. CASE RefuseAppend(i)
    BY <2>3 DEF RefuseAppend, Step
  <2>4. ASSUME NEW heard \in BOOLEAN, ExtendChain(i, heard) PROVE AuditTypeOK'
    <3>1. [position |-> tail[i] + 1, token |-> pen[i], by |-> i] \in Record
      BY DEF Record
    <3>2. chain' \in Seq(Record)
      BY <2>4, <3>1, AppendProperties DEF ExtendChain
    <3> QED BY <2>4, <3>2 DEF ExtendChain, Step
  <2> QED BY <1>3, <2>1, <2>2, <2>3, <2>4 DEF RecordStep
<1>4. CASE UNCHANGED auditVars
  BY <1>4 DEF auditVars, auditOwn
<1> QED BY <1>1, <1>2, <1>3, <1>4 DEF AuditNext

(* The chain is left alone, or grows by one record that passed the fence   *)
(* and stands at the tail.                                                 *)
LEMMA ChainStep ==
    ASSUME AuditTypeOK, [AuditNext]_auditVars
    PROVE  \/ chain' = chain
           \/ /\ chain' = Append(chain, [position |-> Len(chain) + 1,
                                         token    |-> row.token,
                                         by       |-> row.holder])
              /\ row.holder \in Instances
              /\ UNCHANGED row
<1>1. ASSUME NEW i \in Instances, NEW heard \in BOOLEAN, ExtendChain(i, heard)
      PROVE  /\ chain' = Append(chain, [position |-> Len(chain) + 1,
                                        token    |-> row.token,
                                        by       |-> row.holder])
             /\ row.holder \in Instances
             /\ UNCHANGED row
  BY <1>1 DEF ExtendChain, Appendable, FencedWhere
<1>2. ASSUME NEW i \in Instances, RoleStep(i) \/ Admit(i) \/ Present(i) \/ RefuseAppend(i)
      PROVE  chain' = chain
  BY <1>2 DEF RoleStep, TakeRole, LoseElection, KeepRole, Stop, Start, Admit, Present,
              RefuseAppend, auditOwn
<1>3. CASE Lapse /\ UNCHANGED auditOwn
  BY <1>3 DEF auditOwn
<1>4. CASE UNCHANGED auditVars
  BY <1>4 DEF auditVars, auditOwn
<1> QED BY <1>1, <1>2, <1>3, <1>4 DEF AuditNext, RecordStep

(* Growing by such a record keeps what is said of the chain.               *)
LEMMA ChainInvStep ==
    ASSUME ChainInv, [AuditNext]_auditVars
    PROVE  ChainInv'
<1>1. /\ RoleInv'
      /\ row'.token >= row.token
      /\ row'.token = row.token => row'.holder = row.holder
  BY EveryRoleMove, RoleStepInv DEF ChainInv
<1>2. AuditTypeOK'
  BY <1>1, TypeStep DEF ChainInv, RoleInv
<1>3. CASE chain' = chain
  <2>1. row.token \in Nat /\ row'.token \in Nat /\ chain \in Seq(Record)
    BY <1>1 DEF ChainInv, AuditTypeOK, RoleInv, LeadershipTypeOK, Row
  <2>2. \A k \in 1..Len(chain) : chain[k].token \in Nat
    <3>1. \A k \in 1..Len(chain) : chain[k] \in Record
      BY <2>1, ElementOfSeq
    <3> QED BY <3>1 DEF Record
  <2>3. RecordsGranted'
    BY <1>1, <1>3, <2>1, <2>2 DEF ChainInv, RecordsGranted
  <2> QED BY <1>1, <1>2, <1>3, <2>3 DEF ChainInv, ChainNeverForks, OneWriterPerTerm
<1>4. CASE /\ chain' = Append(chain, [position |-> Len(chain) + 1,
                                      token    |-> row.token,
                                      by       |-> row.holder])
           /\ row.holder \in Instances
           /\ UNCHANGED row
  <2> DEFINE r == [position |-> Len(chain) + 1, token |-> row.token, by |-> row.holder]
  <2>1. row.token \in Nat /\ chain \in Seq(Record) /\ Len(chain) \in Nat
    BY LenProperties DEF ChainInv, AuditTypeOK, RoleInv, LeadershipTypeOK, Row
  <2>2. r \in Record
    BY <1>4, <2>1 DEF Record
  <2>3. /\ Len(chain') = Len(chain) + 1
        /\ \A k \in 1..Len(chain) : chain'[k] = chain[k]
        /\ chain'[Len(chain) + 1] = r
    BY <1>4, <2>1, <2>2, AppendProperties
  <2>4. \A k \in 1..Len(chain') : k \in 1..Len(chain) \/ k = Len(chain) + 1
    BY <2>1, <2>3
  <2>5. RecordsGranted'
    BY <1>4, <2>1, <2>3, <2>4 DEF ChainInv, RecordsGranted
  <2>6. ChainNeverForks'
    BY <2>1, <2>3, <2>4 DEF ChainInv, ChainNeverForks
  <2>7. OneWriterPerTerm'
    BY <2>1, <2>3, <2>4 DEF ChainInv, OneWriterPerTerm, RecordsGranted
  <2> QED BY <1>1, <1>2, <2>5, <2>6, <2>7 DEF ChainInv
<1> QED BY <1>3, <1>4, ChainStep DEF ChainInv

LEMMA ChainInvInit == AuditInit => ChainInv
<1> SUFFICES ASSUME AuditInit PROVE ChainInv
  OBVIOUS
<1>1. LeadershipTypeOK /\ HandlesGranted /\ TokenNamesOneInstance
  BY DEF AuditInit, LeadershipInit, LeadershipTypeOK, Row, Statuses, HandlesGranted,
         TokenNamesOneInstance
<1>2. chain \in Seq(Record) /\ Len(chain) = 0
  BY DEF AuditInit
<1>3. AuditTypeOK
  BY <1>1, <1>2 DEF AuditInit, AuditTypeOK
<1> QED BY <1>1, <1>2, <1>3 DEF ChainInv, RoleInv, RecordsGranted, ChainNeverForks, OneWriterPerTerm

(* The invariant the properties follow from.                               *)
LEMMA ChainInvariant == AuditSpec => []ChainInv
<1>1. ChainInv /\ [AuditNext]_auditVars => ChainInv'
  BY ChainInvStep
<1> QED BY <1>1, ChainInvInit, PTL DEF AuditSpec

(* Every variable has its type, however many instances, elections and      *)
(* records there were: no stage, handle or tail is left undefined by a     *)
(* stop, a start or a lapsed lease.                                        *)
THEOREM AuditTypeCorrect == AuditSpec => []AuditTypeOK
<1>1. ChainInv => AuditTypeOK
  BY DEF ChainInv
<1> QED BY <1>1, ChainInvariant, PTL

(* A fencing token is never held by two instances.                         *)
THEOREM TokensTellLeadersApart == AuditSpec => []TokenNamesOneInstance
<1>1. ChainInv => TokenNamesOneInstance
  BY DEF ChainInv, RoleInv
<1> QED BY <1>1, ChainInvariant, PTL

(* The audit chain neither forks nor skips.                                *)
THEOREM ChainIsOne == AuditSpec => []ChainNeverForks
<1>1. ChainInv => ChainNeverForks
  BY DEF ChainInv
<1> QED BY <1>1, ChainInvariant, PTL

(* Two records under one token are one instance's.                         *)
THEOREM TermsHaveOneWriter == AuditSpec => []OneWriterPerTerm
<1>1. ChainInv => OneWriterPerTerm
  BY DEF ChainInv
<1> QED BY <1>1, ChainInvariant, PTL

(* Nothing is written under a token that was superseded.                   *)
THEOREM FenceHolds == AuditSpec => SupersededWritesNothing
<1> DEFINE Fenced ==
      chain' # chain =>
          chain' = Append(chain, [position |-> Len(chain) + 1,
                                  token    |-> row.token,
                                  by       |-> row.holder])
<1>1. ChainInv /\ [AuditNext]_auditVars => [Fenced]_auditVars
  BY ChainStep DEF ChainInv
<1> QED BY <1>1, ChainInvariant, PTL DEF AuditSpec, SupersededWritesNothing

=============================================================================
