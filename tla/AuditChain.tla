------------------------------ MODULE AuditChain ------------------------------
(***************************************************************************)
(* The audit chain in the database and the runtimes that append to it      *)
(* (backend/database/durable/audit.py, backend/platform/audit/runtime.py). *)
(* A runtime asks whether it is the writer, builds a record on the tail it *)
(* remembers, and appends it in one transaction that carries the fence,    *)
(* advances the durable tail and inserts the record.                       *)
(*                                                                         *)
(* A record is its position, the token and the instance that wrote it.  A  *)
(* digest is represented by the position it ends: two tails of one chain   *)
(* with the same length have the same digest.                              *)
(***************************************************************************)
EXTENDS Leadership, Sequences

CONSTANTS
    MaxRecords,   \* bound on the chain
    MaxDoubts     \* bound on commits whose outcome nobody hears

ASSUME AuditAssumption == MaxRecords \in Nat /\ MaxDoubts \in Nat

VARIABLES
    up,       \* the instances that are running
    stage,    \* stage[i]: what i's record() is doing
    pen,      \* pen[i]: the token its append carries
    tail,     \* tail[i]: the length of the chain as i's runtime remembers it
    chain,    \* the durable chain
    doubts    \* commits of unknown outcome so far

auditOwn == <<up, stage, pen, tail, chain, doubts>>
auditVars == <<row, handle, auditOwn>>

Record == [position : Nat, token : Nat, by : Instances]

AuditInit ==
    /\ LeadershipInit
    /\ up = Instances
    /\ stage = [i \in Instances |-> "idle"]
    /\ pen = [i \in Instances |-> 0]
    /\ tail = [i \in Instances |-> 0]
    /\ chain = <<>>
    /\ doubts = 0

-----------------------------------------------------------------------------
(* The role: start, the pump, shutdown (application_runtime.py).           *)

TakeRole(i, heard) ==
    /\ i \in up
    /\ ~heard => doubts < MaxDoubts
    /\ Acquire(i, heard)
    /\ doubts' = IF heard THEN doubts ELSE doubts + 1
    /\ UNCHANGED <<up, stage, pen, tail, chain>>

LoseElection(i) ==
    /\ i \in up
    /\ Contended(i)
    /\ UNCHANGED auditOwn

KeepRole(i) ==
    /\ i \in up
    /\ Heartbeat(i)
    /\ UNCHANGED auditOwn

\* An orderly stop releases the role; a crash leaves it to lapse.
Stop(i) ==
    /\ i \in up
    /\ up' = up \ {i}
    /\ \/ Release(i)
       \/ handle' = [handle EXCEPT ![i] = 0] /\ UNCHANGED row
    /\ stage' = [stage EXCEPT ![i] = "idle"]
    /\ pen' = [pen EXCEPT ![i] = 0]
    /\ UNCHANGED <<tail, chain, doubts>>

\* Mutant: the runtime resumes at the last record, not after it.
StartAtLast(i) ==
    /\ i \notin up
    /\ up' = up \cup {i}
    /\ tail' = [tail EXCEPT ![i] = Len(chain) - 1]
    /\ UNCHANGED <<row, handle, stage, pen, chain, doubts>>

\* AuditRuntime._recover: the tail is read once, when the process starts.
Start(i) ==
    /\ i \notin up
    /\ up' = up \cup {i}
    /\ tail' = [tail EXCEPT ![i] = Len(chain)]
    /\ UNCHANGED <<row, handle, stage, pen, chain, doubts>>

-----------------------------------------------------------------------------
(* One record (AuditRuntime.record, SqlAuditStore.append).                 *)

Step(i, from, to) ==
    /\ i \in up
    /\ stage[i] = from
    /\ stage' = [stage EXCEPT ![i] = to]

\* _assert_writer renews the lease; an instance that lost the role is refused.
Admit(i) ==
    /\ Step(i, "idle", "admitted")
    /\ Len(chain) < MaxRecords
    /\ handle[i] # 0 /\ FencedWhere(i, handle[i])
    /\ Heartbeat(i)
    /\ UNCHANGED <<up, pen, tail, chain, doubts>>

\* append takes the handle there is by then, or refuses without one.
Present(i) ==
    /\ Step(i, "admitted", IF handle[i] = 0 THEN "idle" ELSE "writing")
    /\ pen' = [pen EXCEPT ![i] = handle[i]]
    /\ UNCHANGED <<row, handle, up, tail, chain, doubts>>

\* Mutant: the ownership check counts as the fence.
AppendableChecked(i) == tail[i] = Len(chain)

\* Mutant: the fence is trusted to keep the tail.
AppendableFenced(i) == FencedWhere(i, pen[i])

\* The fence, then the tail: either matches no row and the append is refused.
Appendable(i) ==
    /\ FencedWhere(i, pen[i])
    /\ tail[i] = Len(chain)

ExtendChain(i, heard) ==
    /\ Step(i, "writing", "idle")
    /\ Appendable(i)
    /\ ~heard => doubts < MaxDoubts
    /\ chain' = Append(chain, [position |-> tail[i] + 1, token |-> pen[i], by |-> i])
    /\ tail' = IF heard THEN [tail EXCEPT ![i] = @ + 1] ELSE tail
    /\ doubts' = IF heard THEN doubts ELSE doubts + 1
    /\ pen' = [pen EXCEPT ![i] = 0]
    /\ UNCHANGED <<row, handle, up>>

RefuseAppend(i) ==
    /\ Step(i, "writing", "idle")
    /\ ~Appendable(i)
    /\ pen' = [pen EXCEPT ![i] = 0]
    /\ UNCHANGED <<row, handle, up, tail, chain, doubts>>

RoleStep(i) ==
    \/ \E heard \in BOOLEAN : TakeRole(i, heard)
    \/ LoseElection(i) \/ KeepRole(i) \/ Stop(i) \/ Start(i)

RecordStep(i) ==
    \/ Admit(i) \/ Present(i) \/ RefuseAppend(i)
    \/ \E heard \in BOOLEAN : ExtendChain(i, heard)

AuditNext ==
    \/ Lapse /\ UNCHANGED auditOwn
    \/ \E i \in Instances : RoleStep(i) \/ RecordStep(i)

AuditSpec == AuditInit /\ [][AuditNext]_auditVars

\* The pump tries for the role for ever, time passes, and records are asked for
\* again and again; nothing promises that a stopped process comes back.
AuditFairness ==
    /\ WF_auditVars(Lapse /\ UNCHANGED auditOwn)
    /\ \A i \in Instances :
        /\ WF_auditVars(handle[i] = 0 /\ TakeRole(i, TRUE))
        /\ SF_auditVars(Admit(i))
        /\ WF_auditVars(Present(i))
        /\ WF_auditVars(RefuseAppend(i) \/ ExtendChain(i, TRUE))

FairAuditSpec == AuditSpec /\ AuditFairness

-----------------------------------------------------------------------------
(* Type invariant.                                                         *)
AuditTypeOK ==
    /\ LeadershipTypeOK
    /\ up \subseteq Instances
    /\ stage \in [Instances -> {"idle", "admitted", "writing"}]
    /\ pen \in [Instances -> Nat]
    /\ tail \in [Instances -> Nat]
    /\ chain \in Seq(Record)
    /\ doubts \in Nat

(* "A writer with fence token N cannot commit an audit record after a      *)
(* successor holds N+1" (ADR-055), however long it stalled between being   *)
(* admitted and writing.                                                   *)
SupersededWritesNothing ==
    [][chain' # chain =>
          chain' = Append(chain, [position |-> Len(chain) + 1,
                                  token    |-> row.token,
                                  by       |-> row.holder])]_auditVars

(* "The chain cannot fork or skip" (ADR-055): records stand where their    *)
(* writers believed they were writing them.                                *)
ChainNeverForks == \A k \in 1..Len(chain) : chain[k].position = k

(* The records of one term of leadership are all one instance's.           *)
OneWriterPerTerm ==
    \A k, l \in 1..Len(chain) : chain[k].token = chain[l].token => chain[k].by = chain[l].by

(* "A successor then continues the same chain with no repair" (ADR-055):   *)
(* once some instance is up and the leader for good, the audit goes on.    *)
SuccessorContinues ==
    (\E i \in Instances : <>[](i \in up /\ handle[i] # 0 /\ FencedWhere(i, handle[i])))
        => <>(Len(chain) = MaxRecords)

=============================================================================
