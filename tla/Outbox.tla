-------------------------------- MODULE Outbox --------------------------------
(***************************************************************************)
(* The durable outbox of execution events and the publishers that hand its *)
(* entries to a sink, at least once (sql_outbox.py, outbox_publisher.py).  *)
(* A publisher claims a batch for a limited time, hands each entry over,   *)
(* and writes down each definite answer of the sink; an entry whose answer *)
(* is unknown stays pending until its claim lapses.                        *)
(*                                                                         *)
(* Any process may publish: the OUTBOX_PUBLISHER role is renewed between   *)
(* batches only, so it does not keep two batches apart.  A publisher that  *)
(* crashed and one that started in its place are the same publisher here.  *)
(***************************************************************************)
EXTENDS Naturals, FiniteSets

CONSTANTS
    Entries,              \* the events, named by their sequence: naturals
    Publishers,
    Nobody,               \* the claimant of an entry nobody claims
    NoAnswer,             \* what a publisher holds between two deliveries
    Served,               \* the entries of the tenant the publishers' context names
    Malformed,            \* the entries the sink always refuses
    BatchSize,
    MaxPublishAttempts,   \* MAX_PUBLISH_ATTEMPTS
    MaxMishaps            \* bound on crashes, unknown answers and lost writes

Answer == [entry : Served, outcome : {"delivered", "rejected"}]

ASSUME OutboxAssumption ==
    /\ Entries \subseteq Nat
    /\ Served \subseteq Entries /\ Malformed \subseteq Entries
    /\ Nobody \notin Publishers
    /\ NoAnswer \notin Answer
    /\ BatchSize \in Nat \ {0}
    /\ MaxPublishAttempts \in Nat \ {0}
    /\ MaxMishaps \in Nat

VARIABLES
    outbox,     \* outbox[e]: the row of e
    todo,       \* todo[p]: what is left of p's batch
    answer,     \* answer[p]: the answer of the sink that p has to write down
    received,   \* history: the entries the sink took
    refusals,   \* history: how often the sink refused each entry
    mishaps

outboxVars == <<outbox, todo, answer, received, refusals, mishaps>>

OutboxStatus == {"absent", "pending", "published", "abandoned"}
Entry == [status : OutboxStatus, attempts : Nat,
          claimedBy : Publishers \cup {Nobody}, claimLapsed : BOOLEAN]

OutboxInit ==
    /\ outbox = [e \in Entries |->
          [status |-> "absent", attempts |-> 0, claimedBy |-> Nobody, claimLapsed |-> FALSE]]
    /\ todo = [p \in Publishers |-> {}]
    /\ answer = [p \in Publishers |-> NoAnswer]
    /\ received = {}
    /\ refusals = [e \in Entries |-> 0]
    /\ mishaps = 0

Mishap == mishaps < MaxMishaps /\ mishaps' = mishaps + 1

\* Entries are recorded in sequence; one recorded already is refused.
RecordEvent(e) ==
    /\ outbox[e].status = "absent"
    /\ \A d \in Entries : d < e => outbox[d].status # "absent"
    /\ outbox' = [outbox EXCEPT ![e].status = "pending"]
    /\ UNCHANGED <<todo, answer, received, refusals, mishaps>>

\* Mutant: a claim takes the events of every tenant.
ClaimableByAnyone(e) ==
    /\ outbox[e].status = "pending"
    /\ outbox[e].claimedBy = Nobody \/ outbox[e].claimLapsed

\* Mutant: a claim is a flag, not a lease.
ClaimableOnce(e) ==
    /\ e \in Served
    /\ outbox[e].status = "pending"
    /\ outbox[e].claimedBy = Nobody

Claimable(e) ==
    /\ e \in Served
    /\ outbox[e].status = "pending"
    /\ outbox[e].claimedBy = Nobody \/ outbox[e].claimLapsed

\* The oldest BatchSize of them.
Candidates ==
    {e \in Entries :
        /\ Claimable(e)
        /\ Cardinality({d \in Entries : Claimable(d) /\ d < e}) < BatchSize}

Idle(p) == todo[p] = {} /\ answer[p] = NoAnswer

Claim(p) ==
    /\ Idle(p)
    /\ Candidates # {}
    /\ todo' = [todo EXCEPT ![p] = Candidates]
    /\ outbox' = [e \in Entries |->
          IF e \in Candidates
          THEN [outbox[e] EXCEPT !.claimedBy = p, !.claimLapsed = FALSE]
          ELSE outbox[e]]
    /\ UNCHANGED <<answer, received, refusals, mishaps>>

\* The claim is not looked at again: the batch is handed over as it was claimed.
HandOver(p, e) ==
    /\ answer[p] = NoAnswer
    /\ e \in todo[p]
    /\ \A d \in todo[p] : e <= d
    /\ todo' = [todo EXCEPT ![p] = @ \ {e}]
    /\ UNCHANGED outbox

Answered(p, e, outcome) ==
    answer' = [answer EXCEPT ![p] = [entry |-> e, outcome |-> outcome]]

Deliver(p, e) ==
    /\ HandOver(p, e)
    /\ \/ /\ e \notin Malformed
          /\ Answered(p, e, "delivered")
          /\ received' = received \cup {e}
          /\ UNCHANGED refusals
       \/ /\ e \in Malformed
          /\ Answered(p, e, "rejected")
          /\ refusals' = [refusals EXCEPT ![e] = @ + 1]
          /\ UNCHANGED received
    /\ UNCHANGED mishaps

\* The sink took the event, or it did not, and nobody can say.
Unclear(e) ==
    /\ Mishap
    /\ received' \in {received, received \cup ({e} \ Malformed)}
    /\ UNCHANGED refusals

\* Mutant: an unknown answer is a failure like any other.
UnknownIsFailure(p, e) == HandOver(p, e) /\ Unclear(e) /\ Answered(p, e, "rejected")

\* Mutant: an unknown answer is good enough.
UnknownIsDelivery(p, e) == HandOver(p, e) /\ Unclear(e) /\ Answered(p, e, "delivered")

\* Nothing is written: the claim lapses and the entry is handed over again.
Unknown(p, e) == HandOver(p, e) /\ Unclear(e) /\ UNCHANGED answer

Published(row) ==
    [row EXCEPT !.status = "published", !.attempts = @ + 1,
                !.claimedBy = Nobody, !.claimLapsed = FALSE]

\* Mutant: only the failure that reaches the threshold gives the entry up.
FailedAtThreshold(row) ==
    [row EXCEPT !.status = IF row.attempts + 1 = MaxPublishAttempts
                           THEN "abandoned" ELSE "pending",
                !.attempts = @ + 1, !.claimedBy = Nobody, !.claimLapsed = FALSE]

Failed(row) ==
    [row EXCEPT !.status = IF row.attempts + 1 >= MaxPublishAttempts
                           THEN "abandoned" ELSE "pending",
                !.attempts = @ + 1, !.claimedBy = Nobody, !.claimLapsed = FALSE]

NextEntry(p) ==
    /\ answer[p] # NoAnswer
    /\ answer' = [answer EXCEPT ![p] = NoAnswer]
    /\ UNCHANGED <<todo, received, refusals>>

\* Neither write asks who holds the claim, or what became of the entry.
Acknowledge(p) ==
    /\ NextEntry(p)
    /\ outbox' = [outbox EXCEPT ![answer[p].entry] =
          IF answer[p].outcome = "delivered" THEN Published(@) ELSE Failed(@)]
    /\ UNCHANGED mishaps

\* The write fails; the publisher logs it and goes on.
AcknowledgementLost(p) ==
    /\ NextEntry(p)
    /\ Mishap
    /\ UNCHANGED outbox

Crash(p) ==
    /\ ~Idle(p)
    /\ Mishap
    /\ todo' = [todo EXCEPT ![p] = {}]
    /\ answer' = [answer EXCEPT ![p] = NoAnswer]
    /\ UNCHANGED <<outbox, received, refusals>>

\* Time passes.
ClaimLapses(e) ==
    /\ outbox[e].claimedBy # Nobody /\ ~outbox[e].claimLapsed
    /\ outbox' = [outbox EXCEPT ![e].claimLapsed = TRUE]
    /\ UNCHANGED <<todo, answer, received, refusals, mishaps>>

OutboxNext ==
    \/ \E e \in Entries : RecordEvent(e) \/ ClaimLapses(e)
    \/ \E p \in Publishers :
          \/ Claim(p) \/ Acknowledge(p) \/ AcknowledgementLost(p) \/ Crash(p)
          \/ \E e \in Entries : Deliver(p, e) \/ Unknown(p, e)

OutboxSpec == OutboxInit /\ [][OutboxNext]_outboxVars

\* The pump runs for ever in some process; a batch that was begun goes on, and
\* time passes.  Mishaps are finitely many: nothing is asked of them.
OutboxFairness ==
    /\ WF_outboxVars(\E p \in Publishers : Claim(p))
    /\ \A p \in Publishers :
        /\ WF_outboxVars(\E e \in Entries : Deliver(p, e))
        /\ WF_outboxVars(Acknowledge(p))
    /\ \A e \in Entries : WF_outboxVars(ClaimLapses(e))

FairOutboxSpec == OutboxSpec /\ OutboxFairness

-----------------------------------------------------------------------------
(* Type invariant.                                                         *)
OutboxTypeOK ==
    /\ outbox \in [Entries -> Entry]
    /\ todo \in [Publishers -> SUBSET Served]
    /\ answer \in [Publishers -> Answer \cup {NoAnswer}]
    /\ received \subseteq Served
    /\ refusals \in [Entries -> Nat]
    /\ mishaps \in 0..MaxMishaps

(* An event marked published reached the sink: the acknowledgement follows *)
(* the delivery, and an unknown answer is never read as success.           *)
PublishedWasReceived ==
    \A e \in Entries : outbox[e].status = "published" => e \in received

(* An event is given up only after the sink refused it as often as the     *)
(* threshold says, and never one that the sink may have taken.             *)
DeadLettersWereRefused ==
    \A e \in Entries : outbox[e].status = "abandoned" =>
        e \notin received /\ refusals[e] >= MaxPublishAttempts

(* Nothing is published again once it was published, or tried again once   *)
(* it was given up: answers that come late change nothing.                 *)
SettledStaysSettled ==
    [][\A e \in Entries : outbox[e].status \in {"published", "abandoned"} =>
          outbox'[e].status = outbox[e].status]_outboxVars

(* No event of the served tenant is stranded: whatever crashed or was lost *)
(* on the way, each one is published or, if the sink keeps refusing it,    *)
(* given up.                                                               *)
Settles(e) == outbox[e].status = "pending" ~> outbox[e].status \in {"published", "abandoned"}

ServedEventsSettle == \A e \in Served : Settles(e)

=============================================================================
