----------------------------- MODULE OutboxProofs -----------------------------
(***************************************************************************)
(* Proofs about the outbox, for every number of events and publishers and  *)
(* any mishaps.  The invariant ties each answer a publisher has in hand to *)
(* what the sink did: a delivered one was received, a rejected one is      *)
(* malformed.  As the sink never takes what it refuses, an answer that is  *)
(* written late cannot contradict the one that settled the entry.  And as  *)
(* each refusal puts one rejected answer in one hand, the attempts written *)
(* down and the rejections still in hand never outnumber the refusals.     *)
(***************************************************************************)
EXTENDS Outbox, FiniteSetTheorems, TLAPS

AnswersAreTrue ==
    \A p \in Publishers : answer[p] # NoAnswer =>
        IF answer[p].outcome = "delivered"
        THEN answer[p].entry \in received
        ELSE answer[p].entry \in Malformed

RowsAreTrue ==
    \A e \in Entries :
        /\ outbox[e].status = "published" => e \in received
        /\ outbox[e].status = "abandoned" =>
              e \in Malformed /\ outbox[e].attempts >= MaxPublishAttempts

SinkIsConsistent == received \cap Malformed = {}

OutboxInv ==
    /\ OutboxTypeOK
    /\ AnswersAreTrue
    /\ RowsAreTrue
    /\ SinkIsConsistent

USE OutboxAssumption

(* The two writes of an answer.                                            *)
LEMMA PublishedRow ==
    ASSUME NEW r \in Entry
    PROVE  Published(r) \in Entry /\ Published(r).status = "published"
<1>1. r.attempts + 1 \in Nat
  BY DEF Entry
<1> QED BY <1>1 DEF Published, Entry, OutboxStatus

LEMMA FailedRow ==
    ASSUME NEW r \in Entry
    PROVE  /\ Failed(r) \in Entry
           /\ Failed(r).attempts = r.attempts + 1
           /\ Failed(r).status =
                 IF r.attempts + 1 >= MaxPublishAttempts THEN "abandoned" ELSE "pending"
<1> DEFINE s == IF r.attempts + 1 >= MaxPublishAttempts THEN "abandoned" ELSE "pending"
<1>1. r.attempts + 1 \in Nat /\ s \in OutboxStatus
  BY DEF Entry, OutboxStatus
<1>2. Failed(r) = [r EXCEPT !.status = s, !.attempts = r.attempts + 1,
                            !.claimedBy = Nobody, !.claimLapsed = FALSE]
  BY DEF Failed
<1> HIDE DEF s
<1>3. Failed(r) \in Entry /\ Failed(r).attempts = r.attempts + 1 /\ Failed(r).status = s
  BY <1>1, <1>2 DEF Entry
<1> QED BY <1>3 DEF s

(* Acknowledge writes the row of the entry it has the answer for, and no   *)
(* other; what that row becomes is settled by the answer.                  *)
LEMMA AcknowledgeWrites ==
    ASSUME OutboxInv, NEW p \in Publishers, Acknowledge(p)
    PROVE  /\ outbox' \in [Entries -> Entry]
           /\ RowsAreTrue'
           /\ \A e \in Entries : outbox[e].status \in {"published", "abandoned"} =>
                 outbox'[e].status = outbox[e].status
<1> DEFINE x == answer[p].entry
<1>1. answer[p] \in Answer /\ x \in Served /\ x \in Entries
  BY DEF OutboxInv, OutboxTypeOK, Acknowledge, NextEntry, Answer
<1>2. outbox[x] \in Entry
  BY <1>1 DEF OutboxInv, OutboxTypeOK
<1>3. \A e \in Entries : e # x => outbox'[e] = outbox[e]
  BY <1>1 DEF Acknowledge, OutboxInv, OutboxTypeOK
<1>4. received' = received
  BY DEF Acknowledge, NextEntry
<1>5. CASE answer[p].outcome = "delivered"
  <2>1. outbox' = [outbox EXCEPT ![x] = Published(outbox[x])]
    BY <1>5 DEF Acknowledge
  <2>2. Published(outbox[x]) \in Entry /\ Published(outbox[x]).status = "published"
    BY <1>2, PublishedRow
  <2>3. x \in received
    BY <1>5 DEF OutboxInv, AnswersAreTrue, Acknowledge, NextEntry
  <2>4. outbox[x].status # "abandoned"
    BY <1>1, <2>3 DEF OutboxInv, RowsAreTrue, SinkIsConsistent
  <2>5. outbox'[x].status = "published"
    BY <2>1, <2>2, <1>1 DEF OutboxInv, OutboxTypeOK
  <2>6. outbox' \in [Entries -> Entry]
    BY <2>1, <2>2, <1>1 DEF OutboxInv, OutboxTypeOK
  <2>7. RowsAreTrue'
    BY <1>3, <1>4, <2>3, <2>5 DEF OutboxInv, RowsAreTrue
  <2> QED BY <1>3, <2>4, <2>5, <2>6, <2>7
<1>6. CASE answer[p].outcome = "rejected"
  <2>1. outbox' = [outbox EXCEPT ![x] = Failed(outbox[x])]
    BY <1>6 DEF Acknowledge
  <2>2. /\ Failed(outbox[x]) \in Entry
        /\ Failed(outbox[x]).attempts = outbox[x].attempts + 1
        /\ Failed(outbox[x]).status \in {"pending", "abandoned"}
        /\ Failed(outbox[x]).status = "abandoned" <=>
              outbox[x].attempts + 1 >= MaxPublishAttempts
    BY <1>2, FailedRow
  <2>3. x \in Malformed
    BY <1>6 DEF OutboxInv, AnswersAreTrue, Acknowledge, NextEntry
  <2>4. outbox[x].status # "published"
    BY <1>1, <2>3 DEF OutboxInv, RowsAreTrue, SinkIsConsistent
  <2>5. outbox'[x] = Failed(outbox[x])
    BY <2>1, <1>1 DEF OutboxInv, OutboxTypeOK
  <2>6. outbox' \in [Entries -> Entry]
    BY <2>1, <2>2, <1>1 DEF OutboxInv, OutboxTypeOK
  <2>7. outbox[x].attempts \in Nat
    BY <1>2 DEF Entry
  <2>8. RowsAreTrue'
    BY <1>3, <1>4, <2>2, <2>3, <2>5, <2>7 DEF OutboxInv, RowsAreTrue
  <2>9. ASSUME outbox[x].status = "abandoned"
        PROVE  outbox'[x].status = "abandoned"
    <3>1. outbox[x].attempts >= MaxPublishAttempts
      BY <1>1, <2>9 DEF OutboxInv, RowsAreTrue
    <3>2. outbox[x].attempts + 1 >= MaxPublishAttempts
      BY <2>7, <3>1, OutboxAssumption
    <3> QED BY <2>2, <2>5, <3>2
  <2> QED BY <1>3, <2>4, <2>6, <2>8, <2>9
<1> QED BY <1>1, <1>5, <1>6 DEF Answer

LEMMA MishapsBounded ==
    ASSUME mishaps \in 0..MaxMishaps, Mishap
    PROVE  mishaps' \in 0..MaxMishaps
<1>1. MaxMishaps \in Nat /\ mishaps \in Nat
  BY OutboxAssumption
<1> QED BY <1>1 DEF Mishap

LEMMA OutboxInvInit == OutboxInit => OutboxInv
BY DEF OutboxInit, OutboxInv, OutboxTypeOK, AnswersAreTrue, RowsAreTrue,
       SinkIsConsistent, Entry, OutboxStatus

(* What a step does to the entries that are settled, with the invariant.   *)
LEMMA OutboxStep ==
    ASSUME OutboxInv, OutboxNext
    PROVE  /\ OutboxInv'
           /\ \A e \in Entries : outbox[e].status \in {"published", "abandoned"} =>
                 outbox'[e].status = outbox[e].status
<1> USE DEF OutboxInv
<1>1. ASSUME NEW d \in Entries, RecordEvent(d)
      PROVE  /\ OutboxInv'
             /\ \A e \in Entries : outbox[e].status \in {"published", "abandoned"} =>
                   outbox'[e].status = outbox[e].status
  <2>1. /\ outbox[d] \in Entry /\ outbox[d].status = "absent"
        /\ outbox' = [outbox EXCEPT ![d] = [outbox[d] EXCEPT !.status = "pending"]]
    BY <1>1 DEF RecordEvent, OutboxTypeOK
  <2>2. /\ [outbox[d] EXCEPT !.status = "pending"] \in Entry
        /\ [outbox[d] EXCEPT !.status = "pending"].status = "pending"
    BY <2>1 DEF Entry, OutboxStatus
  <2>3. /\ outbox' \in [Entries -> Entry]
        /\ outbox'[d].status = "pending"
        /\ \A e \in Entries : e # d => outbox'[e] = outbox[e]
    BY <2>1, <2>2 DEF OutboxTypeOK
  <2>4. OutboxTypeOK'
    BY <1>1, <2>3 DEF RecordEvent, OutboxTypeOK
  <2>5. AnswersAreTrue' /\ RowsAreTrue' /\ SinkIsConsistent'
    BY <1>1, <2>3 DEF RecordEvent, AnswersAreTrue, RowsAreTrue, SinkIsConsistent
  <2> QED BY <2>1, <2>3, <2>4, <2>5
<1>2. ASSUME NEW d \in Entries, ClaimLapses(d)
      PROVE  /\ OutboxInv'
             /\ \A e \in Entries : outbox'[e].status = outbox[e].status
  <2>1. /\ outbox[d] \in Entry
        /\ outbox' = [outbox EXCEPT ![d] = [outbox[d] EXCEPT !.claimLapsed = TRUE]]
    BY <1>2 DEF ClaimLapses, OutboxTypeOK
  <2>2. /\ [outbox[d] EXCEPT !.claimLapsed = TRUE] \in Entry
        /\ [outbox[d] EXCEPT !.claimLapsed = TRUE].status = outbox[d].status
        /\ [outbox[d] EXCEPT !.claimLapsed = TRUE].attempts = outbox[d].attempts
    BY <2>1 DEF Entry
  <2>3. /\ outbox' \in [Entries -> Entry]
        /\ \A e \in Entries : /\ outbox'[e].status = outbox[e].status
                               /\ outbox'[e].attempts = outbox[e].attempts
    BY <2>1, <2>2 DEF OutboxTypeOK
  <2>4. OutboxTypeOK'
    BY <1>2, <2>3 DEF ClaimLapses, OutboxTypeOK
  <2>5. AnswersAreTrue' /\ RowsAreTrue' /\ SinkIsConsistent'
    BY <1>2, <2>3 DEF ClaimLapses, AnswersAreTrue, RowsAreTrue, SinkIsConsistent
  <2> QED BY <2>3, <2>4, <2>5
<1>3. ASSUME NEW p \in Publishers, Claim(p)
      PROVE  /\ OutboxInv'
             /\ \A e \in Entries : outbox'[e].status = outbox[e].status
  <2>1. Candidates \subseteq Served
    BY DEF Candidates, Claimable
  <2>2. \A e \in Entries :
          /\ outbox'[e] \in Entry
          /\ outbox'[e].status = outbox[e].status
          /\ outbox'[e].attempts = outbox[e].attempts
    BY <1>3 DEF Claim, OutboxTypeOK, Entry
  <2>3. OutboxTypeOK'
    BY <1>3, <2>1, <2>2 DEF Claim, OutboxTypeOK
  <2>4. AnswersAreTrue' /\ RowsAreTrue' /\ SinkIsConsistent'
    BY <1>3, <2>2 DEF Claim, AnswersAreTrue, RowsAreTrue, SinkIsConsistent
  <2> QED BY <2>2, <2>3, <2>4
<1>4. ASSUME NEW p \in Publishers, Acknowledge(p)
      PROVE  OutboxInv'
  <2>1. OutboxTypeOK'
    BY <1>4, AcknowledgeWrites DEF Acknowledge, NextEntry, OutboxTypeOK
  <2>2. AnswersAreTrue' /\ SinkIsConsistent'
    BY <1>4 DEF Acknowledge, NextEntry, AnswersAreTrue, SinkIsConsistent, OutboxTypeOK
  <2> QED BY <1>4, <2>1, <2>2, AcknowledgeWrites
<1>5. ASSUME NEW p \in Publishers, AcknowledgementLost(p) \/ Crash(p)
      PROVE  OutboxInv' /\ UNCHANGED outbox
  <2>1. OutboxTypeOK'
    <3>1. mishaps' \in 0..MaxMishaps
      BY <1>5, MishapsBounded DEF AcknowledgementLost, Crash, OutboxTypeOK
    <3> QED BY <1>5, <3>1 DEF AcknowledgementLost, Crash, NextEntry, OutboxTypeOK
  <2>2. AnswersAreTrue' /\ RowsAreTrue' /\ SinkIsConsistent' /\ UNCHANGED outbox
    BY <1>5 DEF AcknowledgementLost, Crash, NextEntry, AnswersAreTrue, RowsAreTrue,
                SinkIsConsistent, OutboxTypeOK
  <2> QED BY <2>1, <2>2
<1>6. ASSUME NEW p \in Publishers, NEW e \in Entries, Deliver(p, e)
      PROVE  OutboxInv' /\ UNCHANGED outbox
  <2>1. e \in Served
    BY <1>6 DEF Deliver, HandOver, OutboxTypeOK
  <2>2. [entry |-> e, outcome |-> "delivered"] \in Answer
        /\ [entry |-> e, outcome |-> "rejected"] \in Answer
    BY <2>1 DEF Answer
  <2>3. OutboxTypeOK'
    <3>1. /\ outbox' = outbox /\ mishaps' = mishaps
          /\ todo' = [todo EXCEPT ![p] = todo[p] \ {e}]
      BY <1>6 DEF Deliver, HandOver
    <3>2. answer' \in [Publishers -> Answer \cup {NoAnswer}]
      BY <1>6, <2>2 DEF Deliver, Answered, OutboxTypeOK
    <3>3. received' \subseteq Served
      BY <1>6, <2>1 DEF Deliver, OutboxTypeOK
    <3>4. refusals' \in [Entries -> Nat]
      <4>1. refusals[e] + 1 \in Nat
        BY DEF OutboxTypeOK
      <4> QED BY <1>6, <4>1 DEF Deliver, OutboxTypeOK
    <3> QED BY <3>1, <3>2, <3>3, <3>4 DEF OutboxTypeOK
  <2>4. AnswersAreTrue'
    BY <1>6 DEF Deliver, HandOver, Answered, AnswersAreTrue, OutboxTypeOK
  <2>5. RowsAreTrue' /\ SinkIsConsistent' /\ UNCHANGED outbox
    BY <1>6 DEF Deliver, HandOver, RowsAreTrue, SinkIsConsistent
  <2> QED BY <2>3, <2>4, <2>5
<1>7. ASSUME NEW p \in Publishers, NEW e \in Entries, Unknown(p, e)
      PROVE  OutboxInv' /\ UNCHANGED outbox
  <2>1. e \in Served
    BY <1>7 DEF Unknown, HandOver, OutboxTypeOK
  <2>2. OutboxTypeOK'
    <3>1. mishaps' \in 0..MaxMishaps
      BY <1>7, MishapsBounded DEF Unknown, Unclear, OutboxTypeOK
    <3> QED BY <1>7, <2>1, <3>1 DEF Unknown, HandOver, Unclear, OutboxTypeOK
  <2>3. AnswersAreTrue' /\ RowsAreTrue' /\ SinkIsConsistent' /\ UNCHANGED outbox
    BY <1>7 DEF Unknown, HandOver, Unclear, AnswersAreTrue, RowsAreTrue, SinkIsConsistent
  <2> QED BY <2>2, <2>3
<1> QED BY <1>1, <1>2, <1>3, <1>4, <1>5, <1>6, <1>7, AcknowledgeWrites DEF OutboxNext

LEMMA OutboxStutter == OutboxInv /\ UNCHANGED outboxVars => OutboxInv'
BY DEF OutboxInv, outboxVars, OutboxTypeOK, AnswersAreTrue, RowsAreTrue, SinkIsConsistent

LEMMA OutboxInvariant == OutboxSpec => []OutboxInv
<1>1. OutboxInv /\ [OutboxNext]_outboxVars => OutboxInv'
  BY OutboxStep, OutboxStutter
<1> QED BY <1>1, OutboxInvInit, PTL DEF OutboxSpec

-----------------------------------------------------------------------------
(* The refusals behind the attempts.                                       *)

Rejecting(e) ==
    {p \in Publishers : /\ answer[p] # NoAnswer
                        /\ answer[p].entry = e
                        /\ answer[p].outcome = "rejected"}

Covered(e) ==
    /\ IsFiniteSet(Rejecting(e))
    /\ e \in Malformed => outbox[e].attempts + Cardinality(Rejecting(e)) <= refusals[e]

RefusalsCover == \A e \in Entries : Covered(e)

(* An entry whose attempts and refusals stay is still covered when answers *)
(* about it leave the hands they were in.                                  *)
LEMMA FewerRejections ==
    ASSUME OutboxInv, NEW e \in Entries, Covered(e),
           Rejecting(e)' \subseteq Rejecting(e),
           outbox'[e].attempts = outbox[e].attempts,
           refusals'[e] = refusals[e]
    PROVE  Covered(e)'
<1>1. /\ IsFiniteSet(Rejecting(e)')
      /\ Cardinality(Rejecting(e)') <= Cardinality(Rejecting(e))
  BY FS_Subset DEF Covered
<1>2. Cardinality(Rejecting(e)') \in Nat /\ Cardinality(Rejecting(e)) \in Nat
  BY <1>1, FS_CardinalityType DEF Covered
<1>3. outbox[e].attempts \in Nat /\ refusals[e] \in Nat
  BY DEF OutboxInv, OutboxTypeOK, Entry
<1>4. \A a, c, d, r \in Nat : a + c <= r /\ d <= c => a + d <= r
  OBVIOUS
<1>5. e \in Malformed => outbox[e].attempts + Cardinality(Rejecting(e)') <= refusals[e]
  BY <1>1, <1>2, <1>3, <1>4 DEF Covered
<1> QED BY <1>1, <1>5 DEF Covered

(* A rejected answer that is written down moves from a hand to the row.    *)
LEMMA RejectionWritten ==
    ASSUME OutboxInv, RefusalsCover, NEW p \in Publishers, Acknowledge(p)
    PROVE  RefusalsCover'
<1>1. answer[p] # NoAnswer
  BY DEF Acknowledge, NextEntry
<1>2. PICK x \in Entries : x = answer[p].entry
  BY <1>1 DEF OutboxInv, OutboxTypeOK, Answer
<1>3. answer[p].outcome \in {"delivered", "rejected"}
  BY <1>1 DEF OutboxInv, OutboxTypeOK, Answer
<1>4. refusals' = refusals
  BY DEF Acknowledge, NextEntry
<1>5. \A e \in Entries : Rejecting(e)' = Rejecting(e) \ {p}
  BY DEF Acknowledge, NextEntry, Rejecting, OutboxInv, OutboxTypeOK
<1>6. \A e \in Entries : e # x => outbox'[e] = outbox[e]
  BY <1>2 DEF Acknowledge, OutboxInv, OutboxTypeOK
<1>7. ASSUME NEW e \in Entries, e # x PROVE Covered(e)'
  BY <1>4, <1>5, <1>6, <1>7, FewerRejections DEF RefusalsCover
<1>8. Covered(x)'
  <2>1. Covered(x)
    BY DEF RefusalsCover
  <2>2. IsFiniteSet(Rejecting(x)')
    BY <1>5, <2>1, FS_Subset DEF Covered
  <2>3. ASSUME x \in Malformed
        PROVE  outbox'[x].attempts + Cardinality(Rejecting(x)') <= refusals'[x]
    <3>1. answer[p].outcome = "rejected"
      BY <1>1, <1>2, <1>3, <2>3 DEF OutboxInv, AnswersAreTrue, SinkIsConsistent
    <3>2. p \in Rejecting(x)
      BY <1>1, <1>2, <3>1 DEF Rejecting
    <3>3. Cardinality(Rejecting(x)') = Cardinality(Rejecting(x)) - 1
      BY <1>5, <2>1, <3>2, FS_RemoveElement DEF Covered
    <3>4. outbox[x] \in Entry
      BY DEF OutboxInv, OutboxTypeOK
    <3>5. outbox'[x] = Failed(outbox[x])
      BY <1>2, <3>1 DEF Acknowledge, OutboxInv, OutboxTypeOK
    <3>6. outbox'[x].attempts = outbox[x].attempts + 1
      BY <3>4, <3>5, FailedRow
    <3>7. /\ outbox[x].attempts \in Nat
          /\ Cardinality(Rejecting(x)) \in Nat
          /\ refusals[x] \in Nat
      BY <2>1, <3>4, FS_CardinalityType DEF Covered, Entry, OutboxInv, OutboxTypeOK
    <3>8. \A a, c, r \in Nat : a + c <= r => (a + 1) + (c - 1) <= r
      OBVIOUS
    <3>9. outbox[x].attempts + Cardinality(Rejecting(x)) <= refusals[x]
      BY <2>1, <2>3 DEF Covered
    <3> QED BY <1>4, <3>3, <3>6, <3>7, <3>8, <3>9
  <2> QED BY <2>2, <2>3 DEF Covered
<1> QED BY <1>7, <1>8 DEF RefusalsCover

(* A refusal is counted when its answer comes to hand.                     *)
LEMMA RejectionHeard ==
    ASSUME OutboxInv, RefusalsCover, NEW p \in Publishers, NEW x \in Entries, Deliver(p, x)
    PROVE  RefusalsCover'
<1>1. outbox' = outbox /\ answer[p] = NoAnswer /\ x \in Served
  BY DEF Deliver, HandOver, OutboxInv, OutboxTypeOK
<1>2. \A o \in {"delivered", "rejected"} :
         /\ [entry |-> x, outcome |-> o] # NoAnswer
         /\ [entry |-> x, outcome |-> o].entry = x
         /\ [entry |-> x, outcome |-> o].outcome = o
  BY <1>1 DEF Answer
<1>3. CASE x \notin Malformed
  <2>1. /\ refusals' = refusals
        /\ answer' = [answer EXCEPT ![p] = [entry |-> x, outcome |-> "delivered"]]
    BY <1>3 DEF Deliver, Answered
  <2>2. \A e \in Entries : Rejecting(e)' \subseteq Rejecting(e)
    BY <1>2, <2>1 DEF Rejecting, OutboxInv, OutboxTypeOK
  <2> QED BY <1>1, <2>1, <2>2, FewerRejections DEF RefusalsCover
<1>4. CASE x \in Malformed
  <2>1. /\ refusals' = [refusals EXCEPT ![x] = refusals[x] + 1]
        /\ answer' = [answer EXCEPT ![p] = [entry |-> x, outcome |-> "rejected"]]
    BY <1>4 DEF Deliver, Answered
  <2>2. /\ Rejecting(x)' = Rejecting(x) \cup {p}
        /\ p \notin Rejecting(x)
    BY <1>1, <1>2, <2>1 DEF Rejecting, OutboxInv, OutboxTypeOK
  <2>3. \A e \in Entries : e # x => Rejecting(e)' = Rejecting(e)
    BY <1>1, <1>2, <2>1 DEF Rejecting, OutboxInv, OutboxTypeOK
  <2>4. ASSUME NEW e \in Entries, e # x PROVE Covered(e)'
    <3>1. refusals'[e] = refusals[e]
      BY <2>1, <2>4 DEF OutboxInv, OutboxTypeOK
    <3> QED BY <1>1, <2>3, <2>4, <3>1, FewerRejections DEF RefusalsCover
  <2>5. Covered(x)'
    <3>1. Covered(x)
      BY DEF RefusalsCover
    <3>2. /\ IsFiniteSet(Rejecting(x)')
          /\ Cardinality(Rejecting(x)') = Cardinality(Rejecting(x)) + 1
      BY <2>2, <3>1, FS_AddElement DEF Covered
    <3>3. refusals'[x] = refusals[x] + 1
      BY <2>1 DEF OutboxInv, OutboxTypeOK
    <3>4. /\ outbox[x].attempts \in Nat
          /\ Cardinality(Rejecting(x)) \in Nat
          /\ refusals[x] \in Nat
      BY <3>1, FS_CardinalityType DEF Covered, Entry, OutboxInv, OutboxTypeOK
    <3>5. \A a, c, r \in Nat : a + c <= r => a + (c + 1) <= r + 1
      OBVIOUS
    <3>6. outbox[x].attempts + Cardinality(Rejecting(x)) <= refusals[x]
      BY <1>4, <3>1 DEF Covered
    <3>7. outbox[x].attempts + (Cardinality(Rejecting(x)) + 1) <= refusals[x] + 1
      BY <3>4, <3>5, <3>6
    <3>8. outbox'[x].attempts + Cardinality(Rejecting(x)') <= refusals'[x]
      BY <1>1, <3>2, <3>3, <3>7
    <3> QED BY <3>2, <3>8 DEF Covered
  <2> QED BY <2>4, <2>5 DEF RefusalsCover
<1> QED BY <1>3, <1>4

(* Every other step leaves attempts and refusals alone, and hands over no  *)
(* answer.                                                                 *)
LEMMA RefusalsCoverStep ==
    ASSUME OutboxInv, RefusalsCover, OutboxNext
    PROVE  RefusalsCover'
<1>1. ASSUME /\ \A e \in Entries : outbox'[e].attempts = outbox[e].attempts
             /\ \A q \in Publishers : answer'[q] \in {answer[q], NoAnswer}
             /\ refusals' = refusals
      PROVE  RefusalsCover'
  <2>1. \A e \in Entries : Rejecting(e)' \subseteq Rejecting(e)
    BY <1>1 DEF Rejecting
  <2> QED BY <1>1, <2>1, FewerRejections DEF RefusalsCover
<1>2. ASSUME NEW d \in Entries, RecordEvent(d) \/ ClaimLapses(d) PROVE RefusalsCover'
  <2>1. outbox[d] \in Entry
    BY DEF OutboxInv, OutboxTypeOK
  <2>2. /\ [outbox[d] EXCEPT !.status = "pending"].attempts = outbox[d].attempts
        /\ [outbox[d] EXCEPT !.claimLapsed = TRUE].attempts = outbox[d].attempts
    BY <2>1 DEF Entry
  <2>3. \A e \in Entries : outbox'[e].attempts = outbox[e].attempts
    BY <1>2, <2>2 DEF RecordEvent, ClaimLapses, OutboxInv, OutboxTypeOK
  <2> QED BY <1>1, <1>2, <2>3 DEF RecordEvent, ClaimLapses
<1>3. ASSUME NEW p \in Publishers, Claim(p) PROVE RefusalsCover'
  <2>1. \A e \in Entries : outbox'[e].attempts = outbox[e].attempts
    BY <1>3 DEF Claim, OutboxInv, OutboxTypeOK, Entry
  <2> QED BY <1>1, <1>3, <2>1 DEF Claim
<1>4. ASSUME NEW p \in Publishers, AcknowledgementLost(p) \/ Crash(p) PROVE RefusalsCover'
  <2>1. \A q \in Publishers : answer'[q] \in {answer[q], NoAnswer}
    BY <1>4 DEF AcknowledgementLost, NextEntry, Crash, OutboxInv, OutboxTypeOK
  <2> QED BY <1>1, <1>4, <2>1 DEF AcknowledgementLost, NextEntry, Crash
<1>5. ASSUME NEW p \in Publishers, NEW e \in Entries, Unknown(p, e) PROVE RefusalsCover'
  BY <1>1, <1>5 DEF Unknown, HandOver, Unclear
<1> QED
  BY <1>2, <1>3, <1>4, <1>5, RejectionWritten, RejectionHeard DEF OutboxNext

LEMMA RefusalsCoverInit == OutboxInit => RefusalsCover
<1> SUFFICES ASSUME OutboxInit, NEW e \in Entries PROVE Covered(e)
  BY DEF RefusalsCover
<1>1. Rejecting(e) = {}
  BY DEF OutboxInit, Rejecting
<1>2. IsFiniteSet({}) /\ Cardinality({}) = 0
  BY FS_EmptySet
<1> QED BY <1>1, <1>2 DEF OutboxInit, Covered

LEMMA RefusalsInvariant == OutboxSpec => [](OutboxInv /\ RefusalsCover)
<1>1. OutboxInv /\ RefusalsCover /\ [OutboxNext]_outboxVars => RefusalsCover'
  <2>1. OutboxInv /\ RefusalsCover /\ UNCHANGED outboxVars => RefusalsCover'
    BY DEF outboxVars, RefusalsCover, Covered, Rejecting
  <2> QED BY <2>1, RefusalsCoverStep
<1> QED BY <1>1, RefusalsCoverInit, OutboxInvariant, PTL DEF OutboxSpec

(* Every variable has its type, whatever was claimed, lost or crashed.     *)
THEOREM OutboxTypeCorrect == OutboxSpec => []OutboxTypeOK
<1>1. OutboxInv => OutboxTypeOK
  BY DEF OutboxInv
<1> QED BY <1>1, OutboxInvariant, PTL

(* An event is given up only after as many refusals as the threshold says, *)
(* and never one the sink may have taken.                                  *)
THEOREM OnlyTheRefusedAreGivenUp == OutboxSpec => []DeadLettersWereRefused
<1>1. ASSUME OutboxInv, RefusalsCover, NEW e \in Entries, outbox[e].status = "abandoned"
      PROVE  e \notin received /\ refusals[e] >= MaxPublishAttempts
  <2>1. e \in Malformed /\ outbox[e].attempts >= MaxPublishAttempts
    BY <1>1 DEF OutboxInv, RowsAreTrue
  <2>2. e \notin received
    BY <1>1, <2>1 DEF OutboxInv, SinkIsConsistent
  <2>3. /\ outbox[e].attempts + Cardinality(Rejecting(e)) <= refusals[e]
        /\ Cardinality(Rejecting(e)) \in Nat
    BY <1>1, <2>1, FS_CardinalityType DEF RefusalsCover, Covered
  <2>4. outbox[e].attempts \in Nat /\ refusals[e] \in Nat
    BY <1>1 DEF OutboxInv, OutboxTypeOK, Entry
  <2>5. \A a, c, r, m \in Nat : a + c <= r /\ a >= m => r >= m
    OBVIOUS
  <2>6. MaxPublishAttempts \in Nat
    OBVIOUS
  <2> QED BY <2>1, <2>2, <2>3, <2>4, <2>5, <2>6
<1>2. OutboxInv /\ RefusalsCover => DeadLettersWereRefused
  BY <1>1 DEF DeadLettersWereRefused
<1> QED BY <1>2, RefusalsInvariant, PTL

(* An event marked published reached the sink.                             *)
THEOREM PublishedReachedTheSink == OutboxSpec => []PublishedWasReceived
<1>1. OutboxInv => PublishedWasReceived
  BY DEF OutboxInv, RowsAreTrue, PublishedWasReceived
<1> QED BY <1>1, OutboxInvariant, PTL

(* What is published or given up stays so, whatever answers come late.     *)
THEOREM LateAnswersChangeNothing == OutboxSpec => SettledStaysSettled
<1> DEFINE Kept ==
      \A e \in Entries : outbox[e].status \in {"published", "abandoned"} =>
          outbox'[e].status = outbox[e].status
<1>1. OutboxInv /\ [OutboxNext]_outboxVars => [Kept]_outboxVars
  BY OutboxStep
<1> QED BY <1>1, OutboxInvariant, PTL DEF OutboxSpec, SettledStaysSettled

=============================================================================
