---------------------------- MODULE OutboxProofs ----------------------------
(***************************************************************************)
(* Proofs about Outbox for every set of messages, producers and drainers,  *)
(* every batch size and every bound on the injected faults.                *)
(***************************************************************************)
EXTENDS Outbox, TLAPS

\* What the table, the batches and the open marks owe to the consumer. The
\* batch and the marks of a drainer are the links of the induction: a row is
\* selected from committed rows only, and marked only after it was delivered.
Custody ==
  /\ marked \subseteq delivered
  /\ delivered \subseteq table
  /\ \A d \in Drainers :
       /\ batch[d] \subseteq table
       /\ pending[d] \subseteq delivered
       /\ row[d] # None => row[d] \in delivered

\* The rows a drainer's SELECT saw that are older than one it still has to
\* publish are delivered already or in the batch too.
OlderFirst ==
  \A d \in Drainers :
    /\ seen[d] \subseteq Messages
    /\ \A m \in batch[d] : \A n \in seen[d] :
         OccurredAt[n] < OccurredAt[m] => n \in delivered \/ n \in batch[d]

\* One drainer, and nothing that raises or dies.
Undisturbed ==
  /\ failures = 0
  /\ Poison \cap table = {}
  /\ \A d, e \in Drainers : d = e

\* Undisturbed, the drainer's marks account for everything delivered, so no row
\* it may select was delivered before.
Accounted ==
  Undisturbed =>
    /\ redelivered = {}
    /\ \A d \in Drainers :
         /\ pc[d] # "raised"
         /\ delivered \subseteq marked \cup pending[d] \cup {row[d]}
         /\ batch[d] \cap delivered = {}

-----------------------------------------------------------------------------
(* Type correctness *)

LEMMA InitType == Init => TypeOK
  BY OutboxAssumption DEF Init, TypeOK

LEMMA NextType == TypeOK /\ [Next]_vars => TypeOK'
<1> SUFFICES ASSUME TypeOK, [Next]_vars PROVE TypeOK'
  OBVIOUS
<1> USE OutboxAssumption DEF TypeOK
<1>1. CASE UNCHANGED vars
  BY <1>1 DEF vars, tableVars, drainerVars, observerVars
<1>2. ASSUME NEW p \in Producers, ProducerStep(p) PROVE TypeOK'
  <2>1. ASSUME NEW m \in Messages, Record(p, m) PROVE TypeOK'
    BY <2>1 DEF Record, tableVars, drainerVars, observerVars
  <2>2. ASSUME NEW m \in Messages, RecordDuplicate(p, m) PROVE TypeOK'
    BY <2>2 DEF RecordDuplicate, tableVars, drainerVars, observerVars
  <2>3. CASE ProducerCommit(p)
    BY <2>3 DEF ProducerCommit, drainerVars, observerVars
  <2>4. CASE ProducerAbort(p)
    BY <2>4 DEF ProducerAbort, tableVars, drainerVars, observerVars
  <2> QED BY <1>2, <2>1, <2>2, <2>3, <2>4 DEF ProducerStep
<1>3. ASSUME NEW d \in Drainers, DrainerStep(d) PROVE TypeOK'
  <2>1. CASE Select(d)
    BY <2>1 DEF Select, IsOldest, Unpublished, tableVars, observerVars
  <2>2. ASSUME NEW m \in Messages, Publish(d, m) PROVE TypeOK'
    BY <2>2 DEF Publish, IsHead, Deliver, tableVars
  <2>3. CASE Mark(d)
    BY <2>3 DEF Mark, tableVars, observerVars
  <2>4. CASE Commit(d)
    BY <2>4 DEF Commit, observerVars
  <2> QED BY <1>3, <2>1, <2>2, <2>3, <2>4 DEF DrainerStep
<1>4. ASSUME NEW d \in Drainers, Fault(d) PROVE TypeOK'
  <2>1. ASSUME NEW m \in Messages, PublishRaises(d, m) PROVE TypeOK'
    BY <2>1 DEF PublishRaises, IsHead, Deliver, tableVars, observerVars
  <2>2. CASE MarkRaises(d)
    BY <2>2 DEF MarkRaises, tableVars, observerVars
  <2>3. CASE Rollback(d)
    BY <2>3 DEF Rollback, Forget, tableVars, observerVars
  <2>4. CASE Crash(d)
    BY <2>4 DEF Crash, Forget, tableVars, observerVars
  <2> QED BY <1>4, <2>1, <2>2, <2>3, <2>4 DEF Fault
<1> QED BY <1>1, <1>2, <1>3, <1>4 DEF Next

\* Every variable keeps its type, and no drain() call leaves a batch, a row or
\* an open transaction behind.
THEOREM TypeCorrect == Spec => []TypeOK
  BY InitType, NextType, PTL DEF Spec

-----------------------------------------------------------------------------
(* Custody: what is marked was delivered, what is delivered is committed *)

LEMMA InitCustody == Init => Custody
  BY OutboxAssumption DEF Init, Custody

LEMMA NextCustody == TypeOK /\ Custody /\ [Next]_vars => Custody'
<1> SUFFICES ASSUME TypeOK, Custody, [Next]_vars PROVE Custody'
  OBVIOUS
<1> USE OutboxAssumption DEF TypeOK, Custody
<1>1. CASE UNCHANGED vars
  BY <1>1 DEF vars, tableVars, drainerVars, observerVars
<1>2. ASSUME NEW p \in Producers, ProducerStep(p) PROVE Custody'
  <2>1. ASSUME NEW m \in Messages, Record(p, m) PROVE Custody'
    BY <2>1 DEF Record, tableVars, drainerVars, observerVars
  <2>2. ASSUME NEW m \in Messages, RecordDuplicate(p, m) PROVE Custody'
    BY <2>2 DEF RecordDuplicate, tableVars, drainerVars, observerVars
  <2>3. CASE ProducerCommit(p)
    BY <2>3 DEF ProducerCommit, drainerVars, observerVars
  <2>4. CASE ProducerAbort(p)
    BY <2>4 DEF ProducerAbort, tableVars, drainerVars, observerVars
  <2> QED BY <1>2, <2>1, <2>2, <2>3, <2>4 DEF ProducerStep
<1>3. ASSUME NEW d \in Drainers, DrainerStep(d) PROVE Custody'
  <2>1. CASE Select(d)
    BY <2>1 DEF Select, IsOldest, Unpublished, tableVars, observerVars
  <2>2. ASSUME NEW m \in Messages, Publish(d, m) PROVE Custody'
    BY <2>2 DEF Publish, IsHead, Deliver, tableVars
  <2>3. CASE Mark(d)
    BY <2>3 DEF Mark, tableVars, observerVars
  <2>4. CASE Commit(d)
    BY <2>4 DEF Commit, observerVars
  <2> QED BY <1>3, <2>1, <2>2, <2>3, <2>4 DEF DrainerStep
<1>4. ASSUME NEW d \in Drainers, Fault(d) PROVE Custody'
  <2>1. ASSUME NEW m \in Messages, PublishRaises(d, m) PROVE Custody'
    BY <2>1 DEF PublishRaises, IsHead, Deliver, tableVars, observerVars
  <2>2. CASE MarkRaises(d)
    BY <2>2 DEF MarkRaises, tableVars, observerVars
  <2>3. CASE Rollback(d)
    BY <2>3 DEF Rollback, Forget, tableVars, observerVars
  <2>4. CASE Crash(d)
    BY <2>4 DEF Crash, Forget, tableVars, observerVars
  <2> QED BY <1>4, <2>1, <2>2, <2>3, <2>4 DEF Fault
<1> QED BY <1>1, <1>2, <1>3, <1>4 DEF Next

LEMMA CustodyInvariant == Spec => [](TypeOK /\ Custody)
  BY InitType, NextType, InitCustody, NextCustody, PTL DEF Spec

\* Whatever drainers race, crash or raise: a durable mark means the message was
\* delivered, and nothing uncommitted is ever delivered.
THEOREM MarkedMeansDelivered == Spec => []AtLeastOnce
<1>1. Custody => AtLeastOnce
  BY DEF Custody, AtLeastOnce, RD!AtLeastOnce
<1> QED BY <1>1, CustodyInvariant, PTL

-----------------------------------------------------------------------------
(* Action properties *)

\* Committed rows and durable marks are never taken back.
THEOREM MarksStay == Spec => MarksAreFinal
<1>1. [Next]_vars => [table \subseteq table' /\ marked \subseteq marked']_vars
  <2> SUFFICES ASSUME [Next]_vars
               PROVE  [table \subseteq table' /\ marked \subseteq marked']_vars
    OBVIOUS
  <2>1. ASSUME NEW p \in Producers, ProducerStep(p)
        PROVE  table \subseteq table' /\ marked \subseteq marked'
    BY <2>1 DEF ProducerStep, Record, RecordDuplicate, ProducerCommit,
                ProducerAbort, tableVars
  <2>2. ASSUME NEW d \in Drainers, DrainerStep(d)
        PROVE  table \subseteq table' /\ marked \subseteq marked'
    BY <2>2 DEF DrainerStep, Select, Publish, Mark, Commit, tableVars
  <2>3. ASSUME NEW d \in Drainers, Fault(d)
        PROVE  table \subseteq table' /\ marked \subseteq marked'
    BY <2>3 DEF Fault, PublishRaises, MarkRaises, Rollback, Crash, Forget, tableVars
  <2> QED BY <2>1, <2>2, <2>3 DEF Next
<1> QED BY <1>1, PTL DEF Spec, MarksAreFinal

-----------------------------------------------------------------------------
(* Refinement of ReliableDelivery *)

\* The outbox implements reliable delivery: each of its steps makes facts of a
\* transaction's messages, delivers a fact, acknowledges delivered facts, or is
\* invisible.
THEOREM OutboxImplementsReliableDelivery == Spec => RefinesReliableDelivery
<1>1. Init => RD!Init
  BY DEF Init, RD!Init
<1>2. TypeOK /\ Custody /\ [Next]_vars => [RD!Next]_(RD!abstractVars)
  <2> SUFFICES ASSUME TypeOK, Custody, [Next]_vars
               PROVE  RD!Next \/ UNCHANGED <<table, delivered, marked>>
    BY DEF RD!abstractVars
  <2>1. CASE UNCHANGED vars
    BY <2>1 DEF vars, tableVars, observerVars
  <2>2. ASSUME NEW p \in Producers, ProducerStep(p)
        PROVE  RD!Next \/ UNCHANGED <<table, delivered, marked>>
    <3>1. CASE ProducerCommit(p)
      <4> DEFINE S == inserted[p] \ table
      <4>1. S \in SUBSET (Messages \ table)
        BY DEF TypeOK
      <4>2. table' = table \cup S /\ UNCHANGED <<delivered, marked>>
        BY <3>1 DEF ProducerCommit, observerVars
      <4> QED BY <4>1, <4>2 DEF RD!Next, RD!Commit
    <3>2. CASE ~ProducerCommit(p)
      BY <2>2, <3>2 DEF ProducerStep, Record, RecordDuplicate, ProducerAbort,
                        tableVars, observerVars
    <3> QED BY <3>1, <3>2
  <2>3. ASSUME NEW d \in Drainers, DrainerStep(d)
        PROVE  RD!Next \/ UNCHANGED <<table, delivered, marked>>
    <3>1. ASSUME NEW m \in Messages, Publish(d, m)
          PROVE  RD!Next \/ UNCHANGED <<table, delivered, marked>>
      <4>1. m \in table
        BY <3>1 DEF Publish, IsHead, Custody
      <4> QED BY <3>1, <4>1 DEF Publish, Deliver, tableVars, RD!Next, RD!Deliver
    <3>2. CASE Commit(d)
      <4>1. pending[d] \in SUBSET delivered
        BY DEF Custody
      <4>2. marked' = marked \cup pending[d] /\ UNCHANGED <<table, delivered>>
        BY <3>2 DEF Commit, observerVars
      <4> QED BY <4>1, <4>2 DEF RD!Next, RD!Acknowledge
    <3>3. CASE Select(d) \/ Mark(d)
      BY <3>3 DEF Select, Mark, tableVars, observerVars
    <3> QED BY <2>3, <3>1, <3>2, <3>3 DEF DrainerStep
  <2>4. ASSUME NEW d \in Drainers, Fault(d)
        PROVE  RD!Next \/ UNCHANGED <<table, delivered, marked>>
    <3>1. ASSUME NEW m \in Messages, PublishRaises(d, m)
          PROVE  RD!Next \/ UNCHANGED <<table, delivered, marked>>
      <4>1. m \in table
        BY <3>1 DEF PublishRaises, IsHead, Custody
      <4> QED BY <3>1, <4>1 DEF PublishRaises, Deliver, tableVars, observerVars,
                                RD!Next, RD!Deliver
    <3>2. CASE MarkRaises(d) \/ Rollback(d) \/ Crash(d)
      BY <3>2 DEF MarkRaises, Rollback, Crash, Forget, tableVars, observerVars
    <3> QED BY <2>4, <3>1, <3>2 DEF Fault
  <2> QED BY <2>1, <2>2, <2>3, <2>4 DEF Next
<1> QED BY <1>1, <1>2, CustodyInvariant, PTL DEF Spec, RefinesReliableDelivery, RD!Safety

-----------------------------------------------------------------------------
(* Redelivery *)

LEMMA InitAccounted == Init => Accounted
  BY DEF Init, Accounted

LEMMA NextAccounted == TypeOK /\ Custody /\ Accounted /\ [Next]_vars => Accounted'
<1> SUFFICES ASSUME TypeOK, Custody, Accounted, [Next]_vars, Undisturbed'
             PROVE  Accounted'
  BY DEF Accounted
<1> USE OutboxAssumption DEF TypeOK, Accounted, Undisturbed
<1>1. CASE UNCHANGED vars
  BY <1>1 DEF vars, tableVars, drainerVars, observerVars
<1>2. ASSUME NEW p \in Producers, ProducerStep(p) PROVE Accounted'
  BY <1>2 DEF ProducerStep, Record, RecordDuplicate, ProducerCommit,
              ProducerAbort, tableVars, drainerVars, observerVars
<1>3. ASSUME NEW d \in Drainers, DrainerStep(d) PROVE Accounted'
  <2>0. \A e \in Drainers : e = d
    OBVIOUS
  <2>1. CASE Select(d)
    <3>1. UNCHANGED <<table, failures, marked, pending, row, delivered, redelivered>>
      BY <2>1 DEF Select, tableVars, observerVars
    <3>2. Undisturbed
      BY <3>1
    <3>3. PICK B \in SUBSET Unpublished(d) : batch' = [batch EXCEPT ![d] = B]
      BY <2>1 DEF Select
    <3>4. pc[d] = "idle" /\ row[d] = None /\ pc'[d] = "loop"
      BY <2>1, <3>2 DEF Select
    <3>5. B \cap delivered = {}
      BY <3>2, <3>4, <2>0 DEF Unpublished
    <3> QED BY <2>0, <3>1, <3>2, <3>3, <3>4, <3>5
  <2>2. ASSUME NEW m \in Messages, Publish(d, m) PROVE Accounted'
    <3>1. UNCHANGED <<table, failures, marked, pending>>
      BY <2>2 DEF Publish, tableVars
    <3>2. Undisturbed
      BY <3>1
    <3>3. m \in batch[d] /\ m \notin delivered /\ row[d] = None /\ pc'[d] = "mark"
      BY <2>2, <3>2 DEF Publish, IsHead
    <3>4. /\ delivered' = delivered \cup {m}
          /\ redelivered' = redelivered
          /\ row'[d] = m
          /\ batch'[d] = batch[d] \ {m}
      BY <2>2, <3>3 DEF Publish, Deliver
    <3> QED BY <2>0, <3>1, <3>2, <3>3, <3>4
  <2>3. CASE Mark(d)
    BY <2>0, <2>3 DEF Mark, tableVars, observerVars
  <2>4. CASE Commit(d)
    BY <2>0, <2>4 DEF Commit, observerVars
  <2> QED BY <1>3, <2>1, <2>2, <2>3, <2>4 DEF DrainerStep
<1>4. ASSUME NEW d \in Drainers, Fault(d) PROVE FALSE
  <2>1. ASSUME NEW m \in Messages, PublishRaises(d, m) PROVE FALSE
    BY <2>1 DEF PublishRaises, IsHead, Custody, tableVars
  <2>2. CASE MarkRaises(d)
    <3>1. ~Deadlocked(d)
      BY DEF Deadlocked, WaitsFor
    <3> QED BY <2>2, <3>1 DEF MarkRaises, tableVars
  <2>3. CASE Rollback(d)
    BY <2>3 DEF Rollback, Forget, tableVars
  <2>4. CASE Crash(d)
    BY <2>4 DEF Crash, Forget, tableVars
  <2> QED BY <1>4, <2>1, <2>2, <2>3, <2>4 DEF Fault
<1> QED BY <1>1, <1>2, <1>3, <1>4 DEF Next

\* A message is delivered twice only where a second drainer, a fault or a
\* committed row that raises had a part in it.
THEOREM RedeliveryExplained == Spec => []RedeliveryHasCause
<1>1. TypeOK /\ Accounted => RedeliveryHasCause
  BY OutboxAssumption DEF TypeOK, Accounted, Undisturbed, RedeliveryHasCause
<1> QED BY <1>1, InitType, NextType, CustodyInvariant, InitAccounted, NextAccounted, PTL DEF Spec

-----------------------------------------------------------------------------
(* Order *)

LEMMA InitOlderFirst == Init => OlderFirst
  BY DEF Init, OlderFirst

LEMMA NextOlderFirst == TypeOK /\ Custody /\ OlderFirst /\ [Next]_vars => OlderFirst'
<1> SUFFICES ASSUME TypeOK, Custody, OlderFirst, [Next]_vars PROVE OlderFirst'
  OBVIOUS
<1> USE OutboxAssumption DEF TypeOK, OlderFirst
<1>1. CASE UNCHANGED vars
  BY <1>1 DEF vars, drainerVars, observerVars
<1>2. ASSUME NEW p \in Producers, ProducerStep(p) PROVE OlderFirst'
  BY <1>2 DEF ProducerStep, Record, RecordDuplicate, ProducerCommit,
              ProducerAbort, drainerVars, observerVars
<1>3. ASSUME NEW d \in Drainers, DrainerStep(d) PROVE OlderFirst'
  <2>1. CASE Select(d)
    <3>1. PICK B \in SUBSET Unpublished(d) :
            IsOldest(B, Unpublished(d)) /\ batch' = [batch EXCEPT ![d] = B]
      BY <2>1 DEF Select
    <3>2. seen' = [seen EXCEPT ![d] = table] /\ delivered' = delivered
      BY <2>1 DEF Select, observerVars
    <3>3. ASSUME NEW m \in B, NEW n \in table, OccurredAt[n] < OccurredAt[m]
          PROVE  n \in delivered \/ n \in B
      <4>1. CASE n \in Unpublished(d)
        <5>1. n \notin B => OccurredAt[m] <= OccurredAt[n]
          BY <3>1, <4>1 DEF IsOldest
        <5>2. OccurredAt[m] \in Nat /\ OccurredAt[n] \in Nat
          BY DEF Unpublished
        <5> QED BY <3>3, <5>1, <5>2
      <4>2. CASE n \notin Unpublished(d)
        BY <4>2 DEF Unpublished, Custody
      <4> QED BY <4>1, <4>2
    <3> QED BY <3>1, <3>2, <3>3
  <2>2. ASSUME NEW m \in Messages, Publish(d, m) PROVE OlderFirst'
    BY <2>2 DEF Publish, Deliver
  <2>3. CASE Mark(d)
    BY <2>3 DEF Mark, observerVars
  <2>4. CASE Commit(d)
    BY <2>4 DEF Commit, observerVars
  <2> QED BY <1>3, <2>1, <2>2, <2>3, <2>4 DEF DrainerStep
<1>4. ASSUME NEW d \in Drainers, Fault(d) PROVE OlderFirst'
  <2>1. ASSUME NEW m \in Messages, PublishRaises(d, m) PROVE OlderFirst'
    BY <2>1 DEF PublishRaises, Deliver, observerVars
  <2>2. CASE MarkRaises(d) \/ Rollback(d) \/ Crash(d)
    BY <2>2 DEF MarkRaises, Rollback, Crash, Forget, observerVars
  <2> QED BY <1>4, <2>1, <2>2 DEF Fault
<1> QED BY <1>1, <1>2, <1>3, <1>4 DEF Next

\* A first delivery never overtakes an older row that the same SELECT saw.
THEOREM OlderRowsFirst == Spec => OldestFirst
<1> DEFINE InOrder == \A m \in delivered' \ delivered :
              \E d \in Drainers :
                /\ m \in batch[d] \ batch'[d]
                /\ \A n \in seen[d] : OccurredAt[n] < OccurredAt[m] => n \in delivered
<1>1. TypeOK /\ OlderFirst /\ [Next]_vars => [InOrder]_vars
  <2> SUFFICES ASSUME TypeOK, OlderFirst, Next, NEW m \in delivered' \ delivered
               PROVE  \E d \in Drainers :
                        /\ m \in batch[d] \ batch'[d]
                        /\ \A n \in seen[d] :
                             OccurredAt[n] < OccurredAt[m] => n \in delivered
    OBVIOUS
  <2>1. PICK d \in Drainers :
          \E k \in Messages : Publish(d, k) \/ PublishRaises(d, k)
    BY DEF Next, ProducerStep, Record, RecordDuplicate, ProducerCommit,
           ProducerAbort, DrainerStep, Fault, Select, Mark, Commit, MarkRaises,
           Rollback, Crash, Forget, observerVars
  <2>2. IsHead(d, m) /\ m \notin batch'[d]
    BY <2>1 DEF Publish, PublishRaises, Deliver, IsHead, observerVars, TypeOK
  <2>3. ASSUME NEW n \in seen[d], OccurredAt[n] < OccurredAt[m]
        PROVE  n \in delivered
    <3>1. OccurredAt[m] \in Nat /\ OccurredAt[n] \in Nat
      BY <2>2, OutboxAssumption DEF IsHead, TypeOK
    <3>2. n \notin batch[d]
      BY <2>2, <2>3, <3>1 DEF IsHead
    <3> QED BY <2>2, <2>3, <3>2 DEF OlderFirst, IsHead
  <2> QED BY <2>2, <2>3 DEF IsHead
<1>2. Spec => [](TypeOK /\ Custody /\ OlderFirst)
  BY InitType, NextType, InitCustody, NextCustody, InitOlderFirst,
     NextOlderFirst, PTL DEF Spec
<1> QED BY <1>1, <1>2, PTL DEF Spec, OldestFirst
=============================================================================
