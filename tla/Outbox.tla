------------------------------- MODULE Outbox -------------------------------
(***************************************************************************)
(* commons.adapters.outbox: `record` inserts a row in the caller's open     *)
(* transaction, `drain` publishes unpublished rows and marks them, and one *)
(* commit at the end of the batch makes all the marks durable.             *)
(*                                                                         *)
(* Producers and drainers are database sessions of separate processes. A   *)
(* drainer can lose its process between any two statements, its `publish`  *)
(* callback and its UPDATE can raise, and nothing in the code keeps two    *)
(* drainers apart. The database is external: it shows a session the        *)
(* committed rows and its own uncommitted writes, makes a second writer of *)
(* a row wait, and aborts a transaction caught in a lock cycle.            *)
(***************************************************************************)
EXTENDS Naturals, FiniteSets

CONSTANTS
  Messages,        \* message ids, the table's primary key
  OccurredAt,      \* the occurred_at column of each message
  Producers,       \* sessions that call record()
  Drainers,        \* sessions that call drain()
  BatchSize,       \* the batch_size argument
  Poison,          \* messages whose publish() raises every time
  MaxFailures,     \* bound: faults the environment injects
  None             \* no current row

ASSUME OutboxAssumption ==
  /\ IsFiniteSet(Messages)
  /\ OccurredAt \in [Messages -> Nat]
  /\ BatchSize \in Nat \ {0}
  /\ Poison \subseteq Messages
  /\ MaxFailures \in Nat
  /\ None \notin Messages

VARIABLES
  table,           \* committed rows of the outbox
  marked,          \* committed rows whose published_at is set
  inserted,        \* rows a producer's open transaction inserted
  pc,              \* where each drainer is: idle, loop, mark or raised
  batch,           \* rows drain() selected and has not published yet
  row,             \* the row published and not yet marked
  pending,         \* marks the drainer's transaction holds uncommitted
  failures,        \* faults injected so far
  \* What an observer sees, no part of the program's state:
  delivered,       \* messages publish() accepted at least once
  redelivered,     \* messages publish() accepted more than once
  seen             \* the committed rows when the drainer's SELECT ran

tableVars    == <<table, marked>>
drainerVars  == <<pc, batch, row, pending, seen>>
observerVars == <<delivered, redelivered>>
vars == <<tableVars, inserted, drainerVars, failures, observerVars>>

Init ==
  /\ table = {}
  /\ marked = {}
  /\ inserted = [p \in Producers |-> {}]
  /\ pc = [d \in Drainers |-> "idle"]
  /\ batch = [d \in Drainers |-> {}]
  /\ row = [d \in Drainers |-> None]
  /\ pending = [d \in Drainers |-> {}]
  /\ failures = 0
  /\ delivered = {}
  /\ redelivered = {}
  /\ seen = [d \in Drainers |-> {}]

-----------------------------------------------------------------------------
(* Producers *)

Uncommitted == UNION {inserted[p] : p \in Producers}

\* record(): the id is new, so the row joins the caller's transaction. A
\* second INSERT of an id another session holds uncommitted waits for it.
Record(p, m) ==
  /\ m \notin table \cup Uncommitted
  /\ inserted' = [inserted EXCEPT ![p] = @ \cup {m}]
  /\ UNCHANGED <<tableVars, drainerVars, failures, observerVars>>

\* Mutant: an INSERT OR REPLACE, which writes the row anew and unpublished.
RecordReplaces(p, m) ==
  /\ m \in table
  /\ marked' = marked \ {m}
  /\ UNCHANGED <<table, inserted, drainerVars, failures, observerVars>>

\* record() of an id that exists: the INSERT raises, and the caller's unit of
\* work rolls the whole transaction back.
RecordDuplicate(p, m) ==
  /\ inserted[p] # {}                    \* rolling back nothing changes nothing
  /\ m \in table \cup inserted[p]
  /\ inserted' = [inserted EXCEPT ![p] = {}]
  /\ UNCHANGED <<tableVars, drainerVars, failures, observerVars>>

\* The caller commits: its aggregate change and its rows become durable.
ProducerCommit(p) ==
  /\ inserted[p] # {}
  /\ table' = table \cup inserted[p]
  /\ inserted' = [inserted EXCEPT ![p] = {}]
  /\ UNCHANGED <<marked, drainerVars, failures, observerVars>>

\* The caller rolls back, or its process dies with the transaction open.
ProducerAbort(p) ==
  /\ inserted[p] # {}
  /\ inserted' = [inserted EXCEPT ![p] = {}]
  /\ UNCHANGED <<tableVars, drainerVars, failures, observerVars>>

-----------------------------------------------------------------------------
(* drain() *)

\* Mutant: the SELECT without its WHERE clause.
EveryRow(d) == table \ pending[d]

\* Mutant: a read of uncommitted rows.
DirtyRead(d) == ((table \cup Uncommitted) \ marked) \ pending[d]

\* Rows a session reads with published_at NULL: committed, not marked by
\* anyone's committed transaction nor by its own open one.
Unpublished(d) == (table \ marked) \ pending[d]

\* What ORDER BY occurred_at LIMIT batch_size may return; ties fall anywhere.
IsOldest(B, rows) ==
  /\ B \subseteq rows
  /\ Cardinality(B) = IF Cardinality(rows) < BatchSize THEN Cardinality(rows)
                                                       ELSE BatchSize
  /\ \A m \in B : \A n \in rows \ B : OccurredAt[m] <= OccurredAt[n]

\* The SELECT. A drainer whose last call raised may call drain() again with
\* the same session, whose transaction still holds its earlier marks.
Select(d) ==
  /\ pc[d] \in {"idle", "raised"}
  /\ \E B \in SUBSET Unpublished(d) :
       /\ IsOldest(B, Unpublished(d))
       /\ B # {} \/ pending[d] # {}      \* an empty drain changes nothing
       /\ batch' = [batch EXCEPT ![d] = B]
  /\ pc' = [pc EXCEPT ![d] = "loop"]
  /\ seen' = [seen EXCEPT ![d] = table]
  /\ UNCHANGED <<tableVars, inserted, row, pending, failures, observerVars>>

\* Mutant: no ORDER BY.
AnyRow(d, m) == m \in batch[d]

\* The loop takes the rows in order; rows that tie come in either order.
IsHead(d, m) ==
  /\ m \in batch[d]
  /\ \A n \in batch[d] : OccurredAt[m] <= OccurredAt[n]

\* The consumer gets m, once more or for the first time.
Deliver(m) ==
  /\ delivered' = delivered \cup {m}
  /\ redelivered' = IF m \in delivered THEN redelivered \cup {m} ELSE redelivered

\* publish() accepts the row.
Publish(d, m) ==
  /\ pc[d] = "loop"
  /\ IsHead(d, m)
  /\ m \notin Poison
  /\ pc' = [pc EXCEPT ![d] = "mark"]
  /\ batch' = [batch EXCEPT ![d] = @ \ {m}]
  /\ row' = [row EXCEPT ![d] = m]
  /\ Deliver(m)
  /\ UNCHANGED <<tableVars, inserted, pending, seen, failures>>

\* Mutant: drain() catches what publish() raises and marks the row.
PublishSwallowed(d, m) ==
  /\ pc[d] = "loop"
  /\ IsHead(d, m)
  /\ failures < MaxFailures
  /\ failures' = failures + 1
  /\ pc' = [pc EXCEPT ![d] = "mark"]
  /\ batch' = [batch EXCEPT ![d] = @ \ {m}]
  /\ row' = [row EXCEPT ![d] = m]
  /\ UNCHANGED <<tableVars, inserted, pending, seen, observerVars>>

\* publish() raises out of drain(): no commit, no rollback, and the session
\* keeps the marks of the rows before this one in its open transaction. The
\* consumer may have the message all the same (a lost acknowledgement).
PublishRaises(d, m) ==
  /\ pc[d] = "loop"
  /\ IsHead(d, m)
  /\ IF m \in Poison THEN UNCHANGED failures
                     ELSE failures < MaxFailures /\ failures' = failures + 1
  /\ Deliver(m) \/ UNCHANGED observerVars
  /\ pc' = [pc EXCEPT ![d] = "raised"]
  /\ batch' = [batch EXCEPT ![d] = {}]
  /\ seen' = [seen EXCEPT ![d] = {}]
  /\ UNCHANGED <<tableVars, inserted, row, pending>>

\* Another session's transaction holds the row lock that d's UPDATE needs.
WaitsFor(d, e) == e # d /\ pc[d] = "mark" /\ row[d] \in pending[e]

\* UPDATE ... WHERE id = row.id
Mark(d) ==
  /\ pc[d] = "mark"
  /\ \A e \in Drainers : ~WaitsFor(d, e)
  /\ pending' = [pending EXCEPT ![d] = @ \cup {row[d]}]
  /\ row' = [row EXCEPT ![d] = None]
  /\ pc' = [pc EXCEPT ![d] = "loop"]
  /\ UNCHANGED <<tableVars, inserted, batch, seen, failures, observerVars>>

\* Some set of drainers, d among them, all wait for each other.
Deadlocked(d) ==
  \E C \in SUBSET Drainers :
    d \in C /\ \A e \in C : \E f \in C : WaitsFor(e, f)

\* The UPDATE raises: the statement fails, or the database picks d as the
\* victim of a lock cycle. Its transaction, marks included, is gone.
MarkRaises(d) ==
  /\ pc[d] = "mark"
  /\ IF Deadlocked(d) THEN UNCHANGED failures
                      ELSE failures < MaxFailures /\ failures' = failures + 1
  /\ pc' = [pc EXCEPT ![d] = "raised"]
  /\ batch' = [batch EXCEPT ![d] = {}]
  /\ row' = [row EXCEPT ![d] = None]
  /\ pending' = [pending EXCEPT ![d] = {}]
  /\ seen' = [seen EXCEPT ![d] = {}]
  /\ UNCHANGED <<tableVars, inserted, observerVars>>

\* Mutant: drain() returns without session.commit() and the session closes.
CommitMissing(d) ==
  /\ pc[d] = "loop"
  /\ batch[d] = {}
  /\ pending' = [pending EXCEPT ![d] = {}]
  /\ pc' = [pc EXCEPT ![d] = "idle"]
  /\ seen' = [seen EXCEPT ![d] = {}]
  /\ UNCHANGED <<tableVars, inserted, batch, row, failures, observerVars>>

\* The batch is done: the one session.commit() makes its marks durable.
Commit(d) ==
  /\ pc[d] = "loop"
  /\ batch[d] = {}
  /\ marked' = marked \cup pending[d]
  /\ pending' = [pending EXCEPT ![d] = {}]
  /\ pc' = [pc EXCEPT ![d] = "idle"]
  /\ seen' = [seen EXCEPT ![d] = {}]
  /\ UNCHANGED <<table, inserted, batch, row, failures, observerVars>>

\* Mutant: the session goes back to a pool with its transaction open.
ForgetLeaks(d) ==
  /\ pc' = [pc EXCEPT ![d] = "idle"]
  /\ batch' = [batch EXCEPT ![d] = {}]
  /\ row' = [row EXCEPT ![d] = None]
  /\ seen' = [seen EXCEPT ![d] = {}]
  /\ UNCHANGED <<tableVars, inserted, pending, observerVars>>

\* The drainer's call, its session and its transaction are gone.
Forget(d) ==
  /\ pc' = [pc EXCEPT ![d] = "idle"]
  /\ batch' = [batch EXCEPT ![d] = {}]
  /\ row' = [row EXCEPT ![d] = None]
  /\ pending' = [pending EXCEPT ![d] = {}]
  /\ seen' = [seen EXCEPT ![d] = {}]
  /\ UNCHANGED <<tableVars, inserted, observerVars>>

\* The caller of a drain() that raised rolls back or closes the session.
Rollback(d) ==
  /\ pc[d] = "raised"
  /\ Forget(d)
  /\ UNCHANGED failures

\* The drainer's process dies, between any two statements, and starts again.
Crash(d) ==
  /\ pc[d] # "idle"
  /\ failures < MaxFailures
  /\ failures' = failures + 1
  /\ Forget(d)

-----------------------------------------------------------------------------

ProducerStep(p) ==
  \/ \E m \in Messages : Record(p, m) \/ RecordDuplicate(p, m)
  \/ ProducerCommit(p)
  \/ ProducerAbort(p)

\* What the drainer's own code does when nothing fails.
DrainerStep(d) ==
  \/ Select(d)
  \/ \E m \in Messages : Publish(d, m)
  \/ Mark(d)
  \/ Commit(d)

Fault(d) ==
  \/ \E m \in Messages : PublishRaises(d, m)
  \/ MarkRaises(d)
  \/ Rollback(d)
  \/ Crash(d)

Next ==
  \/ \E p \in Producers : ProducerStep(p)
  \/ \E d \in Drainers : DrainerStep(d) \/ Fault(d)

Spec == Init /\ [][Next]_vars

\* The drainer's process keeps being scheduled and restarted, and the database
\* queues for a row's lock: a session that waits for it again and again has it
\* in the end.
FairSpec ==
  /\ Spec
  /\ \A d \in Drainers :
       /\ WF_vars(DrainerStep(d) \/ Fault(d))
       /\ \A m \in Messages : SF_vars(row[d] = m /\ Mark(d))

-----------------------------------------------------------------------------
(* Properties *)

\* The type of every variable, and the control states' shape: no batch, row or
\* open transaction outlives the drain() call it belongs to.
TypeOK ==
  /\ table \subseteq Messages
  /\ marked \subseteq Messages
  /\ inserted \in [Producers -> SUBSET Messages]
  /\ pc \in [Drainers -> {"idle", "loop", "mark", "raised"}]
  /\ batch \in [Drainers -> SUBSET Messages]
  /\ row \in [Drainers -> Messages \cup {None}]
  /\ pending \in [Drainers -> SUBSET Messages]
  /\ seen \in [Drainers -> SUBSET Messages]
  /\ failures \in 0..MaxFailures
  /\ delivered \subseteq Messages
  /\ redelivered \subseteq delivered
  /\ \A d \in Drainers :
       /\ pc[d] = "mark" <=> row[d] # None
       /\ pc[d] \in {"idle", "raised"} => batch[d] = {}
       /\ pc[d] = "idle" => pending[d] = {}

RD == INSTANCE ReliableDelivery WITH facts <- table, acknowledged <- marked

\* A row is durably marked only after the consumer got its message, and the
\* consumer only gets messages whose own transaction committed.
AtLeastOnce == RD!AtLeastOnce

\* The outbox, its batches, sessions, crashes and lock conflicts included,
\* does nothing that reliable delivery does not allow.
RefinesReliableDelivery == RD!Safety

\* drain() alone never delivers a message twice: with one drainer and no
\* fault, the durable marks and the session's own keep every row from being
\* selected again. A second delivery needs a second drainer, a fault or a
\* committed row whose publish() raises.
RedeliveryHasCause ==
  redelivered # {} => \/ failures > 0
                      \/ Poison \cap table # {}
                      \/ \E d, e \in Drainers : d # e

\* No step takes a committed row away or clears published_at.
MarksAreFinal == [][table \subseteq table' /\ marked \subseteq marked']_vars

\* Oldest first: when a message is delivered for the first time, every strictly
\* older row the drainer's SELECT could see was delivered before it.
OldestFirst ==
  [][\A m \in delivered' \ delivered :
       \E d \in Drainers :
         /\ m \in batch[d] \ batch'[d]
         /\ \A n \in seen[d] :
              OccurredAt[n] < OccurredAt[m] => n \in delivered]_vars

\* Every committed row is published and durably marked in the end, whatever
\* finite number of crashes, lock conflicts and raising callbacks come between.
EventuallyMarked == RD!EventuallyAcknowledged

\* A row whose publish() always raises stops only what comes after it: rows
\* that occurred before every such row are still delivered.
DeliveredUpToPoison ==
  \A m \in Messages :
    (m \in table /\ \A n \in Poison : OccurredAt[m] < OccurredAt[n])
      ~> m \in delivered
=============================================================================
