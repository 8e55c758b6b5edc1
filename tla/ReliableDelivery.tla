-------------------------- MODULE ReliableDelivery --------------------------
(***************************************************************************)
(* What a transactional outbox promises, with no table, session or batch.  *)
(* A message becomes a fact when the transaction that wrote it commits.    *)
(* Only facts are delivered, and a fact may be delivered more than once    *)
(* until it is acknowledged; only a delivered fact is ever acknowledged,   *)
(* and an acknowledgement is final.                                        *)
(***************************************************************************)
CONSTANT Messages       \* every message that may ever be written

VARIABLES
  facts,                \* messages whose transaction committed
  delivered,            \* messages handed to the consumer at least once
  acknowledged          \* facts that will not be delivered on purpose again

abstractVars == <<facts, delivered, acknowledged>>

Init ==
  /\ facts = {}
  /\ delivered = {}
  /\ acknowledged = {}

\* A transaction makes its messages facts, all at once.
Commit ==
  \E S \in SUBSET (Messages \ facts) :
    /\ facts' = facts \cup S
    /\ UNCHANGED <<delivered, acknowledged>>

\* A fact reaches the consumer, for the first time or again.
Deliver ==
  \E m \in facts :
    /\ delivered' = delivered \cup {m}
    /\ UNCHANGED <<facts, acknowledged>>

\* Delivered facts are acknowledged, several at once.
Acknowledge ==
  \E S \in SUBSET delivered :
    /\ acknowledged' = acknowledged \cup S
    /\ UNCHANGED <<facts, delivered>>

Next == Commit \/ Deliver \/ Acknowledge

Safety == Init /\ [][Next]_abstractVars

\* Every fact is eventually acknowledged (and, by the invariant below, was
\* delivered before).
EventuallyAcknowledged == \A m \in Messages : m \in facts ~> m \in acknowledged

\* An acknowledged message was delivered, and a delivered one is a fact.
AtLeastOnce == acknowledged \subseteq delivered /\ delivered \subseteq facts
=============================================================================
