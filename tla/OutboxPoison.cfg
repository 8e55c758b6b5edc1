\* One drainer; publish(m2) always raises; m1 is older, m3 newer.
\* An idle outbox stops, so deadlock is not checked.
SPECIFICATION FairSpec
CHECK_DEADLOCK FALSE
CONSTANTS
  m1 = m1  m2 = m2  m3 = m3
  None = None
  Messages = {m1, m2, m3}
  OccurredAt <- StrictTimes
  Producers = {p1, p2}
  Drainers = {d1}
  BatchSize = 2
  Poison = {m2}
  MaxFailures = 2
INVARIANT
  RedeliveryHasCause
PROPERTY
  DeliveredUpToPoison
