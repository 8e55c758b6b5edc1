\* Two producers and two drainers that race and may deadlock on rows that tie,
\* batches of two, one fault.
\* An idle outbox stops, so deadlock is not checked.
SPECIFICATION FairSpec
CHECK_DEADLOCK FALSE
CONSTANTS
  m1 = m1  m2 = m2  m3 = m3
  None = None
  Messages = {m1, m2, m3}
  OccurredAt <- TiedTimes
  Producers = {p1, p2}
  Drainers = {d1, d2}
  BatchSize = 2
  Poison = {}
  MaxFailures = 1
INVARIANTS
  TypeOK
  AtLeastOnce
PROPERTIES
  MarksAreFinal
  OldestFirst
  RefinesReliableDelivery
  EventuallyMarked
