\* One caller at a time; calls that raise, and a bus that accepts.
\* Aggregates run out, so the callers stop: deadlock is not checked.
SPECIFICATION FairSpec
CHECK_DEADLOCK FALSE
CONSTANTS
  Callers = {c1}
  Aggregates = {a1, a2, a3}
  BusFails = FALSE
  None = None
PROPERTIES
  RefinesEventPublication
  CommittedReachesBus
