\* Every service: any set of habits.
\* Events run out, so the service stops: deadlock is not checked.
SPECIFICATION Spec
CHECK_DEADLOCK FALSE
CONSTANTS
  Aggregates = {a1, a2}
  Events = {e1, e2, e3}
  Services <- EveryService
  None = None
SYMMETRY Symmetry
INVARIANTS
  TypeOK
  MemReturnsTheBlock
  SqlReturnsTheBlock
  SqlCacheIsCommitted
  MemReturnsOnce
