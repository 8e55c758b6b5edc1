\* Two threads share the service, over four calls: more than the callers there
\* are, so that a caller could publish an event again.
\* Aggregates run out, so the callers stop: deadlock is not checked.
SPECIFICATION Spec
CHECK_DEADLOCK FALSE
CONSTANTS
  Callers = {c1, c2}
  Aggregates = {a1, a2, a3, a4}
  BusFails = TRUE
  None = None
SYMMETRY Symmetry
INVARIANTS
  TypeOK
  StoredBeforePublished
  OncePerCaller
