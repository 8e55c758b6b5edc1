\* Every manifest over three contexts, every layout.
\* The check returns, so deadlock is not checked.
SPECIFICATION FairSpec
CHECK_DEADLOCK FALSE
CONSTANTS
  Contexts = {c1, c2, c3}
  NotAName = NotAName
INVARIANTS
  TypeOK
  CycleIsReal
  NoCycleMissed
  FailsExactlyWhenFaulty
PROPERTY
  Terminates
