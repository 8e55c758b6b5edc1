\* A project with nothing to repair stops: deadlock is not checked.
SPECIFICATION Spec
CHECK_DEADLOCK FALSE
CONSTANTS
  Names = {"uow", "self._uow"}
  Projects <- MCProjects
  MaxFlaws = 2
  MaxNesting = 3
INVARIANTS
  TypeOK
  NothingHidden
  CommitReportedOnce
PROPERTIES
  Converges
