\* A project that has all the imports it may have stops: deadlock is not checked.
SPECIFICATION Spec
CHECK_DEADLOCK FALSE
CONSTANTS
  Projects <- MCProjects
  Hidden = {"_drafts", "__init__", "__pycache__"}
  Libraries = {"sqlalchemy", "dishka"}
INVARIANTS
  TypeOK
  NoneSlipsThrough
  
  InwardProjectPasses
