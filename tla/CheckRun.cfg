\* Every mix of catalogs, violations, waivers and linter ends.
SPECIFICATION FairSpec
CONSTANTS
  layers = layers
  commons = commons
  cycles = cycles
  clock = clock
  graph = graph
  schema = schema
  review = review
  orphan = orphan
  Linted <- MCLinted
  Scanned <- MCScanned
  Sketched <- MCSketched
  Reviewed <- MCReviewed
  Unimplemented <- MCUnimplemented
  Binding <- MCBinding
  Core <- MCCore
  Projects <- MCProjects
INVARIANTS TypeOK GreenIsEarned RedIsExplained
PROPERTIES OnlyFailuresAreWaived Terminates
