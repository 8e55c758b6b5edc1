SPECIFICATION Spec
CONSTANTS
  layers = layers
  commons = commons
  cycles = cycles
  clock = clock
  graph = graph
  schema = schema
  review = review
  orphan = orphan
  Linted <- MCLinted
  Scanned <- MCScanned
  Sketched <- MCSketched
  Reviewed <- MCReviewed
  Unimplemented <- MCUnimplemented
  Binding <- MCBinding
  Core <- MCCore
  Projects <- MCProjects
INVARIANTS BadCatalogHasItsOwnCode
