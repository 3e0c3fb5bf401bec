SPECIFICATION Spec
CONSTANTS
  None = None
  Artifacts = {a1, a2, a3}
  Sessions = {x1, x2, x3}
SYMMETRY Interchangeable
INVARIANTS
  TypeOK
  OppositeEdgesExcluded
  PathsOrderLineage
CHECK_DEADLOCK FALSE
