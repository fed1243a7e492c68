CONSTANTS
  PreferConjuncts = TRUE
  Points = {p1, p2, p3}
  NoConclusion = NoConclusion
  Categories = {0}
  IntAttrs = {0}
  Values = {0, 1, 2}
  NumConstraints = 2
  Bounded = FALSE
  Threshold = 0

SPECIFICATION Spec

\* learn returns, or main throws: the program stops.
CHECK_DEADLOCK FALSE

SYMMETRY PointSymmetry

INVARIANTS
  TypeOK
  TreeConsistent
  SplitSliceHasClassifiedPoint

PROPERTIES
  LabelsNeverFlip
