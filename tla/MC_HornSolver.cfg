CONSTANTS
  Points = {p1, p2, p3}
  NoConclusion = NoConclusion
  FalsePoint = FalsePoint
  NumConstraints = 2
  ValidProposal <- CallerProposal

SPECIFICATION Spec

CHECK_DEADLOCK FALSE

SYMMETRY PointSymmetry

INVARIANTS
  TypeOK
  ClosureExact
  FailureKeepsNegative
  SolveVerdictExact
