CONSTANTS
  Points = {p1, p2, p3}
  NoConclusion = NoConclusion
  Categories = {0}
  IntAttrs = {0}
  Values <- DriverWideValues
  NumConstraints = 1
  UseBounds = TRUE
  DoHorndini = FALSE
  MaxBound = 20
  Rounds = {1, 2}
  BoundsWritten = {2, 16}
  IntBits = 8

SPECIFICATION Spec

\* main returns EXIT_SUCCESS or EXIT_FAILURE: the program stops.
CHECK_DEADLOCK FALSE

SYMMETRY PointSymmetry

INVARIANTS
  BoundFileLeftForNextRound
