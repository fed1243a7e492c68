CONSTANTS
  Points = {p1, p2}
  NoConclusion = NoConclusion
  Categories = {0}
  IntAttrs = {0}
  Values <- DriverValues
  NumConstraints = 2
  UseBounds = TRUE
  DoHorndini = TRUE
  MaxBound = 20
  Rounds = {1, 2}
  BoundsWritten = {2, 16}
  IntBits = 8

SPECIFICATION Spec

\* main returns EXIT_SUCCESS or EXIT_FAILURE: the program stops.
CHECK_DEADLOCK FALSE

INVARIANTS
  TypeOK
  SuccessTreeConsistent
  PrephaseStrongestInductive
  PrephaseTreeComputesConjunction

PROPERTIES
  DriverTerminates
  PrephaseTerminates
