CONSTANTS
  PreferConjunctions = FALSE
  Points = {p1, p2, p3}
  NoConclusion = NoConclusion
  Categories = {0}
  IntAttrs = {0}
  Values <- HorndtValues
  NumConstraints = 1
  Limit = 16
  Rounds = {1}
  BoundsWritten <- HorndtBoundsWritten
  IntBits = 8

SPECIFICATION Spec

\* main returns EXIT_SUCCESS or EXIT_FAILURE: the program may stop.
CHECK_DEADLOCK FALSE


PROPERTIES
  HorndtTerminates
