\* A relation with a Bool argument and two Int ones: the attributes b, x, y,
\* x + y and x - y.
CONSTANTS
  Arity = 3
  BoolArgs = {1}
  IntValues <- DtIntValues
  Depth = 2

SPECIFICATION Spec

\* The model has one state per input and no steps.
CHECK_DEADLOCK FALSE

INVARIANTS
  FormulaAgreesWithTree
  DistinguishableIffCutWithinBound
