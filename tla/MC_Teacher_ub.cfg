\* As MC_Teacher: the conjectures learn2 checks come from a consistent tree.
CONSTANTS
  pa = pa
  pb = pb
  pc = pc
  r1 = r1
  r2 = r2
  Points = {pa, pb, pc}
  NoConclusion = NoConclusion
  Relations = {r1, r2}
  RelOf <- TeacherRelOf
  NoRel = NoRel
  CHCs = {k1, k2, k3}
  MaxInstances = 1
  RelOrder <- TeacherRelOrder
  FalseArgPoints = {}

SPECIFICATION Spec

\* learn2 returns, or an exception ends the program: it stops.
CHECK_DEADLOCK FALSE

INVARIANT
  ConjectureFromConsistentTree
