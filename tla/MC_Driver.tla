------------------------------ MODULE MC_Driver ------------------------------
(***************************************************************************)
(* Model checking Driver with every sample of the cfg's data points, one  *)
(* integer attribute and two constraints from the .horn file, so that a    *)
(* Horndini pass can test a premise before a later constraint of the same  *)
(* pass weakens it.  With the values -3, -1 and 3 the bound matters: at    *)
(* bound 1 the cuts -1 and 0 separate 3 from the others, while -3 and -1   *)
(* only become distinguishable at bound 2.                                 *)
(***************************************************************************)
EXTENDS Driver, TLC

DriverValues == {-3, -1, 3}

\* Values beyond MAX_BOUND: no bounded cut separates 17 from 24, so the
\* loop reaches the unbounded attempt.
DriverWideValues == {17, 24}

\* Only the attributes, labels and constraints tell the points apart.
PointSymmetry == Permutations(Points)

=============================================================================
