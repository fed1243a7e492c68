------------------------------ MODULE MC_Horndt ------------------------------
(***************************************************************************)
(* Model checking Horndt with 3 data points, one integer attribute and     *)
(* one .horn constraint.  int is 8 bits wide and the limit of              *)
(* bound::increase is 16 (1000 in the build): the bounds 1 .. 16 are used, *)
(* 32 is the first unbounded one, and further doubling wraps through -128  *)
(* to 0, as 32-bit doubling does after 1024.                               *)
(***************************************************************************)
EXTENDS Horndt, TLC

HorndtValues == {-3, -1, 1, 3}

\* Bounds a finished round may have written: one still used, the first
\* one past the limit, and one doubled past the int range.
HorndtBoundsWritten == {2, 32, 0}

PointSymmetry == Permutations(Points)

=============================================================================
