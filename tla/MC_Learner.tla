----------------------------- MODULE MC_Learner -----------------------------
(***************************************************************************)
(* Model checking Learner with every sample of the cfg's data points,      *)
(* categories and integer values, every set of its Horn constraints        *)
(* and every input labelling, processing the slices in every order and     *)
(* trying every candidate cut.                                             *)
(***************************************************************************)
EXTENDS Learner

\* The learner treats the data points alike: only their attributes, labels
\* and the constraints distinguish them.
PointSymmetry == Permutations(Points)

=============================================================================
