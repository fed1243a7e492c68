---------------------------- MODULE MC_HornSolver ----------------------------
(***************************************************************************)
(* Model checking HornSolver with every sample of 3 data points and 2     *)
(* constraints, and every proposal a caller passes: the callers          *)
(* (simple_job_manager::is_leaf, the Horn-assignment sampling and the     *)
(* initial run in main) only propose unlabelled points, never one point   *)
(* in both sets.                                                           *)
(***************************************************************************)
EXTENDS HornSolver, TLC

CallerProposal(l, P, N) ==
  /\ P \cap N = {}
  /\ \A p \in P \cup N : l[p] = "U"

\* The solver treats the data points alike: only their labels and the
\* constraints distinguish them.
PointSymmetry == Permutations(Points)

=============================================================================
