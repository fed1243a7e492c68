------------------------------ MODULE MC_Teacher ------------------------------
(***************************************************************************)
(* Model checking Teacher with two relations: r1 over the data points    *)
(* pa and pb, r2 over pc.  Three CHCs of any shape with at most one     *)
(* instance each cover facts, queries, valid CHCs and chains like       *)
(* "r1(pa); r1(pa) => r1(pb); r1(pb) => false" that make the sample     *)
(* inconsistent only through a Horn counterexample.                      *)
(***************************************************************************)
EXTENDS Teacher, TLC

CONSTANTS pa, pb, pc, r1, r2   \* the points and relations

TeacherRelOf == [p \in Points |-> IF p = pc THEN r2 ELSE r1]

\* r1 is numbered first, so r2 inherits r1's formula when it has no sample
\* points, and r1 gets false when it has none.
TeacherRelOrder == <<r1, r2>>

=============================================================================
