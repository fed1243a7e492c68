----------------------------- MODULE HornSample -----------------------------
(***************************************************************************)
(* The meaning of a Horn sample: data points with a partial labelling and  *)
(* implication constraints "premises => conclusion" between them (no       *)
(* conclusion means "the premises are not all true").  These operators are *)
(* the reference definitions against which the Horn solver and the         *)
(* learner are checked: they enumerate every total labelling of the        *)
(* (small) set of data points.                                             *)
(***************************************************************************)
EXTENDS FiniteSets

CONSTANTS
  Points,        \* the data points (datapoint<bool> objects)
  NoConclusion   \* stands for a null _conclusion pointer

ASSUME NoConclusion \notin Points

\* A label state: classified true, classified false, or unclassified.
Labels == {"T", "F", "U"}

\* A Horn constraint as read by boogie_io::indexes2horn_constraints: a
\* non-empty set of premises and an optional conclusion.
HornConstraints ==
  [prem : (SUBSET Points) \ {{}}, concl : Points \cup {NoConclusion}]

\* The total labelling a satisfies the constraint h.
Satisfies(a, h) ==
  (\A p \in h.prem : a[p]) => (h.concl # NoConclusion /\ a[h.concl])

\* The total labelling a extends the partial labelling lab.
Agrees(a, lab) ==
  \A p \in Points : /\ lab[p] = "T" => a[p]
                    /\ lab[p] = "F" => ~a[p]

\* All total labellings that extend lab, make P true and N false and
\* satisfy every constraint of the sequence hcs.
Extensions(hcs, lab, P, N) ==
  { a \in [Points -> BOOLEAN] :
      /\ Agrees(a, lab)
      /\ \A k \in DOMAIN hcs : Satisfies(a, hcs[k])
      /\ \A p \in P : a[p]
      /\ \A n \in N : ~a[n] }

Consistent(hcs, lab, P, N) == Extensions(hcs, lab, P, N) # {}

\* The points not already labelled true that every extension makes true.
ForcedTrue(hcs, lab, P, N) ==
  LET E == Extensions(hcs, lab, P, N)
  IN { p \in Points : lab[p] # "T" /\ \A a \in E : a[p] }

\* The points not already labelled false that every extension makes false.
ForcedFalse(hcs, lab, P, N) ==
  LET E == Extensions(hcs, lab, P, N)
  IN { p \in Points : lab[p] # "F" /\ \A a \in E : ~a[p] }

=============================================================================
