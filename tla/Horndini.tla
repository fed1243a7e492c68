------------------------------- MODULE Horndini -------------------------------
(***************************************************************************)
(* The Horndini prephase (horndini_prephase in hice-dt.cpp and class       *)
(* horndini in horndini.h): Houdini over Horn constraints.  Every integer  *)
(* attribute x of an annotation yields the derived predicates x >= t,     *)
(* x <= t and x = t for -C <= t <= C; each annotation (value of the        *)
(* categorical attribute 0) starts with the conjunction of all of its      *)
(* predicates; the predicates a positive point falsifies are dropped, and  *)
(* a constraint whose premises all satisfy their conjunctions makes its    *)
(* conclusion positive, or ends the run when it has none.  The result is  *)
(* turned into a decision tree (conjunctions2tree).  A predicate is a      *)
(* record; a conjunction, a std::list of predicate indices, is the set of  *)
(* its predicates, as only membership decides what the loop does.  A      *)
(* point's integer data is kept on the attributes of its own annotation,  *)
(* the only ones its derived data is read at.  Horndini reads a label     *)
(* only as "classified true" or not.                                      *)
(***************************************************************************)
EXTENDS Integers, FiniteSets, HornSample

CONSTANTS
  Functions,       \* the annotations: values of categorical attribute 0
  Intervals,       \* Intervals[f]: the integer attributes of annotation f
  Values,          \* the integer attribute values of the data points
  InitLabels,      \* the labels the .data file may give a point
  C,               \* the threshold c of horndini_prephase
  NumConstraints   \* length of the horn_constraints vector

Cids == 1 .. NumConstraints
IntAttrs == UNION { Intervals[f] : f \in Functions }

VARIABLES
  hc, cat, val, lab,  \* the sample (labels as read: lab never changes)
  conj,               \* conjunctions[f] as a set of derived predicates
  prem,               \* the premises left in each derived Horn constraint
  live,               \* the constraints not yet erased
  positive,           \* positive_ptrs
  hpc                 \* "weaken", "scan", "done" or "no_conjunction"

vars == <<hc, cat, val, lab, conj, prem, live, positive, hpc>>

\* Seeded fault: the threshold loop runs one step past c.
DerivedPredsOffByOne(f) ==
  [index : Intervals[f], type : {"GE", "LE", "EQ"}, thr : -C .. C + 1]

\* generate_derived_predicates_and_intervals: the predicates of
\* annotation f (the derived interval of f).
DerivedPreds(f) ==
  [index : Intervals[f], type : {"GE", "LE", "EQ"}, thr : -C .. C]

\* generate_derived_datapoints: the Boolean value of derived predicate q
\* on integer data v.
Holds(v, q) ==
  CASE q.type = "GE" -> v[q.index] >= q.thr
    [] q.type = "LE" -> v[q.index] <= q.thr
    [] q.type = "EQ" -> v[q.index] = q.thr

\* horndini::satisfies: data point p satisfies the conjunction of its
\* annotation in the assignment A.
SatisfiesConj(A, p) == \A q \in A[cat[p]] : Holds(val[p], q)

-----------------------------------------------------------------------------
\* The data points and constraints are read and the derived ones built;
\* conjunctions[i] lists every predicate of the derived interval i, and
\* positive_ptrs the points classified true.
Init ==
  /\ hc \in [Cids -> HornConstraints]
  /\ cat \in [Points -> Functions]
  /\ val \in [Points -> UNION { [Intervals[f] -> Values] : f \in Functions }]
  /\ \A p \in Points : DOMAIN val[p] = Intervals[cat[p]]
  /\ lab \in [Points -> InitLabels]
  /\ conj = [f \in Functions |-> DerivedPreds(f)]
  /\ prem = [k \in Cids |-> hc[k].prem]
  /\ live = Cids
  /\ positive = { p \in Points : lab[p] = "T" }
  /\ hpc = "weaken"

\* Seeded fault: only the front of positive_ptrs is processed before the
\* list is cleared.
WeakenedFront(A, pos) ==
  IF pos = {} THEN A
  ELSE LET p == CHOOSE p \in pos : TRUE
       IN [A EXCEPT ![cat[p]] = @ \ { q \in @ : ~Holds(val[p], q) }]

\* The predicates each positive point falsifies are erased from the
\* conjunction of its annotation.
Weakened(A, pos) ==
  [f \in Functions |->
     A[f] \ { q \in A[f] : \E p \in pos : cat[p] = f /\ ~Holds(val[p], q) }]

\* First half of the do-loop: weaken, then clear positive_ptrs.
Weaken ==
  /\ hpc = "weaken"
  /\ conj' = Weakened(conj, positive)
  /\ positive' = {}
  /\ hpc' = "scan"
  /\ UNCHANGED <<hc, cat, val, lab, prem, live>>

\* Seeded fault: a constraint whose premises are all satisfied is kept.
ErasedKeep(ks, emptied) == ks

\* horn_constraints.erase(horn_it) for the constraints whose premises
\* were all erased.
Erased(ks, emptied) == ks \ emptied

\* Second half: one pass over horn_constraints.  The premises that satisfy
\* their conjunction are erased; a constraint left without premises throws
\* no_conjunction_exists_exception when it has no conclusion, and is
\* otherwise erased with its conclusion made positive.  The loop repeats
\* while new positive points were found.
Scan ==
  /\ hpc = "scan"
  /\ LET left    == [k \in Cids |-> IF k \in live
                                      THEN { p \in prem[k] : ~SatisfiesConj(conj, p) }
                                      ELSE prem[k]]
         emptied == { k \in live : left[k] = {} }
         newPos  == { hc[k].concl : k \in emptied }
     IN IF \E k \in emptied : hc[k].concl = NoConclusion
          THEN /\ hpc' = "no_conjunction"
               /\ UNCHANGED <<prem, live, positive>>
          ELSE /\ prem' = left
               /\ live' = Erased(live, emptied)
               /\ positive' = newPos
               /\ hpc' = IF newPos = {} THEN "done" ELSE "weaken"
  /\ UNCHANGED <<hc, cat, val, lab, conj>>

Next == Weaken \/ Scan

\* horndini::learn runs to completion on main's thread.
Spec == Init /\ [][Next]_vars /\ WF_vars(Next)

-----------------------------------------------------------------------------
(* conjunctions2tree: a categorical node on attribute 0 with the tree of  *)
(* each annotation's conjunction below it.  conjunction2tree turns the     *)
(* list into a chain of int_nodes, one predicate after the other, ending  *)
(* in a true leaf; a false leaf catches each failed predicate.  The value  *)
(* of that chain on integer data v, as output_visitor computes it         *)
(* ("<=" goes to child 0), for the predicates of the set qs in any order.  *)

\* Seeded fault: x >= t is built as int_node(x, t) instead of t - 1.
RECURSIVE ConjTreeValueGEAtThr(_, _)
ConjTreeValueGEAtThr(v, qs) ==
  IF qs = {} THEN TRUE
  ELSE LET q == CHOOSE q \in qs : TRUE
           rest == ConjTreeValueGEAtThr(v, qs \ {q})
       IN CASE q.type = "GE" -> IF v[q.index] <= q.thr THEN FALSE ELSE rest
            [] q.type = "LE" -> IF v[q.index] <= q.thr THEN rest ELSE FALSE
            [] q.type = "EQ" -> IF v[q.index] <= q.thr
                                  THEN IF v[q.index] <= q.thr - 1 THEN FALSE ELSE rest
                                  ELSE FALSE

RECURSIVE ConjTreeValue(_, _)
ConjTreeValue(v, qs) ==
  IF qs = {} THEN TRUE
  ELSE LET q == CHOOSE q \in qs : TRUE
           rest == ConjTreeValue(v, qs \ {q})
       IN CASE q.type = "GE" -> IF v[q.index] <= q.thr - 1 THEN FALSE ELSE rest
            [] q.type = "LE" -> IF v[q.index] <= q.thr THEN rest ELSE FALSE
            [] q.type = "EQ" -> IF v[q.index] <= q.thr
                                  THEN IF v[q.index] <= q.thr - 1 THEN FALSE ELSE rest
                                  ELSE FALSE

\* The Horndini tree's value on a point of annotation f with data v.
HorndiniTreeValue(f, v) == ConjTreeValue(v, conj[f])

-----------------------------------------------------------------------------
\* The type, with the debug checks of horndini_prephase: every predicate
\* left in conjunctions[i] is on an attribute of interval i, and its
\* threshold lies within -c .. c.
TypeOK ==
  /\ hc \in [Cids -> HornConstraints]
  /\ \A p \in Points : cat[p] \in Functions /\ val[p] \in [Intervals[cat[p]] -> Values]
  /\ \A f \in Functions :
       conj[f] \subseteq [index : Intervals[f], type : {"GE", "LE", "EQ"}, thr : -C .. C]
  /\ prem \in [Cids -> SUBSET Points] /\ live \subseteq Cids
  /\ positive \subseteq Points
  /\ hpc \in {"weaken", "scan", "done", "no_conjunction"}

\* An assignment of conjunctions is inductive for the sample: every point
\* classified true satisfies its annotation's conjunction, and every
\* constraint whose premises all do has a conclusion that does too.
Inductive(A) ==
  /\ \A p \in Points : lab[p] = "T" => SatisfiesConj(A, p)
  /\ \A k \in Cids :
       (\A p \in hc[k].prem : SatisfiesConj(A, p))
         => hc[k].concl # NoConclusion /\ SatisfiesConj(A, hc[k].concl)

Assignments == { A \in [Functions -> SUBSET UNION { DerivedPreds(f) : f \in Functions }] :
                   \A f \in Functions : A[f] \subseteq DerivedPreds(f) }

\* The predicates conj[f] lacks, each tagged with its annotation f.
Dropped == UNION { { << f, q >> : q \in DerivedPreds(f) \ conj[f] } : f \in Functions }

\* conj with the tagged predicates of the set back added.
WithBack(back) == [f \in Functions |-> conj[f] \cup { e[2] : e \in { b \in back : b[1] = f } }]

\* Houdini's guarantee, which the prephase relies on: the loop ends with
\* the strongest inductive conjunctions, and throws no_conjunction_exists
\* only when no assignment is inductive.  (Inductive assignments are
\* closed under union, so conj is the strongest exactly when it is
\* inductive and putting back any of the dropped predicates is not.)
HorndiniStrongestInductive ==
  /\ hpc = "done" =>
       /\ Inductive(conj)
       /\ \A back \in (SUBSET Dropped) \ {{}} : ~Inductive(WithBack(back))
  /\ hpc = "no_conjunction" => \A A \in Assignments : ~Inductive(A)

\* The tree conjunctions2tree builds computes the conjunction: at every
\* stage of the loop and on every integer data, not only the sample's (the
\* values -C-1 .. C+1 cover every way a derived predicate can go), a
\* point of annotation f reaches a true leaf exactly when it satisfies
\* every predicate of conj[f].
TreeComputesConjunction ==
    \A f \in Functions, v \in [IntAttrs -> -C-1 .. C+1] :
       HorndiniTreeValue(f, v) = \A q \in conj[f] : Holds(v, q)

\* horndini::learn terminates: each round either drops a predicate or
\* erases a constraint, or stops.
HorndiniTerminates == <>(hpc \in {"done", "no_conjunction"})

=============================================================================
