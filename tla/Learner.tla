------------------------------- MODULE Learner -------------------------------
(***************************************************************************)
(* The decision-tree learner of hice-dt with one bound: main's initial     *)
(* Horn-solver run and the commit of its result (hice-dt.cpp), then        *)
(* learner::learn's loop over the slices kept by complex_job_manager       *)
(* (simple_job_manager.h) and the jobs it returns (job.cpp).               *)
(*                                                                         *)
(* A slice is the set of data points of a contiguous range of              *)
(* datapoint_ptrs together with the tree node it fills; its order inside   *)
(* the range only matters to the sorting, which the partition into child   *)
(* slices captures.  The tree is a function from node paths (the child     *)
(* indices from the root) to nodes.  Every call of horn_solver::solve is   *)
(* replaced by what MC_HornSolver checks of the detailed solver            *)
(* (SolveVerdictExact, ClosureExact): the result is Consistent and the     *)
(* returned sets are ForcedTrue and ForcedFalse.  Which slice next_job takes        *)
(* (BFS, DFS, random or entropy based) and which cut find_best_split picks *)
(* (the best gain ratio, computed in floating point) are nondeterministic. *)
(***************************************************************************)
EXTENDS Integers, FiniteSets, Sequences, TLC, HornSample

CONSTANTS
  Categories,      \* values of the categorical attribute 0 (the annotation)
  IntAttrs,        \* indices of the integer attributes
  Values,          \* the integer attribute values the data points take
  NumConstraints,  \* length of the horn_constraints vector
  Bounded,         \* _are_numerical_cuts_thresholded
  Threshold,       \* _threshold: cuts must lie in -Threshold .. Threshold
  PreferConjuncts  \* _conjunctive_setting = PREFERENCEFORCONJUNCTS

Cids == 1 .. NumConstraints

VARIABLES
  hc, cat, val,    \* the sample: constraints and attribute values
  lab0,            \* the labels read from the data file
  lab,             \* _is_classified/_classification of every data point
  slices,          \* complex_job_manager::_slices
  tree,            \* the nodes created so far, by path
  isFirstSplit,    \* _is_first_split
  phase,           \* "init", "learn", "done", or the exception thrown
  thresholded,     \* _are_numerical_cuts_thresholded of the job manager
  threshold        \* _threshold of the job manager

vars == <<hc, cat, val, lab0, lab, slices, tree, isFirstSplit, phase,
          thresholded, threshold>>

Slice(pts, path) == [pts |-> pts, path |-> path]
Leaf(b) == [kind |-> "leaf", attr |-> 0, thr |-> 0, label |-> b]

\* Seeded fault: the node records the attribute's index among all
\* attributes, the categorical one first.
IntSplitNodeGlobalIndex(a, t) == [kind |-> "int", attr |-> a + 1, thr |-> t, label |-> FALSE]

\* new int_node(_attribute, _threshold) of an int_split_job.
IntSplitNode(a, t) == [kind |-> "int", attr |-> a, thr |-> t, label |-> FALSE]

\* Seeded fault: next_job does not erase the slice it takes.
TakeSliceWithoutErase(s) == slices

\* next_job takes slice s out of _slices.
TakeSlice(s) == slices \ {s}

\* The labelling after a leaf_creation_job or main's commit of a solver
\* result: "positive" becomes true and "negative" false.
Commit(l, P, N) ==
  [p \in Points |-> IF p \in P THEN "T" ELSE IF p \in N THEN "F" ELSE l[p]]

-----------------------------------------------------------------------------
(* simple_job_manager::is_leaf: the labels occurring in the slice decide    *)
(* whether it becomes a leaf, with which label, and which points the Horn  *)
(* solver labels on the way.  Each outcome is a record [label, P, N]; the  *)
(* set is empty when the slice must be split.                              *)
\* Seeded fault: the result of solve is ignored.
SolveLeafIgnoringResult(b, P, N) ==
  {[label |-> b, P |-> ForcedTrue(hc, lab, P, N), N |-> ForcedFalse(hc, lab, P, N)]}

SolveLeaf(b, P, N) ==
  IF Consistent(hc, lab, P, N)
    THEN {[label |-> b, P |-> ForcedTrue(hc, lab, P, N),
                        N |-> ForcedFalse(hc, lab, P, N)]}
    ELSE {}

IsLeaf(s) ==
  LET hasT == \E p \in s.pts : lab[p] = "T"
      hasF == \E p \in s.pts : lab[p] = "F"
      unl  == { p \in s.pts : lab[p] = "U" }
  IN CASE hasT /\ hasF -> {}
       [] unl = {}     -> {[label |-> hasT, P |-> {}, N |-> {}]}
       [] hasT         -> SolveLeaf(TRUE, unl, {})
       [] hasF         -> SolveLeaf(FALSE, {}, unl)
       [] OTHER        -> IF SolveLeaf(TRUE, unl, {}) # {}
                            THEN SolveLeaf(TRUE, unl, {})
                            ELSE SolveLeaf(FALSE, {}, unl)

\* find_best_split's candidate cuts for integer attribute a: the value of
\* each point that some point of the slice exceeds, within the threshold
\* when cuts are thresholded.
Cuts(s, a) ==
  { v \in { val[p][a] : p \in s.pts } :
      /\ \E q \in s.pts : val[q][a] > v
      /\ ~thresholded \/ (-threshold <= v /\ v <= threshold) }

\* positive_points_present: some point of S is classified true.
PositivePresent(S) == \E p \in S : lab[p] = "T"

\* find_best_split's loop over the categorical attributes: the only one,
\* attribute 0, is a candidate when the slice holds two of its categories
\* (one category makes split_possible false).  Every slice after the
\* first split holds a single category.
CatSplitPossible(s) == \E p, q \in s.pts : cat[p] # cat[q]

\* The candidate cuts of the loop over the integer attributes.
IntSplitCandidates(s) == { at \in IntAttrs \X Values : at[2] \in Cuts(s, at[1]) }

\* A cut after which one side of the slice has no positive point: a
\* candidate for a conjunctive split.
ConjunctiveCut(s, a, t) ==
  \/ ~PositivePresent({ p \in s.pts : val[p][a] <= t })
  \/ ~PositivePresent({ p \in s.pts : val[p][a] > t })

\* The int split find_best_split settles on: under PREFERENCEFORCONJUNCTS
\* the best conjunctive cut whenever there is one (conj_int_split_possible),
\* otherwise the best cut.  Which one is best (gain ratio, intrinsic
\* value, the smaller threshold on ties) is left open.
BestIntSplits(s) ==
  LET conj == { at \in IntSplitCandidates(s) : ConjunctiveCut(s, at[1], at[2]) }
  IN IF PreferConjuncts /\ conj # {} THEN conj ELSE IntSplitCandidates(s)

\* The jobs find_best_split returns for slice s; none means that it throws
\* split_not_possible_error.  With both kinds possible, the comparison of
\* the gain ratios picks either.
FindBestSplit(s) ==
  { [kind |-> "int", attr |-> at[1], thr |-> at[2]] : at \in BestIntSplits(s) }
  \cup (IF CatSplitPossible(s) THEN {[kind |-> "cat", attr |-> 0, thr |-> 0]} ELSE {})

\* Seeded fault: the int_node test is value < threshold.
RECURSIVE OutputStrict(_, _)
OutputStrict(p, path) ==
  LET n == tree[path] IN
  CASE n.kind = "leaf" -> n.label
    [] n.kind = "cat"  -> OutputStrict(p, Append(path, cat[p]))
    [] OTHER           -> OutputStrict(p, Append(path, IF val[p][n.attr] < n.thr
                                                         THEN 0 ELSE 1))

\* output_visitor: the value of the tree for data point p from node path.
RECURSIVE Output(_, _)
Output(p, path) ==
  LET n == tree[path] IN
  CASE n.kind = "leaf" -> n.label
    [] n.kind = "cat"  -> Output(p, Append(path, cat[p]))
    [] OTHER           -> Output(p, Append(path, IF val[p][n.attr] <= n.thr
                                                   THEN 0 ELSE 1))

-----------------------------------------------------------------------------
(* complex_job_manager::update_datapoint_ptrs_to_frac_with_complete_horn_  *)
(* assignments (entropy criterion HORN_ASSIGNMENTS): each of its three     *)
(* rounds builds one complete Horn assignment.  Starting from the          *)
(* unclassified points, it picks one (rand()), proposes it true or false  *)
(* on top of the sets of the previous solve, calls solve, asserts it       *)
(* succeeded, and erases from the list every point the solver returned,   *)
(* until the list is empty.  The rounds are independent runs of the same  *)
(* loop; the fractions they average are scores only, so what the model    *)
(* keeps of them is which points the score map has.  A configuration of   *)
(* the loop is [temp, P, N]: the list and the two sets.                   *)

\* _unclassified_datapoint_ptrs_stable.
Unclassified == { p \in Points : lab[p] = "U" }

\* Seeded fault: positive_ptrs and negative_ptrs are declared inside the
\* while loop, so each solve sees only the newly picked point.
ProposalFresh(c, x, b) ==
  [P |-> IF b THEN {x} ELSE {}, N |-> IF b THEN {} ELSE {x}]

\* The picked point x is inserted into positive_ptrs (b) or negative_ptrs.
Proposal(c, x, b) ==
  [P |-> IF b THEN c.P \cup {x} ELSE c.P, N |-> IF b THEN c.N ELSE c.N \cup {x}]

\* Seeded fault: only the points of positive_ptrs are erased from the list.
RemainingAfterPositiveOnly(temp, P, N) == temp \ P

\* The two erase loops after the solve.
RemainingAfter(temp, P, N) == temp \ (P \cup N)

\* The while condition fails: the list is empty.
LoopDone(temp) == temp = {}

\* One pass of the while body from configuration c, for each pick that
\* the solver accepts (a rejected one ends the program at assert(ok)).
SamplingStep(c) ==
  { LET fT == ForcedTrue(hc, lab, pr.P, pr.N)
        fF == ForcedFalse(hc, lab, pr.P, pr.N)
    IN [temp |-> RemainingAfter(c.temp, fT, fF), P |-> fT, N |-> fF] :
      pr \in { q \in { Proposal(c, x, b) : x \in c.temp, b \in BOOLEAN } :
                Consistent(hc, lab, q.P, q.N) } }

\* The configurations the loop of one round can reach (a fixpoint, so a
\* loop that fails to shrink its list is still explored to its end).
RECURSIVE SamplingClosure(_)
SamplingClosure(S) ==
  LET S2 == S \cup UNION { SamplingStep(c) : c \in { d \in S : ~LoopDone(d.temp) } }
  IN IF S2 = S THEN S ELSE SamplingClosure(S2)

SamplingConfigs ==
  SamplingClosure({[temp |-> Unclassified, P |-> {}, N |-> {}]})

\* The complete Horn assignment of a finished round as a total labelling:
\* initialize_datapoint_ptrs_to_frac gives the classified points their
\* label, the round's positive_ptrs 1.0 and negative_ptrs 0.0; a point of
\* neither has no entry (FALSE here, and no entry in Keyed).
Assignment(c) == [p \in Points |-> lab[p] = "T" \/ p \in c.P]
Keyed(c) == { p \in Points : lab[p] # "U" } \cup c.P \cup c.N

\* next_job calls the sampling before every job after the first split
\* when the node selection is entropy based, and otherwise before
\* splitting a slice with unclassified points.
SamplingCalled == phase = "learn" /\ ~isFirstSplit /\ slices # {}

-----------------------------------------------------------------------------
Init ==
  /\ hc \in [Cids -> HornConstraints]
  /\ cat \in [Points -> Categories]
  /\ val \in [Points -> [IntAttrs -> Values]]
  /\ lab0 \in [Points -> Labels]
  /\ lab = lab0
  /\ slices = {}
  /\ tree = <<>>
  /\ isFirstSplit = TRUE
  /\ phase = "init"
  /\ thresholded = Bounded
  /\ threshold = Threshold

\* Seeded fault: main does not commit the initial run's result.
InitialCommitSkipped == lab

\* main commits the initial run's closure to the data points.
InitialCommit ==
  Commit(lab, ForcedTrue(hc, lab, {}, {}), ForcedFalse(hc, lab, {}, {}))

\* main's initial run of the solver with empty proposals: on success the
\* points it forces are labelled, and learn adds the slice of all points;
\* otherwise sample_error is thrown.
InitialRun ==
  /\ phase = "init"
  /\ IF Consistent(hc, lab, {}, {})
       THEN /\ lab' = InitialCommit
            /\ slices' = {Slice(Points, <<>>)}
            /\ phase' = "learn"
       ELSE /\ phase' = "sample_error"
            /\ UNCHANGED <<lab, slices>>
  /\ UNCHANGED <<hc, cat, val, lab0, thresholded, threshold, tree, isFirstSplit>>

\* The first job: a categorical_split_job on attribute 0, one child slice
\* per category that occurs.
FirstSplit(s) ==
  /\ phase = "learn"
  /\ isFirstSplit
  /\ s \in slices
  /\ isFirstSplit' = FALSE
  /\ tree' = tree @@ (s.path :> [kind |-> "cat", attr |-> 0, thr |-> 0,
                                 label |-> FALSE])
  /\ slices' = TakeSlice(s) \cup
                 { Slice({ p \in s.pts : cat[p] = c }, Append(s.path, c)) :
                     c \in { cat[p] : p \in s.pts } }
  /\ UNCHANGED <<hc, cat, val, lab0, thresholded, threshold, lab, phase>>

\* next_job finds that slice s can be a leaf; the leaf_creation_job makes
\* the leaf and labels the points the solver returned.
MakeLeaf(s) ==
  /\ phase = "learn"
  /\ ~isFirstSplit
  /\ s \in slices
  /\ \E o \in IsLeaf(s) :
       /\ tree' = tree @@ (s.path :> Leaf(o.label))
       /\ lab' = Commit(lab, o.P, o.N)
  /\ slices' = TakeSlice(s)
  /\ UNCHANGED <<hc, cat, val, lab0, thresholded, threshold, isFirstSplit, phase>>

\* next_job finds that slice s must be split; find_best_split returns an
\* int_split_job at cut t of attribute a, which makes an int_node and the
\* slices of the points at most t and above t.
IntSplit(s, a, t) ==
  /\ phase = "learn"
  /\ ~isFirstSplit
  /\ s \in slices
  /\ IsLeaf(s) = {}
  /\ [kind |-> "int", attr |-> a, thr |-> t] \in FindBestSplit(s)
  /\ tree' = tree @@ (s.path :> IntSplitNode(a, t))
  /\ slices' = TakeSlice(s) \cup
                 { Slice({ p \in s.pts : val[p][a] <= t }, Append(s.path, 0)),
                   Slice({ p \in s.pts : val[p][a] > t }, Append(s.path, 1)) }
  /\ UNCHANGED <<hc, cat, val, lab0, thresholded, threshold, lab, isFirstSplit, phase>>

\* find_best_split returns no job (neither an int nor a categorical split is
\* possible): split_not_possible_error is thrown.
SplitNotPossible(s) ==
  /\ phase = "learn"
  /\ ~isFirstSplit
  /\ s \in slices
  /\ IsLeaf(s) = {}
  /\ FindBestSplit(s) = {}
  /\ phase' = "split_not_possible"
  /\ UNCHANGED <<hc, cat, val, lab0, thresholded, threshold, lab, slices, tree, isFirstSplit>>

\* has_jobs() is false: learn returns the tree.
LearnDone ==
  /\ phase = "learn"
  /\ slices = {}
  /\ phase' = "done"
  /\ UNCHANGED <<hc, cat, val, lab0, thresholded, threshold, lab, slices, tree, isFirstSplit>>

Next ==
  \/ InitialRun
  \/ LearnDone
  \/ \E s \in slices :
       \/ FirstSplit(s)
       \/ MakeLeaf(s)
       \/ SplitNotPossible(s)
       \/ \E a \in IntAttrs, t \in Values : IntSplit(s, a, t)

\* learn runs on one thread and takes a job whenever one is pending.
Spec == Init /\ [][Next]_vars /\ WF_vars(Next)

-----------------------------------------------------------------------------
Phases == {"init", "learn", "done", "sample_error", "split_not_possible"}
Nodes  == [kind : {"cat", "int", "leaf"}, attr : IntAttrs \cup {0},
           thr : Values \cup {0}, label : BOOLEAN]

TypeOK ==
  /\ hc \in [Cids -> HornConstraints]
  /\ cat \in [Points -> Categories] /\ val \in [Points -> [IntAttrs -> Values]]
  /\ lab0 \in [Points -> Labels] /\ lab \in [Points -> Labels]
  /\ \A s \in slices : s.pts \subseteq Points /\ s.path \in Seq(Nat)
  /\ \A path \in DOMAIN tree : tree[path] \in Nodes
  /\ isFirstSplit \in BOOLEAN
  /\ phase \in Phases
  /\ thresholded \in BOOLEAN /\ threshold \in Int

\* spec.md section 8, tree soundness, and the assertion after learn in
\* main: the tree learn returns gives every labelled data point its label
\* and satisfies every Horn constraint (learner::is_consistent), whatever
\* order the slices were processed in and whichever cuts were chosen.
TreeConsistent ==
  phase = "done" =>
    LET out == [p \in Points |-> Output(p, <<>>)] IN
    /\ \A p \in Points : lab[p] # "U" => out[p] = (lab[p] = "T")
    /\ \A p \in Points : lab0[p] # "U" => out[p] = (lab0[p] = "T")
    /\ \A k \in Cids : Satisfies(out, hc[k])

\* The assertions num_classified_points(...) > 0 in find_best_split
\* (simple_job_manager.h): a slice that is_leaf refuses has a labelled
\* point.  It rests on the labels being closed under the constraints,
\* which main's initial run and every leaf_creation_job maintain.
SplitSliceHasClassifiedPoint ==
  phase = "learn" /\ ~isFirstSplit =>
    \A s \in slices : IsLeaf(s) = {} => \E p \in s.pts : lab[p] # "U"

\* spec.md section 3: a label, once true or false, never flips; the
\* learner only commits what the solver returned.
LabelsNeverFlip ==
  [][\A p \in Points : lab[p] # "U" => lab'[p] = lab[p]]_vars

\* The assert(ok) of the Horn-assignment sampling: whatever points and
\* labels rand() picks, the solver accepts each proposal.  It rests on the
\* solver returning the exact closure and on both erase loops: a point
\* left in the list after the solver fixed it could be proposed with the
\* other label.
HornAssignmentSolveSucceeds ==
  SamplingCalled =>
    \A c \in SamplingConfigs : \A x \in c.temp, b \in BOOLEAN :
      Consistent(hc, lab, Proposal(c, x, b).P, Proposal(c, x, b).N)

\* Each round of the sampling yields what its name promises, a complete
\* Horn assignment: the score map has an entry for every point (the
\* assert in entropy()), and the labelling satisfies every constraint.
HornAssignmentsComplete ==
  SamplingCalled =>
    \A c \in SamplingConfigs : LoopDone(c.temp) =>
      /\ Keyed(c) = Points
      /\ \A k \in DOMAIN hc : Satisfies(Assignment(c), hc[k])

\* Some labelling extends the input labels, satisfies the constraints and
\* agrees on points that no tree can tell apart (same category and
\* values): a consistent tree exists without a bound on the cuts.
TreeExists ==
  \E a \in [Points -> BOOLEAN] :
     /\ Agrees(a, lab0)
     /\ \A k \in Cids : Satisfies(a, hc[k])
     /\ \A p, q \in Points : cat[p] = cat[q] /\ val[p] = val[q] => a[p] = a[q]

\* spec.md section 1: the engine produces a consistent classifier "or
\* proves that no such classifier exists".  Without a bound,
\* split_not_possible_error ends hice-dt with a failure.
NoSplitOnlyIfNoTree ==
  phase = "split_not_possible" => ~TreeExists

=============================================================================
