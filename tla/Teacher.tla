------------------------------- MODULE Teacher -------------------------------
(***************************************************************************)
(* The chc_verifier teacher: learn2 of chc_verifier.cpp with the learner   *)
(* behind learner_interface and api (hice-dt's library entry), as main     *)
(* runs it without -h.  The CHC problem is abstracted to its ground        *)
(* instances over a finite set of teacher data points: a CHC              *)
(* R(x) /\ phi => S(y) has one shape (the relations of its body and head, *)
(* NoRel for none) and the instances Z3's models can give, each a pair    *)
(* lhs => rhs of at most one point each.  A conjecture is the set of      *)
(* points it makes true; the formula a relation without sample points     *)
(* inherits from another relation keeps that relation's variables, which  *)
(* stay free in the CHC, so Z3 picks its value in each check ("free").    *)
(* check_chc returns whichever violated instance Z3's model picks, or     *)
(* reports UNKNOWN.  The learner is used through the contract of          *)
(* api_helper::learn_decision_tree on a sample of distinct points (where  *)
(* the unbounded learner always finds a tree when one exists): a tree     *)
(* consistent with the sample, or, on an inconsistent sample, what the    *)
(* build makes of a function that falls off its end.                      *)
(***************************************************************************)
EXTENDS Naturals, FiniteSets, HornSample

CONSTANTS
  Relations,     \* p.relations: the uninterpreted predicates
  RelOf,         \* RelOf[p]: the relation of teacher data point p
  NoRel,         \* no relation on that side of a CHC
  CHCs,          \* the indices of p.chcs
  MaxInstances,  \* the most ground instances a CHC is given
  RelOrder,      \* the relations in the order learner_interface numbers them
  FalseArgPoints \* the points whose relation has a Bool argument, false at them

ASSUME NoRel \notin Relations
ASSUME FalseArgPoints \subseteq Points
ASSUME { RelOrder[i] : i \in DOMAIN RelOrder } = Relations

PointsOf(r) == { p \in Points : RelOf[p] = r }

\* The ground instances of a CHC whose body has relation l and head r.
Instances(l, r) ==
  [lhs : IF l = NoRel THEN {{}} ELSE { {p} : p \in PointsOf(l) },
   rhs : IF r = NoRel THEN {{}} ELSE { {p} : p \in PointsOf(r) }]

Parser == INSTANCE ChcParser

\* The relation of a side of a parsed CHC, NoRel for none.
SideRel(S) == IF S = {} THEN NoRel ELSE CHOOSE r \in S : TRUE

\* The body and head relations of the CHCs seahorn_smtlib2_parser::parse
\* produces, with at most one relation in the body.
ParsedShapes ==
  { << SideRel(x.lhs), SideRel(x.rhs) >> :
      x \in { y \in Parser!ParsedChcs : Cardinality(y.lhs) <= 1 } }

\* The CHCs a problem may have: a parsed shape, and some of the instances
\* of that shape (no instance: the CHC is valid).
ChcShapes ==
  UNION { { [lhsRel |-> sh[1], rhsRel |-> sh[2], inst |-> I] :
              I \in { S \in SUBSET Instances(sh[1], sh[2]) : Cardinality(S) <= MaxInstances } } :
          sh \in ParsedShapes }

VARIABLES
  chc,       \* p.chcs: the problem
  lab,       \* the learner data points' classification ("U": none, or absent)
  horn,      \* api::horn_indexes as Horn constraints
  conj,      \* the conjectures of this round, their closed part
  free,      \* free[r]: the values r's conjecture can take in a check ({}: closed)
  prev,      \* previous_conjectures
  prevFree,  \* their free part
  hasPrev,   \* previous_conjectures is not empty
  unsat,     \* unsatisfied_chcs (satisfied_chcs is the rest)
  cexs,      \* the counterexamples of this round
  garbage,   \* the conjectures come from a tree learn_decision_tree never returned
  tpc        \* where learn2 is

vars == <<chc, lab, horn, conj, free, prev, prevFree, hasPrev, unsat, cexs,
          garbage, tpc>>

\* Every conjecture closed.
Closed == [r \in Relations |-> {}]

\* chc.uninterpreted_predicates.
Preds(c) == { chc[c].lhsRel, chc[c].rhsRel } \ {NoRel}

\* check_chc: the instances of CHC c that conjecture A violates (the
\* models of !chc_expr after the conjectures are substituted).
Violating(c, A) ==
  { g \in chc[c].inst : g.lhs \subseteq A /\ g.rhs \cap A = {} }

\* z3_helper::substitute replaces a relation's own variables by the
\* arguments; an inherited formula has none of them, so it keeps the other
\* relation's variables, which are constants of the query: one value for
\* all occurrences in a check, chosen by Z3's model.  The conjectures a
\* check may see.
QueryConjs(A, F) ==
  { A \cup UNION { PointsOf(r) : r \in { x \in Relations : ch[x] } } :
      ch \in { d \in [Relations -> BOOLEAN] :
                 \A r \in Relations : IF F[r] = {} THEN ~d[r] ELSE d[r] \in F[r] } }

\* check_chc against conjectures (A, F): the instances some model violates.
ViolatedBy(c, A, F) == UNION { Violating(c, B) : B \in QueryConjs(A, F) }

\* chc_verifier::naive_check: no CHC has a counterexample.
NaiveCheckPasses(A, F) == \A c \in CHCs : ViolatedBy(c, A, F) = {}

\* get_unique_learner_datapoint: the teacher points that have a learner
\* data point, i.e. that some counterexample mentioned.
SamplePoints ==
  { p \in Points : lab[p] # "U" } \cup UNION { h.prem \cup ({h.concl} \ {NoConclusion}) : h \in horn }

\* relation2ID: the category learner_interface gives relation r.
RelId(r) == CHOOSE i \in DOMAIN RelOrder : RelOrder[i] = r

\* categorical_split_job: the categories that get a child slice, those
\* with a learner data point; the other children stay null.
SampledRels == { r \in Relations : PointsOf(r) \cap SamplePoints # {} }

\* get_z3_exp_categorical walks the children in category order and sets
\* `expression` only at a non-null child, so a null child gets the formula
\* of the last earlier relation with a child, or false before any.
StaleSource(r) ==
  LET earlier == { q \in SampledRels : RelId(q) < RelId(r) }
  IN IF earlier = {} THEN NoRel
     ELSE CHOOSE q \in earlier : \A q2 \in earlier : RelId(q2) <= RelId(q)

\* get_z3_exp_leaf and get_z3_exp_int: the sets of truth values the child
\* of relation q can take over all values of q's variables, given the
\* values A gives q's points: a leaf has one, an int_node at least those.
ChildValues(q, kind, A) ==
  LET at == { x \in BOOLEAN : \E p \in PointsOf(q) : (p \in A) = x }
  IN IF kind = "leaf" THEN IF Cardinality(at) = 1 THEN {at} ELSE {}
     ELSE { V \in SUBSET BOOLEAN : at \subseteq V }

\* dt_to_z3_exp::get_unordered_map on the learner's tree, whose root is
\* the first (categorical) split, when the tree gives the sampled
\* relations' points the set S and its children have the kinds and value
\* sets kind and vals: a relation with a child gets its subtree; one
\* without gets the inherited formula, closed when it comes from a leaf or
\* from the initial false.
FromTree(S, kind, vals) ==
  LET inherits(r, k) == r \notin SampledRels /\ StaleSource(r) # NoRel
                        /\ kind[StaleSource(r)] = k
  IN [conj |-> S \cup UNION { PointsOf(r) :
                               r \in { x \in Relations : inherits(x, "leaf")
                                                         /\ vals[StaleSource(x)] = {TRUE} } },
      free |-> [r \in Relations |-> IF inherits(r, "int") THEN vals[StaleSource(r)] ELSE {}]]

\* learner::learn on no data points: a leaf labelled true, which
\* get_unordered_map gives every relation.
EmptySampleAnswer == [conj |-> Points, free |-> Closed]

\* get_z3_exp_int at a split on a Bool attribute: the left branch (the
\* argument false, stored as -1 <= -1) gets attr && (threshold == 1),
\* which is false, and the right one attr && true.  So the formula is the
\* subtree except at the points with a false Bool argument that reach such
\* a split, where it is false: the sets of points of S the formulas of the
\* int_node children (kinds kind) can lose.
BoolSplitDropped(S, kind) ==
  SUBSET { p \in S \cap FalseArgPoints : kind[RelOf[p]] = "int" }

\* api_helper::learn_decision_tree, when it returns: a tree consistent with
\* the sample (under the learner's assert), as conjectures.
LearnerAnswers ==
  IF SamplePoints = {} THEN {EmptySampleAnswer}
  ELSE LET Fits(T) == LET a == [p \in Points |-> p \in T] IN
                            Agrees(a, lab) /\ \A h \in horn : Satisfies(a, h)
           Sampled == UNION { PointsOf(q) : q \in SampledRels }
           Answers(S, kind) ==
             UNION { { FromTree(S \ D, kind, vals) :
                         vals \in { v \in [SampledRels -> SUBSET BOOLEAN] :
                                      \A q \in SampledRels :
                                        v[q] \in ChildValues(q, kind[q], S \ D) } } :
                     D \in BoolSplitDropped(S, kind) }
       IN UNION { UNION { Answers(S, kind) : kind \in [SampledRels -> {"leaf", "int"}] } :
                  S \in { T \in SUBSET Sampled : Fits(T) } }

\* The changed map: a relation whose conjecture differs counts as changed;
\* one whose conjecture is equal on the points may still differ as an
\* expression (conjecture::operator== compares formulas); in the first
\* round every relation is new.
ChangedChoices ==
  { ch \in [Relations -> BOOLEAN] :
      \A r \in Relations :
        (\/ ~hasPrev
         \/ conj \cap PointsOf(r) # prev \cap PointsOf(r)
         \/ free[r] # prevFree[r]) => ch[r] }

\* The unsatisfied CHCs that are checked again: one of their predicates
\* changed.
RecheckedUnsatisfied(ch) == { c \in unsat : \E r \in Preds(c) : ch[r] }

\* Seeded fault: the loop over satisfied_chcs is left out.
RecheckedSatisfiedNone(ch) == {}

\* The satisfied CHCs that are checked again.
RecheckedSatisfied(ch) == { c \in CHCs \ unsat : \E r \in Preds(c) : ch[r] }

\* Seeded fault: add_horn_constraints does not store the constraint.
HornAddedNone(h, gs) == h

\* Seeded fault: the consequence set is stored where its point belongs.
HornAddedRhsSet(h, gs) == h \cup { [prem |-> g.lhs, concl |-> g.rhs] : g \in gs }

\* add_counterexample's Horn case and add_horn_constraints: lhs => rhs is
\* pushed to horn_indexes.  (An instance has one point on each side here,
\* so a Horn counterexample always has its conclusion.)
HornAdded(h, gs) ==
  h \cup { [prem |-> g.lhs, concl |-> CHOOSE p \in g.rhs : TRUE] : g \in gs }

-----------------------------------------------------------------------------
\* The problem is parsed; every CHC is unsatisfied and the sample empty.
Init ==
  /\ chc \in [CHCs -> ChcShapes]
  /\ lab = [p \in Points |-> "U"]
  /\ horn = {}
  /\ conj = {} /\ free = Closed
  /\ prev = {} /\ prevFree = Closed /\ hasPrev = FALSE
  /\ unsat = CHCs
  /\ cexs = {}
  /\ garbage = FALSE
  /\ tpc = "learn"

\* learner.get_conjectures(): api::learn_decision_tree copies the data
\* points and runs api_helper::learn_decision_tree, and dt_to_z3_exp turns
\* the tree into conjectures.  On an inconsistent sample every attempt
\* throws sample_error; the last one is caught by the catch-all, which
\* prints and falls off the end of the function: the caller gets whatever
\* object the build leaves, or crashes.
GetConjectures ==
  /\ tpc = "learn"
  /\ IF LearnerAnswers # {}
       THEN /\ \E ans \in LearnerAnswers : conj' = ans.conj /\ free' = ans.free
            /\ garbage' = FALSE
            /\ tpc' = "check"
       ELSE \/ /\ conj' \in SUBSET Points
               /\ free' = Closed
               /\ garbage' = TRUE
               /\ tpc' = "check"
            \/ /\ tpc' = "crashed"
               /\ UNCHANGED <<conj, free, garbage>>
  /\ UNCHANGED <<chc, lab, horn, prev, prevFree, hasPrev, unsat, cexs>>

\* Both loops of a round: each CHC with a changed predicate is checked with
\* Z3; a violated one yields one counterexample and is (or becomes)
\* unsatisfied, the others are satisfied.  A check Z3 answers with UNKNOWN
\* throws out of learn2.
CheckChcs ==
  /\ tpc = "check"
  /\ \E ch \in ChangedChoices :
       LET R == RecheckedUnsatisfied(ch) \cup RecheckedSatisfied(ch)
           V(c) == ViolatedBy(c, conj, free)
       IN
       \/ \E pick \in [R -> {{}} \cup { {g} : g \in UNION { V(c) : c \in R } }] :
             /\ \A c \in R : pick[c] \in IF V(c) = {} THEN {{}} ELSE { {g} : g \in V(c) }
             /\ unsat' = { c \in CHCs : IF c \in R THEN pick[c] # {} ELSE c \in unsat }
             /\ cexs' = UNION { pick[c] : c \in R }
             /\ tpc' = "add"
       \/ /\ R # {}
          /\ tpc' = "unknown"
          /\ UNCHANGED <<unsat, cexs>>
  /\ UNCHANGED <<chc, lab, horn, conj, free, prev, prevFree, hasPrev, garbage>>

\* learner.add_counterexample for each counterexample: a positive one
\* (no lhs) or a negative one (one lhs point, no rhs) labels its point,
\* and throws "Contradicting counterexample" when the point has the other
\* label; any other is a Horn constraint.  Then previous_conjectures is
\* set and the loop ends when no CHC is unsatisfied.
AddCounterexamples ==
  /\ tpc = "add"
  /\ LET pos == { p \in Points : \E g \in cexs : g.lhs = {} /\ g.rhs = {p} }
         neg == { p \in Points : \E g \in cexs : g.lhs = {p} /\ g.rhs = {} }
         hs  == { g \in cexs : g.lhs # {} /\ g.rhs # {} }
     IN IF \/ \E p \in pos : lab[p] = "F"
           \/ \E p \in neg : lab[p] = "T"
           \/ pos \cap neg # {}
          THEN /\ tpc' = "contradiction"
               /\ UNCHANGED <<lab, horn, prev, prevFree, hasPrev, cexs>>
          ELSE /\ lab' = [p \in Points |-> IF p \in pos THEN "T"
                                            ELSE IF p \in neg THEN "F" ELSE lab[p]]
               /\ horn' = HornAdded(horn, hs)
               /\ prev' = conj /\ prevFree' = free /\ hasPrev' = TRUE
               /\ cexs' = {}
               /\ tpc' = IF unsat = {} THEN "success" ELSE "learn"
  /\ UNCHANGED <<chc, conj, free, unsat, garbage>>

Next == GetConjectures \/ CheckChcs \/ AddCounterexamples

\* learn2 runs on main's thread to completion.
Spec == Init /\ [][Next]_vars /\ WF_vars(Next)

-----------------------------------------------------------------------------
TPCs == {"learn", "check", "add", "success", "unknown", "contradiction", "crashed"}

TypeOK ==
  /\ chc \in [CHCs -> ChcShapes]
  /\ lab \in [Points -> Labels]
  /\ horn \subseteq HornConstraints
  /\ conj \subseteq Points /\ prev \subseteq Points /\ hasPrev \in BOOLEAN
  /\ free \in [Relations -> SUBSET BOOLEAN] /\ prevFree \in [Relations -> SUBSET BOOLEAN]
  /\ unsat \subseteq CHCs
  /\ garbage \in BOOLEAN
  /\ tpc \in TPCs

\* The CHC problem has a solution over the data points (closed
\* conjectures, so each check sees A itself).
Solvable == \E A \in SUBSET Points : \A c \in CHCs : Violating(c, A) = {}

\* The assert after learn2's loop (naive_check): when the loop ends, the
\* conjectures satisfy every CHC, whatever values Z3 gives the free
\* variables of inherited formulas, although the incremental loop only
\* rechecked the CHCs whose predicates changed since they were satisfied.
SuccessSound ==
  tpc = "success" => NaiveCheckPasses(prev, prevFree)

\* learn2 ends with the solution when one exists (or when Z3 gives up):
\* each round's counterexamples are new to the sample, which is finite.
TeacherTerminates == Solvable => <>(tpc \in {"success", "unknown"})

\* spec.md section 7: "callers receive either a tree verified consistent
\* or an error": the conjectures learn2 checks come from a tree consistent
\* with the sample it was learned from, and the learner never takes the
\* process down.
ConjectureFromConsistentTree ==
  /\ tpc = "check" =>
       LET a == [p \in Points |-> p \in conj] IN
       Agrees(a, lab) /\ \A h \in horn : Satisfies(a, h)
  /\ tpc # "crashed"

=============================================================================
