------------------------------- MODULE MC_DtToZ3 -------------------------------
(***************************************************************************)
(* Checks the two pure conversions between the learner's integer data and *)
(* the program's other views of it against their reference definitions:  *)
(*                                                                         *)
(* - dt_to_z3_exp against the tree it converts, for every subtree of      *)
(*   depth Depth the learner can build for one relation and every model   *)
(*   Z3 can give its arguments (one initial state per tree and model);    *)
(* - datapoint::is_distinguishable against the cuts within the bound, for *)
(*   two data points with two integer attributes (one initial state per   *)
(*   input).                                                               *)
(***************************************************************************)
EXTENDS DtToZ3

\* Values of an Int argument around zero, where <= and > part.
DtIntValues == {-1, 0, 1}

D == INSTANCE Distinguishability WITH IntBits <- 8

\* The inputs of is_distinguishable: values around zero, where its three
\* branches meet, and at both ends of the 8-bit int range, where val2 - 1
\* and -1 * (val2 - 1) leave it; the thresholds the bound loop passes
\* (1 to 16) and 0.
DistValues == {D!IntMin, D!IntMin + 1, -3, -2, -1, 0, 1, 2, 3, D!IntMax}
DistCategories == {0, 1}
DistAttrs == {0, 1}
DistThresholds == {0, 1, 2, 4, 16}

\* The inputs of one call of is_distinguishable.
DistInputs ==
  [c1 : DistCategories, c2 : DistCategories,
   v1 : [DistAttrs -> DistValues], v2 : [DistAttrs -> DistValues],
   t : DistThresholds]

\* The values the variables of the other conversion keep.
NoDist == CHOOSE d \in DistInputs : TRUE
NoTree == [kind |-> "leaf", label |-> TRUE]
NoVal == CHOOSE v \in Valuations : TRUE

VARIABLES
  check,   \* which conversion the state is an input of
  tree,    \* the subtree dt_to_z3_exp converts
  val,     \* the model Z3 gives the relation's arguments
  dist     \* the arguments of is_distinguishable

vars == <<check, tree, val, dist>>

\* One initial state per input of either conversion; the variables of the
\* other one keep a fixed value.
Init ==
  \/ /\ check = "dt_to_z3_exp"
     /\ tree \in TreesUpTo(Depth) /\ val \in Valuations
     /\ dist = NoDist
  \/ /\ check = "is_distinguishable"
     /\ tree = NoTree /\ val = NoVal
     /\ dist \in DistInputs

\* The conversions are pure functions of their inputs.
Spec == Init /\ [][UNCHANGED vars]_vars

\* The path of valuation v through subtree t goes left at a split on a
\* Bool attribute (the argument is false there).
RECURSIVE LeftAtBoolSplit(_, _)
LeftAtBoolSplit(t, v) ==
  /\ t.kind = "int"
  /\ LET left == DataValue(v, t.attr) <= t.thr
     IN \/ IsBoolAttr(t.attr) /\ left
        \/ LeftAtBoolSplit(IF left THEN t.left ELSE t.right, v)

\* The conjecture get_z3_exp_int builds for the relation is true at a
\* valuation exactly when output_visitor classifies its data point true,
\* except where the point's path goes left at a split on a Bool argument:
\* there the formula is false.  For Int arguments the formula the teacher
\* checks is the tree the learner made consistent with the sample; the
\* exception is what Teacher's BoolSplitDropped assumes.
FormulaAgreesWithTree ==
  check = "dt_to_z3_exp" =>
    Formula(tree, val) = (TreeValue(tree, val) /\ ~LeftAtBoolSplit(tree, val))

\* The bound's promise (boogie_io.h, spec.md section 5): is_distinguishable
\* holds exactly when the categories differ or some cut of magnitude at
\* most the threshold separates the two points, in either argument order.
\* The negative branch computes the cut -(val2 - 1) in 32-bit int.
DistinguishableIffCutWithinBound ==
  check = "is_distinguishable" =>
    LET d == dist IN
    /\ D!IsDistinguishable(d.c1, d.c2, d.v1, d.v2, DistAttrs, d.t)
         = (d.c1 # d.c2 \/ D!SeparableWithin(d.v1, d.v2, DistAttrs, d.t))
    /\ D!IsDistinguishable(d.c1, d.c2, d.v1, d.v2, DistAttrs, d.t)
         = D!IsDistinguishable(d.c2, d.c1, d.v2, d.v1, DistAttrs, d.t)

=============================================================================
