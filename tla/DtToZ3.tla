-------------------------------- MODULE DtToZ3 --------------------------------
(***************************************************************************)
(* The two views chc_verifier has of one relation's subtree of the learned *)
(* decision tree, and the conversion between them (dt_to_z3_exp.h).       *)
(*                                                                         *)
(* The learner sees a data point as the vector get_int_data builds         *)
(* (chc_verifier datapoint.h): the arguments of the relation, a Bool one  *)
(* as Z3's bool_value (-1 for false, 1 for true), followed by x + y and    *)
(* x - y for every pair of Int arguments; output_visitor evaluates a tree  *)
(* on that vector.  The teacher sees the formula get_z3_exp_int builds     *)
(* over the relation's Z3 variables, whose attributes                     *)
(* (integer_identifier_to_attribute, learner_interface.h) are the         *)
(* arguments and the same sums and differences.  A valuation v gives each *)
(* argument position a Z3 value: TRUE or FALSE for a Bool argument, an    *)
(* integer for an Int one.  Trees are records; an int_node has the fields *)
(* attr, thr, left (child 0, value <= thr) and right (child 1).           *)
(***************************************************************************)
EXTENDS Integers

CONSTANTS
  Arity,      \* decl.arity() of the relation
  BoolArgs,   \* the argument positions whose sort is Bool
  IntValues,  \* the values Z3's models give the Int arguments
  Depth       \* the depth of the trees considered

Args == 1 .. Arity
IntArgs == Args \ BoolArgs

ASSUME BoolArgs \subseteq Args

\* The attributes of the relation in the learner_interface constructor:
\* its arguments, then a sum and a difference for each pair of Int
\* arguments.
Attributes ==
  { <<"arg", i>> : i \in Args } \cup
  { <<op, i, j>> \in {"+", "-"} \X IntArgs \X IntArgs : i < j }

\* expr.is_bool() of the attribute's Z3 term.
IsBoolAttr(a) == a[1] = "arg" /\ a[2] \in BoolArgs

\* The models Z3 can give the relation's arguments.
Valuations ==
  { [i \in Args |-> IF i \in BoolArgs THEN b[i] ELSE n[i]] :
      b \in [BoolArgs -> BOOLEAN], n \in [IntArgs -> IntValues] }

\* get_int_data: the learner's value of attribute a for the data point of
\* valuation v.  A Bool argument is stored as the Z3_lbool bool_value()
\* returns, converted to int.
DataValue(v, a) ==
  CASE IsBoolAttr(a) -> IF v[a[2]] THEN 1 ELSE -1
    [] a[1] = "arg"   -> v[a[2]]
    [] a[1] = "+"     -> v[a[2]] + v[a[3]]
    [] OTHER          -> v[a[2]] - v[a[3]]

\* The cuts find_best_split can choose for attribute a: a value some data
\* point has and another one exceeds.
Thresholds(a) ==
  LET vals == { DataValue(v, a) : v \in Valuations }
  IN { x \in vals : \E y \in vals : y > x }

Leaves == { [kind |-> "leaf", label |-> b] : b \in BOOLEAN }

\* The subtrees of depth at most d the learner can build for the relation.
RECURSIVE TreesUpTo(_)
TreesUpTo(d) ==
  IF d = 0 THEN Leaves
  ELSE Leaves \cup
       UNION { { [kind |-> "int", attr |-> a, thr |-> t, left |-> l, right |-> r] :
                   t \in Thresholds(a), l \in TreesUpTo(d - 1), r \in TreesUpTo(d - 1) } :
               a \in Attributes }

\* output_visitor on the learner's data point: child 0 when the value is at
\* most the threshold.
RECURSIVE TreeValue(_, _)
TreeValue(t, v) ==
  IF t.kind = "leaf" THEN t.label
  ELSE TreeValue(IF DataValue(v, t.attr) <= t.thr THEN t.left ELSE t.right, v)

\* The conditions get_z3_exp_int puts on the two branches of node n.  For a
\* Bool attribute it builds attr && boolean_value, where boolean_value is
\* (threshold == 1) on the left and its negation on the right; an Int
\* attribute gets attr <= threshold and attr > threshold.
LeftGuard(n, v) ==
  IF IsBoolAttr(n.attr) THEN v[n.attr[2]] /\ n.thr = 1
                        ELSE DataValue(v, n.attr) <= n.thr

\* Seeded fault: the right branch of an Int attribute is attr >= threshold.
RightGuardInclusive(n, v) ==
  IF IsBoolAttr(n.attr) THEN v[n.attr[2]] /\ n.thr # 1
                        ELSE DataValue(v, n.attr) >= n.thr

RightGuard(n, v) ==
  IF IsBoolAttr(n.attr) THEN v[n.attr[2]] /\ n.thr # 1
                        ELSE DataValue(v, n.attr) > n.thr

\* A child contributes to the formula unless it is a false leaf
\* (no_left_child / no_right_child).
Contributes(c) == c.kind = "int" \/ c.label

\* get_z3_exp_int(n) at valuation v: each contributing branch gives its
\* guard, conjoined with the child's formula when the child is an
\* int_node; two branches are joined by ||, one is returned alone, and none
\* gives false.
RECURSIVE Exp(_, _)
Exp(n, v) ==
  LET Branch(c, guard) ==
        /\ Contributes(c)
        /\ guard
        /\ c.kind = "int" => Exp(c, v)
  IN \/ Branch(n.left, LeftGuard(n, v))
     \/ Branch(n.right, RightGuard(n, v))

\* The relation's formula: get_z3_exp_leaf for a leaf child of the
\* categorical root, get_z3_exp_int for an int_node child.
Formula(t, v) == IF t.kind = "leaf" THEN t.label ELSE Exp(t, v)

=============================================================================
