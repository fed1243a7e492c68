-------------------------- MODULE Distinguishability --------------------------
(***************************************************************************)
(* datapoint<T>::is_distinguishable (datapoint.cpp) and the Horn           *)
(* constraints boogie_io::get_indistinguishable_datapoints derives from    *)
(* it.  Two data points are distinguishable under a threshold when they    *)
(* differ in a categorical attribute, or some integer attribute separates  *)
(* them by a cut whose magnitude is at most the threshold.  The integer    *)
(* arithmetic is the build's: int wraps in two's complement and the cut   *)
(* magnitude is converted to unsigned int.  The width IntBits is a        *)
(* constant (32 in the build); TLC's own integers are 32-bit, so the      *)
(* checks use a narrower int with the same wrap-around.                   *)
(***************************************************************************)
EXTENDS Integers

CONSTANT IntBits   \* the width of int and unsigned int

IntMin == -(2 ^ (IntBits - 1))
IntMax == 2 ^ (IntBits - 1) - 1

\* An int result as the build computes it (two's complement wrap).
WrapInt(x) == ((x - IntMin) % (2 ^ IntBits)) + IntMin

\* The conversion of an int to unsigned int.
ToUnsigned(x) == x % (2 ^ IntBits)

MinOf(x, y) == IF x < y THEN x ELSE y
MaxOf(x, y) == IF x < y THEN y ELSE x

\* Seeded fault: the smallest cut below two non-positive values is taken
\* as -val2 instead of -(val2 - 1).
IsDistinguishableNoDecrement(c1, c2, v1, v2, attrs, t) ==
  \/ c1 # c2
  \/ \E a \in attrs :
       LET val1 == MinOf(v1[a], v2[a])
           val2 == MaxOf(v1[a], v2[a])
       IN /\ val1 # val2
          /\ \/ val1 <= 0 /\ val2 > 0
             \/ val2 <= 0 /\ ToUnsigned(WrapInt(-1 * val2)) <= t
             \/ val1 > 0 /\ ToUnsigned(val1) <= t

\* is_distinguishable(other, threshold): c1, c2 are the categorical data,
\* v1, v2 the int data (functions on the attribute indices attrs) and t
\* the unsigned threshold.  The loop over the integer attributes returns
\* true at the first attribute that separates and skips equal values.
IsDistinguishable(c1, c2, v1, v2, attrs, t) ==
  \/ c1 # c2
  \/ \E a \in attrs :
       LET val1 == MinOf(v1[a], v2[a])
           val2 == MaxOf(v1[a], v2[a])
       IN /\ val1 # val2
          /\ \/ val1 <= 0 /\ val2 > 0
             \/ val2 <= 0 /\ ToUnsigned(WrapInt(-1 * WrapInt(val2 - 1))) <= t
             \/ val1 > 0 /\ ToUnsigned(val1) <= t

\* get_indistinguishable_datapoints: for every pair of data points that is
\* not distinguishable, the two constraints {p} => q and {q} => p, which
\* force both to the same label.  dpCat and dpVal give each point's data.
IndistinguishabilityConstraints(pts, dpCat, dpVal, attrs, t) ==
  { [prem |-> {p}, concl |-> q] :
      << p, q >> \in { pq \in pts \X pts :
                        /\ pq[1] # pq[2]
                        /\ ~IsDistinguishable(dpCat[pq[1]], dpCat[pq[2]],
                                              dpVal[pq[1]], dpVal[pq[2]],
                                              attrs, t) } }

\* The reference: some integer cut c with |c| <= t puts one value on the
\* "<= c" side of an int_node and the other on the "> c" side.
SeparableWithin(v1, v2, attrs, t) ==
  \E a \in attrs, c \in -t .. t :
     MinOf(v1[a], v2[a]) <= c /\ c < MaxOf(v1[a], v2[a])

=============================================================================
