------------------------------ MODULE HornSolver ------------------------------
(***************************************************************************)
(* One call of horn_solver<bool>::solve (chc_verifier/src/horn_solver.cpp) *)
(* step by step: keep_backup copies the constraints one at a time,        *)
(* populate_meta_data and fill_worklist seed the worklist stack, and       *)
(* verify_constraints_satisfiability pops data points and propagates each  *)
(* one to the constraints it occurs in.  The weak marking is computed      *)
(* lazily, at the first false conclusion with several premises.  The       *)
(* labels written during the call are rolled back at the end.             *)
(*                                                                         *)
(* The iteration order of an std::unordered_set is not fixed by the code:  *)
(* the order in which "positive"/"negative" are pushed, in which the       *)
(* constraints of a data point are visited, and in which markings are      *)
(* forced false, is a nondeterministic choice.                            *)
(***************************************************************************)
EXTENDS Naturals, FiniteSets, Sequences, SequencesExt, HornSample

CONSTANTS
  NumConstraints,         \* length of the horn_constraints vector
  FalsePoint,             \* the solver's _false_datapoint
  ValidProposal(_, _, _)  \* what callers pass: ValidProposal(labels, P, N)

ASSUME FalsePoint \notin Points \cup {NoConclusion}

Cids  == 1 .. NumConstraints
Nodes == Points \cup {FalsePoint}

VARIABLES
  hc, lab0, P0, N0,      \* the call's inputs (lab0 is _copy_of_datapoints)
  lab,                   \* _is_classified/_classification of every node
  positive, negative,    \* the in/out sets
  prem, concl,           \* premises and conclusion of each copied constraint
  live,                  \* constraints pushed into _copy_of_horn_constraints
  resolved,              \* copied constraints whose _satisfiable is true
  withoutConclusion,     \* _horn_constraints_without_conclusion
  lists,                 \* _list_of_horn_constraints of every node
  worklist,              \* the stack; its top is the last element
  computeMarking,        \* _compute_current_marking
  marks,                 \* _list_of_marking of every node
  cur, todo,             \* popped data point, its constraints still to visit
  i,                     \* index of keep_backup's loop over the constraints
  pc, result             \* control point, horn_constraints_satisfiability

inputs == <<hc, lab0, P0, N0>>
vars == <<hc, lab0, P0, N0, lab, positive, negative, prem, concl, live,
          resolved, withoutConclusion, lists, worklist, computeMarking, marks,
          cur, todo, i, pc, result>>

-----------------------------------------------------------------------------
(* Weak marking: m is a marking of d when m alone implies d through the    *)
(* unresolved copied constraints.  horn_constraint::compute_marking adds   *)
(* the markings common to all premises to the conclusion and recomputes    *)
(* the constraints of the conclusion when it grew; compute_current_marking *)
(* starts this from every unresolved constraint.  The result is the least *)
(* fixpoint below.                                                         *)
CommonMarking(M, k) == { m \in Points : \A p \in prem[k] : m \in M[p] }

\* Seeded fault: compute_marking does not recompute the constraints of a
\* conclusion whose markings grew (a single round).
MarkingSingleRound(M) ==
  [d \in Nodes |->
     M[d] \cup UNION { CommonMarking(M, k) :
                       k \in { k \in live \ resolved :
                                 concl[k] = d /\ prem[k] # {} } }]

RECURSIVE MarkingFixpoint(_)
MarkingFixpoint(M) ==
  LET next == [d \in Nodes |->
                 M[d] \cup UNION { CommonMarking(M, k) :
                                   k \in { k \in live \ resolved :
                                             concl[k] = d /\ prem[k] # {} } }]
  IN IF next = M THEN M ELSE MarkingFixpoint(next)

\* Seeded fault: the false data point is given itself as a marking too.
CurrentMarkingWithFalse == MarkingFixpoint([d \in Nodes |-> {d}])

\* populate_meta_data gives every data point itself as its marking.
CurrentMarking ==
  MarkingFixpoint([d \in Nodes |-> IF d \in Points THEN {d} ELSE {}])

\* Seeded fault: set_classification fails on any classified point, whatever
\* its classification.
SetClassificationFailsClassified(l, b) == l # "U"

\* datapoint::set_classification(b) on a node labelled l fails when the
\* node is already classified with the other value.
SetClassificationFails(l, b) == l # "U" /\ (l = "T") # b

\* The solver fails: the caller sees false after the roll back.
Fail == result' = FALSE /\ pc' = "rollback"

-----------------------------------------------------------------------------
Init ==
  /\ hc \in [Cids -> HornConstraints]
  /\ lab0 \in [Points -> Labels]
  /\ P0 \in SUBSET Points
  /\ N0 \in SUBSET Points
  /\ ValidProposal(lab0, P0, N0)
  /\ lab = [d \in Nodes |-> IF d \in Points THEN lab0[d] ELSE "F"]
  /\ positive = P0
  /\ negative = N0
  /\ prem = [k \in Cids |-> {}]
  /\ concl = [k \in Cids |-> FalsePoint]
  /\ live = {}
  /\ resolved = {}
  /\ withoutConclusion = FALSE
  /\ lists = [d \in Nodes |-> {}]
  /\ worklist = <<>>
  /\ computeMarking = TRUE
  /\ marks = [d \in Nodes |-> {}]
  /\ cur = FalsePoint
  /\ todo = {}
  /\ i = 1
  /\ pc = "backup"
  /\ result = TRUE

\* One iteration of keep_backup's loop over the constraints: copy
\* constraint i with a null conclusion replaced by the false data point,
\* drop it when it is already satisfied, remove premises labelled true,
\* force the conclusion of a constraint left without premises, and push a
\* conclusion labelled false.
KeepBackup ==
  /\ pc = "backup"
  /\ i \in Cids
  /\ LET h      == hc[i]
         c      == IF h.concl = NoConclusion THEN FalsePoint ELSE h.concl
         sat    == lab[c] = "T" \/ \E p \in h.prem : lab[p] = "F"
         rest   == { p \in h.prem : lab[p] # "T" }
         forced == rest = {} /\ ~sat
         lab1   == IF forced /\ c \in negative /\ lab[c] = "U"
                     THEN [lab EXCEPT ![c] = "F"] ELSE lab
         fails  == forced /\ SetClassificationFails(lab1[c], TRUE)
         lab2   == IF forced /\ ~fails THEN [lab1 EXCEPT ![c] = "T"] ELSE lab1
     IN /\ withoutConclusion' = (withoutConclusion \/ h.concl = NoConclusion)
        /\ lab' = lab2
        /\ IF fails
             THEN /\ Fail
                  /\ UNCHANGED <<positive, prem, concl, live, worklist, i>>
             ELSE /\ positive' = IF forced THEN positive \cup {c} ELSE positive
                  /\ worklist' = IF lab2[c] = "F" /\ ~(sat \/ forced)
                                   THEN Append(worklist, c) ELSE worklist
                  /\ live' = IF sat \/ forced THEN live ELSE live \cup {i}
                  /\ prem' = [prem EXCEPT ![i] = rest]
                  /\ concl' = [concl EXCEPT ![i] = c]
                  /\ i' = i + 1
                  /\ UNCHANGED <<pc, result>>
  /\ UNCHANGED <<inputs, negative, resolved, lists, computeMarking, marks,
                 cur, todo>>

\* Seeded fault: the positive seeds are pushed below the negative ones.
SeedsSwapped(ns, ps) ==
  (IF withoutConclusion THEN <<FalsePoint>> ELSE <<>>) \o ps \o ns

\* fill_worklist's pushes, bottom first: the false data point, then the
\* negative seeds in the order ns, then the positive seeds in the order ps.
Seeds(ns, ps) ==
  (IF withoutConclusion THEN <<FalsePoint>> ELSE <<>>) \o ns \o ps

\* populate_meta_data then fill_worklist: every node learns its copied
\* constraints; the false data point (when some constraint has no
\* conclusion), then "negative", then "positive" are labelled and pushed.
\* The result of set_classification is ignored here.
FillWorklist ==
  /\ pc = "backup"
  /\ i = NumConstraints + 1
  /\ lists' = [d \in Nodes |-> { k \in live : concl[k] = d \/ d \in prem[k] }]
  /\ \E ns \in SetToSeqs(negative), ps \in SetToSeqs(positive) :
       worklist' = worklist \o Seeds(ns, ps)
  /\ LET labN == [d \in Nodes |->
                    IF d \in negative /\ lab[d] = "U" THEN "F" ELSE lab[d]]
     IN lab' = [d \in Nodes |->
                  IF d \in positive /\ labN[d] = "U" THEN "T" ELSE labN[d]]
  /\ pc' = "verify"
  /\ UNCHANGED <<inputs, positive, negative, prem, concl, live, resolved,
                 withoutConclusion, computeMarking, marks, cur, todo, i, result>>

\* verify_constraints_satisfiability pops the top of the stack.
Pop ==
  /\ pc = "verify"
  /\ worklist # <<>>
  /\ cur' = Last(worklist)
  /\ worklist' = Front(worklist)
  /\ todo' = lists[Last(worklist)]
  /\ pc' = "propagate"
  /\ UNCHANGED <<inputs, lab, positive, negative, prem, concl, live, resolved,
                 withoutConclusion, lists, computeMarking, marks, i, result>>

\* The stack is empty: no constraint is violated.
VerifyDone ==
  /\ pc = "verify"
  /\ worklist = <<>>
  /\ result' = TRUE
  /\ pc' = "rollback"
  /\ UNCHANGED <<inputs, lab, positive, negative, prem, concl, live, resolved,
                 withoutConclusion, lists, worklist, computeMarking, marks,
                 cur, todo, i>>

\* All constraints of the popped data point were visited.
PropagateDone ==
  /\ pc = "propagate"
  /\ todo = {}
  /\ pc' = "verify"
  /\ UNCHANGED <<inputs, lab, positive, negative, prem, concl, live, resolved,
                 withoutConclusion, lists, worklist, computeMarking, marks,
                 cur, todo, i, result>>

\* A constraint of the popped point that is already satisfied is skipped.
SkipResolved(k) ==
  /\ pc = "propagate"
  /\ k \in todo \cap resolved
  /\ todo' = todo \ {k}
  /\ UNCHANGED <<inputs, lab, positive, negative, prem, concl, live, resolved,
                 withoutConclusion, lists, worklist, computeMarking, marks,
                 cur, i, pc, result>>

\* propagate_true_classification: a true conclusion satisfies k; a true
\* premise is removed, and when none is left the conclusion is set true
\* (failing when it is false, e.g. the false data point).
PropagateTrueClassification(k) ==
  /\ pc = "propagate"
  /\ k \in todo \ resolved
  /\ lab[cur] = "T"
  /\ todo' = todo \ {k}
  /\ LET rest == prem[k] \ {cur}
         c    == concl[k]
     IN IF c = cur
          THEN /\ resolved' = resolved \cup {k}
               /\ UNCHANGED <<lab, positive, prem, worklist, pc, result>>
          ELSE /\ prem' = [prem EXCEPT ![k] = rest]
               /\ IF rest # {}
                    THEN UNCHANGED <<lab, positive, worklist, resolved, pc, result>>
                  ELSE IF SetClassificationFails(lab[c], TRUE)
                    THEN /\ Fail
                         /\ UNCHANGED <<lab, positive, worklist, resolved>>
                  ELSE /\ lab' = [lab EXCEPT ![c] = "T"]
                       /\ worklist' = Append(worklist, c)
                       /\ positive' = positive \cup {c}
                       /\ resolved' = resolved \cup {k}
                       /\ UNCHANGED <<pc, result>>
  /\ UNCHANGED <<inputs, negative, concl, live, withoutConclusion, lists,
                 computeMarking, marks, cur, i>>

\* propagate_false_classification, first case: a false premise satisfies k.
ResolveByFalsePremise(k) ==
  /\ pc = "propagate"
  /\ k \in todo \ resolved
  /\ lab[cur] = "F"
  /\ cur \in prem[k]
  /\ todo' = todo \ {k}
  /\ resolved' = resolved \cup {k}
  /\ UNCHANGED <<inputs, lab, positive, negative, prem, concl, live,
                 withoutConclusion, lists, worklist, computeMarking, marks,
                 cur, i, pc, result>>

\* propagate_false_classification, second case: a false conclusion with a
\* single premise forces that premise false.
ForceSinglePremiseFalse(k) ==
  /\ pc = "propagate"
  /\ k \in todo \ resolved
  /\ lab[cur] = "F"
  /\ cur \notin prem[k]
  /\ concl[k] = cur
  /\ Cardinality(prem[k]) = 1
  /\ todo' = todo \ {k}
  /\ LET p == CHOOSE p \in prem[k] : TRUE
     IN IF SetClassificationFails(lab[p], FALSE)
          THEN /\ Fail
               /\ UNCHANGED <<lab, negative, worklist, resolved>>
          ELSE /\ lab' = [lab EXCEPT ![p] = "F"]
               /\ worklist' = Append(worklist, p)
               /\ negative' = negative \cup {p}
               /\ resolved' = resolved \cup {k}
               /\ UNCHANGED <<pc, result>>
  /\ UNCHANGED <<inputs, positive, prem, concl, live, withoutConclusion, lists,
                 computeMarking, marks, cur, i>>

\* propagate_false_classification, third case: a false conclusion with
\* several premises; the markings of the conclusion (computed on first
\* use) that are not yet false are set false one by one, in the iteration
\* order of the marking set, until one of them is true.
ForceMarkedFalse(k) ==
  /\ pc = "propagate"
  /\ k \in todo \ resolved
  /\ lab[cur] = "F"
  /\ cur \notin prem[k]
  /\ concl[k] = cur
  /\ Cardinality(prem[k]) # 1
  /\ todo' = todo \ {k}
  /\ LET M       == IF computeMarking THEN CurrentMarking ELSE marks
         targets == { m \in M[cur] \ {cur} : lab[m] # "F" }
     IN /\ marks' = M
        /\ computeMarking' = FALSE
        /\ \E s \in SetToSeqs(targets) :
             LET bad  == { j \in 1 .. Len(s) : SetClassificationFails(lab[s[j]], FALSE) }
                 stop == IF bad = {} THEN Len(s) + 1 ELSE Min(bad)
                 done == SubSeq(s, 1, stop - 1)
             IN /\ lab' = [d \in Nodes |-> IF d \in Range(done) THEN "F" ELSE lab[d]]
                /\ worklist' = worklist \o done
                /\ negative' = negative \cup Range(done)
                /\ IF bad # {} THEN Fail ELSE UNCHANGED <<pc, result>>
  /\ UNCHANGED <<inputs, positive, prem, concl, live, resolved,
                 withoutConclusion, lists, cur, i>>

\* Seeded fault: the labels are restored only when solve fails.
RestoredLabelsOnFailureOnly ==
  [d \in Nodes |-> IF d \in Points /\ ~result THEN lab0[d] ELSE lab[d]]

\* roll_back_datapoints: every data point gets back its saved label.
RestoredLabels == [d \in Nodes |-> IF d \in Points THEN lab0[d] ELSE lab[d]]

\* roll_back_datapoints and the clean-up at the end of solve: the labels of
\* the data points are restored and the markings and lists cleared.
RollBackDatapoints ==
  /\ pc = "rollback"
  /\ lab' = RestoredLabels
  /\ lists' = [d \in Nodes |-> {}]
  /\ marks' = [d \in Nodes |-> {}]
  /\ computeMarking' = TRUE
  /\ withoutConclusion' = FALSE
  /\ pc' = "done"
  /\ UNCHANGED <<inputs, positive, negative, prem, concl, live, resolved,
                 worklist, cur, todo, i, result>>

Next ==
  \/ KeepBackup
  \/ FillWorklist
  \/ Pop
  \/ VerifyDone
  \/ PropagateDone
  \/ \E k \in Cids :
       \/ SkipResolved(k)
       \/ PropagateTrueClassification(k)
       \/ ResolveByFalsePremise(k)
       \/ ForceSinglePremiseFalse(k)
       \/ ForceMarkedFalse(k)
  \/ RollBackDatapoints

\* solve runs on one thread to completion once called.
Spec == Init /\ [][Next]_vars /\ WF_vars(Next)

-----------------------------------------------------------------------------
TypeOK ==
  /\ hc \in [Cids -> HornConstraints]
  /\ lab0 \in [Points -> Labels]
  /\ lab \in [Nodes -> Labels]
  /\ positive \in SUBSET Points
  /\ negative \in SUBSET Points
  /\ prem \in [Cids -> SUBSET Points]
  /\ concl \in [Cids -> Nodes]
  /\ live \subseteq Cids /\ resolved \subseteq live
  /\ lists \in [Nodes -> SUBSET Cids]
  /\ worklist \in Seq(Nodes)
  /\ marks \in [Nodes -> SUBSET Points]
  /\ cur \in Nodes /\ todo \subseteq Cids
  /\ i \in 1 .. NumConstraints + 1
  /\ pc \in {"backup", "verify", "propagate", "rollback", "done"}
  /\ result \in BOOLEAN

\* On success, solve returns in "positive" and "negative" exactly the
\* points that every labelling consistent with the sample and the proposal
\* makes true (resp. false): the weak marking used by
\* propagate_false_classification finds every point forced false.
ClosureExact ==
  pc = "done" /\ result =>
    /\ positive = ForcedTrue(hc, lab0, P0, N0)
    /\ negative = ForcedFalse(hc, lab0, P0, N0)

\* When solve returns false the caller's "negative" set is unchanged: no
\* point is forced false before the contradiction is found (is_leaf reuses
\* negative_ptrs for its second attempt after a failed first one).
FailureKeepsNegative ==
  pc = "done" /\ ~result => negative = N0

\* solve returns false only on a real contradiction, and true only when
\* there is none: whichever of its failure points is reached (keep_backup's
\* early return, a forced conclusion already false, a forced premise
\* already true), no labelling extends the labels, makes "positive" true,
\* "negative" false and satisfies every constraint.
SolveVerdictExact ==
  pc = "done" => (result = Consistent(hc, lab0, P0, N0))

=============================================================================
