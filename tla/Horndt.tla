------------------------------- MODULE Horndt -------------------------------
(***************************************************************************)
(* horndt (chc_verifier/src/horndt.cpp), the learner the chc_verifier     *)
(* teacher calls each round.  Unlike hice-dt it always starts bounded, with *)
(* its own class bound: the round number comes from .status, the bound of  *)
(* an earlier round from .bound, and the do-loop rereads the files, adds   *)
(* the indistinguishability constraints while the bound is used, runs the  *)
(* solver and learn (Learner), and on sample_error or                      *)
(* split_not_possible_error doubles the int bound (in the build's          *)
(* wrapping arithmetic, Distinguishability) and tries again.  Only success *)
(* leaves the loop; the bound is then written to .bound.                   *)
(***************************************************************************)
EXTENDS Integers, FiniteSets, HornSample, Distinguishability

CONSTANTS
  Categories, IntAttrs, Values, NumConstraints,  \* as in Learner
  Limit,         \* bound::increase drops the bound above this (1000)
  Rounds,        \* the round numbers the .status file may hold
  BoundsWritten, \* the bounds an earlier round may have left in .bound
  PreferConjunctions  \* option -c: PREFERENCEFORCONJUNCTS

Cids == 1 .. NumConstraints

VARIABLES
  hcFile,        \* the constraints of the .horn file
  hc, cat, val, lab0, lab, slices, tree, isFirstSplit, phase,  \* Learner
  thresholded, threshold,                                      \* Learner
  bnd,           \* bound::_bound (an int)
  useBound,      \* bound::_use_bound
  round,         \* the round number read from .status
  boundFile,     \* the .bound file: {} when absent, else {its value}
  dpc            \* where main is

learnerVars == <<hc, cat, val, lab0, lab, slices, tree, isFirstSplit, phase,
                 thresholded, threshold>>
driverVars  == <<hcFile, bnd, useBound, round, boundFile, dpc>>
vars        == <<learnerVars, driverVars>>

\* bound::increase: _bound *= 2 (int), and the bound is no longer used
\* once it exceeds 1000.  _use_bound is never set back.
Increased(b, u) == u /\ ~(b > Limit)

\* Seeded fault: .bound is opened for appending.
WrittenBoundsFileAppend(f, b) == f \cup {b}

\* write_bounds_file: the file is truncated and holds the bound.
WrittenBoundsFile(f, b) == {b}

\* Seeded fault: the indistinguishability constraints replace those of the
\* .horn file.
IterationConstraintsIndistOnly ==
  LET ind == IF useBound
               THEN IndistinguishabilityConstraints(Points, cat, val,
                                                    IntAttrs, ToUnsigned(bnd))
               ELSE {}
  IN [k \in { << "indist", h.prem, h.concl >> : h \in ind } |->
        [prem |-> k[2], concl |-> k[3]]]

\* read_bounds_file succeeds when .bound exists (it then holds one int).
BoundsFileReadable(f) == f # {}

L == INSTANCE Learner WITH Bounded <- TRUE, Threshold <- 1,
                          PreferConjuncts <- PreferConjunctions

\* The horn_constraints of an iteration: those of the .horn file followed,
\* while the bound is used, by get_indistinguishable_datapoints of the
\* bound converted to unsigned int.
IterationConstraints ==
  LET ind == IF useBound
               THEN IndistinguishabilityConstraints(Points, cat, val,
                                                    IntAttrs, ToUnsigned(bnd))
               ELSE {}
  IN [k \in { << "file", i >> : i \in Cids }
              \cup { << "indist", h.prem, h.concl >> : h \in ind } |->
        IF k[1] = "file" THEN hcFile[k[2]] ELSE [prem |-> k[2], concl |-> k[3]]]

-----------------------------------------------------------------------------
\* The round is read; bound current_bound starts at 1 and in use.
Init ==
  /\ hcFile \in [Cids -> HornConstraints]
  /\ cat \in [Points -> Categories]
  /\ val \in [Points -> [IntAttrs -> Values]]
  /\ lab0 \in [Points -> Labels]
  /\ hc = [k \in { << "file", i >> : i \in Cids } |-> hcFile[k[2]]]
  /\ lab = lab0 /\ slices = {} /\ tree = <<>>
  /\ isFirstSplit = TRUE /\ phase = "init"
  /\ thresholded = FALSE /\ threshold = 0
  /\ bnd = 1 /\ useBound = TRUE
  /\ round \in Rounds
  /\ boundFile \in IF round = 1 THEN {{}}
                   ELSE {{}} \cup { {b} : b \in BoundsWritten }
  /\ dpc = "read_bound"

\* After round 1, current_bound = bound(b) with b from read_bounds_file,
\* which throws boogie_io_error when .bound cannot be opened; bound(b)
\* uses the bound again, whatever b is.
ReadBoundsFile ==
  /\ dpc = "read_bound"
  /\ IF round > 1
       THEN IF ~BoundsFileReadable(boundFile)
              THEN dpc' = "exit_failure" /\ UNCHANGED <<bnd, useBound>>
              ELSE \E b \in boundFile : bnd' = b /\ useBound' = TRUE /\ dpc' = "iterate"
       ELSE dpc' = "iterate" /\ UNCHANGED <<bnd, useBound>>
  /\ UNCHANGED <<learnerVars, hcFile, round, boundFile>>

\* The top of the do-loop: the files are read again (fresh labels), the
\* constraints built, and the complex_job_manager is given the bound as
\* its threshold while the bound is used.
StartIteration ==
  /\ dpc = "iterate"
  /\ dpc' = "learning"
  /\ hc' = IterationConstraints
  /\ lab' = lab0 /\ slices' = {} /\ tree' = <<>>
  /\ isFirstSplit' = TRUE /\ phase' = "init"
  /\ thresholded' = useBound /\ threshold' = IF useBound THEN bnd ELSE 0
  /\ UNCHANGED <<cat, val, lab0, hcFile, bnd, useBound, round, boundFile>>

\* The solver run and learn, one step at a time.
Iteration ==
  /\ dpc = "learning"
  /\ L!Next
  /\ UNCHANGED driverVars

\* The tree is written, finished is set, the loop ends and the bound is
\* written to .bound (truncating it).
IterationSucceeded ==
  /\ dpc = "learning"
  /\ phase = "done"
  /\ boundFile' = WrittenBoundsFile(boundFile, bnd)
  /\ dpc' = "exit_success"
  /\ UNCHANGED <<learnerVars, hcFile, bnd, useBound, round>>

\* Both catch blocks call current_bound.increase() and the loop goes on,
\* whether the bound was in use or not.
IterationFailed ==
  /\ dpc = "learning"
  /\ phase \in {"sample_error", "split_not_possible"}
  /\ bnd' = WrapInt(bnd * 2)
  /\ useBound' = Increased(bnd', useBound)
  /\ dpc' = "iterate"
  /\ UNCHANGED <<learnerVars, hcFile, round, boundFile>>

Next ==
  \/ ReadBoundsFile
  \/ StartIteration
  \/ Iteration
  \/ IterationSucceeded
  \/ IterationFailed

\* One thread that never waits.
Spec == Init /\ [][Next]_vars /\ WF_vars(Next)

-----------------------------------------------------------------------------
DPCs == {"read_bound", "iterate", "learning", "exit_success", "exit_failure"}

TypeOK ==
  /\ hcFile \in [Cids -> HornConstraints]
  /\ \A k \in DOMAIN hc : hc[k] \in HornConstraints
  /\ bnd \in IntMin .. IntMax /\ useBound \in BOOLEAN /\ round \in Rounds
  /\ boundFile \in SUBSET (IntMin .. IntMax) /\ Cardinality(boundFile) <= 1
  /\ dpc \in DPCs

\* The tree of the .json file as output_visitor evaluates it on point p.
Out(p) == L!Output(p, <<>>)

\* The tree horndt writes gives every data point of the .data file its
\* label and satisfies every constraint of the .horn file, at whatever
\* bound the loop stopped.
SuccessTreeConsistent ==
  dpc = "exit_success" =>
    /\ \A p \in Points : lab0[p] # "U" => Out(p) = (lab0[p] = "T")
    /\ \A k \in Cids : Satisfies([p \in Points |-> Out(p)], hcFile[k])

\* With "-e horn", next_job samples complete Horn assignments of the
\* iteration's constraints (those of the .horn file and the
\* indistinguishability ones) before a split: the solver accepts every
\* pick the sampling can make (its assert(ok)).
HornAssignmentSolveSucceeds == L!HornAssignmentSolveSucceeds

\* Every round of that sampling gives every data point a score and
\* satisfies every constraint of the iteration (the assert of entropy()).
HornAssignmentsComplete == L!HornAssignmentsComplete

\* spec.md section 5: the loop stops when learning succeeds, or lets the
\* error propagate once bounds are exhausted or disabled.
HorndtTerminates == <>(dpc \in {"exit_success", "exit_failure"})

=============================================================================
