------------------------------- MODULE Driver -------------------------------
(***************************************************************************)
(* The hice-dt program (main in hice-dt.cpp).  With -h it first runs the   *)
(* Horndini prephase (Horndini, on the same sample) and stops when the     *)
(* conjunctive tree is consistent.  With -b it reads the bound of the      *)
(* previous round, then loops                                              *)
(* over increasing bounds.  Each attempt starts from a fresh copy of the   *)
(* data points, adds the indistinguishability constraints of the bound     *)
(* (Distinguishability), and runs the learner (Learner, instantiated with  *)
(* the attempt's constraints and bound).  A sample_error or               *)
(* split_not_possible_error doubles the bound while it is in use and is    *)
(* fatal otherwise.  The bound object is bound<20> of bound.h.             *)
(***************************************************************************)
EXTENDS Integers, FiniteSets, HornSample, Distinguishability

CONSTANTS
  Categories, IntAttrs, Values, NumConstraints,  \* as in Learner
  UseBounds,     \* the -b option
  DoHorndini,    \* the -h option
  MaxBound,      \* the template parameter MAX_BOUND of bound<>
  Rounds,        \* the round numbers the .status file may hold
  BoundsWritten  \* the bounds an earlier round may have left in .bound

Cids == 1 .. NumConstraints

VARIABLES
  hcFile,        \* the constraints read from the .horn file
  hc, cat, val, lab0, lab, slices, tree, isFirstSplit, phase,  \* Learner
  thresholded, threshold,                                      \* Learner
  bnd,           \* bound::_bound
  useBound,      \* bound::_use_bound
  round,         \* the round number read from .status
  boundFile,     \* the .bound file: {} when absent, else {its value}
  jsonFile,      \* which tree the .json file holds: "none", "horndini", "learner"
  hconj, hprem, hlive, hpos, hpc,  \* Horndini
  dpc            \* where main is

learnerVars == <<hc, cat, val, lab0, lab, slices, tree, isFirstSplit, phase,
                 thresholded, threshold>>
hVars       == <<hconj, hprem, hlive, hpos, hpc>>
driverVars  == <<hcFile, bnd, useBound, round, boundFile, jsonFile, dpc>>
vars        == <<learnerVars, hVars, driverVars>>

\* bound::use_bound(): the bound is used and has not passed MAX_BOUND.
UseBound == useBound /\ bnd <= MaxBound

\* Seeded fault: increase_bound leaves the bound as it is.
IncreaseBoundKeep(b) == b

\* bound::increase_bound().
IncreaseBound(b) == b * 2

\* Seeded fault: the .bound file is opened for appending.
WrittenBoundFileAppend(f, b) == f \cup {b}

\* bound::write_bound_file: the file is truncated and holds the bound.
WrittenBoundFile(f, b) == {b}

\* read_status_file succeeds when the file exists (it then holds one
\* number); otherwise it throws boogie_io_error.
StatusFileReadable(f) == f # {}

\* One attempt of the learner.  (Bounded and Threshold only fix the job
\* manager of Learner's own Init, which the driver replaces.)
\* main builds the job manager with NOPREFERENCEFORCONJUNCTS.
L == INSTANCE Learner WITH Bounded <- UseBounds, Threshold <- 1,
                          PreferConjuncts <- FALSE

\* Seeded fault: the indistinguishability constraints replace the ones of
\* the .horn file instead of being appended to them.
AttemptConstraintsIndistOnly ==
  LET ind == IF UseBound
               THEN IndistinguishabilityConstraints(Points, cat, val,
                                                    IntAttrs, ToUnsigned(bnd))
               ELSE {}
  IN [k \in { << "indist", h.prem, h.concl >> : h \in ind } |->
        [prem |-> k[2], concl |-> k[3]]]

\* The horn_constraints of an attempt: those of the .horn file (indexed
\* << "file", i >>) followed, while the bound is used, by the
\* indistinguishability constraints of the current bound.
AttemptConstraints ==
  LET ind == IF UseBound
               THEN IndistinguishabilityConstraints(Points, cat, val,
                                                    IntAttrs, ToUnsigned(bnd))
               ELSE {}
  IN [k \in { << "file", i >> : i \in Cids }
              \cup { << "indist", h.prem, h.concl >> : h \in ind } |->
        IF k[1] = "file" THEN hcFile[k[2]] ELSE [prem |-> k[2], concl |-> k[3]]]

\* The prephase on copies of the data points and constraints of the files.
\* There is one annotation, categorical value 0 of Categories, whose
\* interval holds every integer attribute; c keeps horndini_prephase's
\* default 1.
H == INSTANCE Horndini WITH hc <- hcFile, lab <- lab0, conj <- hconj,
       prem <- hprem, live <- hlive, positive <- hpos, hpc <- hpc,
       Functions <- Categories, Intervals <- [f \in Categories |-> IntAttrs],
       InitLabels <- Labels, C <- 1

\* The value of the tree conjunctions2tree builds on data point p.
HorndiniOut(p) == H!HorndiniTreeValue(cat[p], val[p])

\* learner::is_consistent of a tree with output out: the labelled points
\* get their labels and the constraints of the .horn file hold.
IsConsistent(out) ==
  /\ \A p \in Points : lab0[p] # "U" => out[p] = (lab0[p] = "T")
  /\ \A k \in Cids : Satisfies(out, hcFile[k])

-----------------------------------------------------------------------------
\* The files are read, the options parsed, and cur_bound(1, use_bounds)
\* created.  A round after the first finds the .bound file an earlier
\* round left, or none when no earlier round wrote one.
Init ==
  /\ hcFile \in [Cids -> HornConstraints]
  /\ cat \in [Points -> Categories]
  /\ val \in [Points -> [IntAttrs -> Values]]
  /\ lab0 \in [Points -> Labels]
  /\ hc = [k \in { << "file", i >> : i \in Cids } |-> hcFile[k[2]]]
  /\ lab = lab0 /\ slices = {} /\ tree = <<>>
  /\ isFirstSplit = TRUE /\ phase = "init"
  /\ thresholded = FALSE /\ threshold = 0
  /\ bnd = 1
  /\ useBound = UseBounds
  /\ round \in Rounds
  /\ boundFile \in IF round = 1 THEN {{}}
                   ELSE {{}} \cup { {b} : b \in BoundsWritten }
  /\ jsonFile = "none"
  /\ hconj = [f \in Categories |-> H!DerivedPreds(f)]
  /\ hprem = [k \in Cids |-> hcFile[k].prem]
  /\ hlive = Cids
  /\ hpos = { p \in Points : lab0[p] = "T" }
  /\ hpc = "weaken"
  /\ dpc = IF DoHorndini THEN "horndini" ELSE "read_bound"

\* One step of horndini::learn.
HorndiniStep ==
  /\ dpc = "horndini"
  /\ H!Next
  /\ UNCHANGED <<learnerVars, driverVars>>

\* Seeded fault: the conjunctive tree is written without checking it.
HorndiniAcceptedUnchecked == TRUE

\* Horndini returned and is_consistent holds of its tree.
HorndiniAccepted == IsConsistent([p \in Points |-> HorndiniOut(p)])

\* The tree is written, the bound 1 with it while the bound is used, and
\* main returns EXIT_SUCCESS.
HorndiniSucceeded ==
  /\ dpc = "horndini"
  /\ hpc = "done"
  /\ HorndiniAccepted
  /\ jsonFile' = "horndini"
  /\ boundFile' = IF UseBound THEN WrittenBoundFile(boundFile, bnd) ELSE boundFile
  /\ dpc' = "exit_success"
  /\ UNCHANGED <<learnerVars, hVars, hcFile, bnd, useBound, round>>

\* no_conjunction_exists_exception is caught, or the tree is not
\* consistent: the decision tree learning phase follows.
HorndiniFallThrough ==
  /\ dpc = "horndini"
  /\ \/ hpc = "no_conjunction"
     \/ hpc = "done" /\ ~HorndiniAccepted
  /\ dpc' = "read_bound"
  /\ UNCHANGED <<learnerVars, hVars, hcFile, bnd, useBound, round, boundFile, jsonFile>>

\* With the bound in use, read the round number and, after round 1, set
\* the bound from the .bound file; read_status_file throws
\* boogie_io_error when the file cannot be opened.
ReadBoundFile ==
  /\ dpc = "read_bound"
  /\ IF UseBound /\ round > 1
       THEN IF ~StatusFileReadable(boundFile)
              THEN dpc' = "exit_failure" /\ UNCHANGED bnd
              ELSE \E b \in boundFile : bnd' = b /\ dpc' = "attempt"
       ELSE dpc' = "attempt" /\ UNCHANGED bnd
  /\ UNCHANGED <<learnerVars, hVars, hcFile, useBound, round, boundFile, jsonFile>>

\* The body of the do-loop up to learn: fresh copies of the data points,
\* the constraints of the attempt, a new solver, and a complex_job_manager
\* built with the threshold exactly when the bound is in use.
StartAttempt ==
  /\ dpc = "attempt"
  /\ dpc' = "learning"
  /\ hc' = AttemptConstraints
  /\ lab' = lab0 /\ slices' = {} /\ tree' = <<>>
  /\ isFirstSplit' = TRUE /\ phase' = "init"
  /\ thresholded' = UseBound /\ threshold' = IF UseBound THEN bnd ELSE 0
  /\ UNCHANGED <<cat, val, lab0, hVars, hcFile, bnd, useBound, round, boundFile, jsonFile>>

\* The initial solver run and learn, one step at a time.
Attempt ==
  /\ dpc = "learning"
  /\ L!Next
  /\ UNCHANGED <<hVars, driverVars>>

\* learn returned: the tree is written, and the bound while it is used;
\* terminate is set and main returns EXIT_SUCCESS.
AttemptSucceeded ==
  /\ dpc = "learning"
  /\ phase = "done"
  /\ jsonFile' = "learner"
  /\ boundFile' = IF UseBound THEN WrittenBoundFile(boundFile, bnd) ELSE boundFile
  /\ dpc' = "exit_success"
  /\ UNCHANGED <<learnerVars, hVars, hcFile, bnd, useBound, round>>

\* sample_error or split_not_possible_error: with the bound in use it is
\* doubled and the loop goes on (terminate was set to !use_bound() at the
\* top of the iteration); otherwise the exception reaches main's handler.
AttemptFailed ==
  /\ dpc = "learning"
  /\ phase \in {"sample_error", "split_not_possible"}
  /\ IF UseBound
       THEN bnd' = IncreaseBound(bnd) /\ dpc' = "attempt"
       ELSE dpc' = "exit_failure" /\ UNCHANGED bnd
  /\ UNCHANGED <<learnerVars, hVars, hcFile, useBound, round, boundFile, jsonFile>>

Next ==
  \/ HorndiniStep
  \/ HorndiniSucceeded
  \/ HorndiniFallThrough
  \/ ReadBoundFile
  \/ StartAttempt
  \/ Attempt
  \/ AttemptSucceeded
  \/ AttemptFailed

\* One thread that never waits.
Spec == Init /\ [][Next]_vars /\ WF_vars(Next)

-----------------------------------------------------------------------------
DPCs == {"horndini", "read_bound", "attempt", "learning", "exit_success", "exit_failure"}

TypeOK ==
  /\ hcFile \in [Cids -> HornConstraints]
  /\ \A k \in DOMAIN hc : hc[k] \in HornConstraints
  /\ bnd \in Nat /\ useBound \in BOOLEAN /\ round \in Rounds
  /\ boundFile \in SUBSET Nat /\ Cardinality(boundFile) <= 1
  /\ jsonFile \in {"none", "horndini", "learner"}
  /\ dpc \in DPCs
  /\ H!TypeOK     \* with the debug checks of horndini_prephase

\* The tree of the .json file as output_visitor evaluates it on point p.
Out(p) == IF jsonFile = "horndini" THEN HorndiniOut(p) ELSE L!Output(p, <<>>)

\* The json file main writes on success holds a tree that gives every data
\* point of the .data file its label and satisfies every constraint of the
\* .horn file, whether it is Horndini's conjunction (which ignores the
\* negative points) or the learner's tree, and whichever bound the
\* successful attempt used.
SuccessTreeConsistent ==
  dpc = "exit_success" =>
    /\ jsonFile # "none"
    /\ \A p \in Points : lab0[p] # "U" => Out(p) = (lab0[p] = "T")
    /\ \A k \in Cids : Satisfies([p \in Points |-> Out(p)], hcFile[k])

\* main's loop over bounds ends: every failed bounded attempt doubles the
\* bound until use_bound() turns false, and the unbounded attempt is the
\* last.
DriverTerminates == <>(dpc \in {"exit_success", "exit_failure"})

\* The prephase's conjunctions are the strongest inductive ones, or none
\* exists when it throws (HorndiniStrongestInductive of Horndini, on the
\* sample of the files and c = 1).
PrephaseStrongestInductive == H!HorndiniStrongestInductive

\* The prephase's tree computes its conjunction on every integer data.
PrephaseTreeComputesConjunction == H!TreeComputesConjunction

\* The prephase ends (HorndiniTerminates of Horndini).
PrephaseTerminates == H!HorndiniTerminates

\* A decision tree whose cuts all have magnitude at most b is consistent
\* with the sample: a labelling that extends the input labels, satisfies
\* the .horn constraints, and agrees on points no such tree separates.
TreeWithin(b) ==
  \E a \in [Points -> BOOLEAN] :
     /\ Agrees(a, lab0)
     /\ \A k \in Cids : Satisfies(a, hcFile[k])
     /\ \A p, q \in Points :
          cat[p] = cat[q] /\ ~SeparableWithin(val[p], val[q], IntAttrs, b)
            => a[p] = a[q]

\* spec.md sections 1 and 7: a failed attempt under a bound shows that no
\* classifier exists under that bound ("ContradictorySample: jointly
\* unsatisfiable at the current bound"; NoSplitPossible: "the current
\* numeric-cut bound is too tight").
BoundedFailureMeansNoTree ==
  dpc = "learning" /\ UseBound /\ phase \in {"sample_error", "split_not_possible"}
    => ~TreeWithin(bnd)

\* After a successful run with -b, the next round (round_nr > 1) reads the
\* .bound file; read_status_file fails when the file does not exist.
BoundFileLeftForNextRound ==
  dpc = "exit_success" /\ UseBounds => boundFile # {}

=============================================================================
