# TLA+ models of hice-dt

hice-dt learns a decision tree that is consistent with a *Horn sample*. A Horn sample has three parts:

- data points, each with categorical and integer attributes;
- labels: true, false or unknown;
- Horn constraints `p1 /\ ... /\ pn => c`. The conclusion `c` may be "false".

Two programs use the learner:

- **hice-dt** (`hice-dt/src/hice-dt.cpp`) reads the sample from files, learns one tree and writes it.
- **chc_verifier** is a teacher. It solves constrained Horn clauses (CHCs) with Z3. It asks the learner for conjectures through the library API (`api.h`, `api_helper.h`), checks them, and adds counterexamples to the sample. `horndt` is chc_verifier's file-based learner.

Every program here is single-threaded. The hard parts are therefore not races. They are:

- the order of the solver's LIFO worklist, and a marking computed lazily and then reused while its constraints shrink;
- early returns in the middle of updates that are only partly rolled back;
- one slice's leaf changing the labels of slices still pending;
- loops whose termination depends on doubling bounds in wrapping `int` arithmetic;
- files one round leaves for the next;
- the teacher's incremental recheck of CHCs;
- the library entry point, which swallows exceptions.

`hazards` in `PROJECT.json` lists each of these at the line where it applies.

## 1. Parts and how they interact

- `main` (hice-dt.cpp):
  1. parses the options;
  2. with `-h`, runs the **Horndini prephase**;
  3. reads `.status`, and after round 1 the `.bound` file;
  4. loops over bounds 1, 2, 4, … up to `MAX_BOUND` 20, then makes one unbounded attempt.
- Each attempt:
  - adds the **indistinguishability constraints** of the bound (`boogie_io::get_indistinguishable_datapoints`, which uses `datapoint::is_distinguishable`);
  - runs the **Horn solver** once and commits its closure;
  - calls `learner::learn`. `learn` asks the **job manager** for jobs until no slice is left.
- `is_leaf` asks the solver whether a slice can take one label. If it cannot, `find_best_split` cuts the slice or throws `split_not_possible_error`.
- A leaf commits the solver's closure. This changes points of pending slices.
- `horndt` has the same structure with its own `bound` class. That class doubles an `int`, stops using the bound above 1000, and keeps looping after the bound is off.
- `learn2` (chc_verifier.cpp):
  - asks `learner_interface::get_conjectures` for conjectures, through `api::learn_decision_tree` and `api_helper::learn_decision_tree`;
  - rechecks with Z3 only the CHCs one of whose predicates changed;
  - adds the counterexamples (positive, negative or Horn) to the sample;
  - stops when no CHC is unsatisfied.

## 2. Modules

| module | models | state ↔ code |
|---|---|---|
| `HornSample` | the sample and its meaning | `Labels` is the classification; `HornConstraints` is `horn_constraint` (`NoConclusion` for false); `Satisfies` is what `is_consistent` checks; `ForcedTrue`, `ForcedFalse` and `Consistent` define what a correct solver computes |
| `HornSolver` | `solve` step by step | `lab` (with `FalsePoint`, the internal false point); `prem`/`concl` = `_copy_of_horn_constraints`; `live`; `worklist`; `marking`; `pc`. One action per step: `KeepBackup`, `FillWorklist`, `Pop`, `SkipResolved`, `PropagateTrueClassification`, `ResolveByFalsePremise`, `ForceSinglePremiseFalse`, `ForceMarkedFalse`, `PropagateDone`, `VerifyDone`, `RollBackDatapoints`. `SetClassificationFails` is `datapoint::set_classification`'s failure test, used at each of the solver's failure points |
| `Learner` | `main`'s initial solver run, `learn`, the job manager and the jobs | `slices` = `_slices`; `tree` = a function from node paths to nodes; `phase` = running, or which exception ended it. Actions `InitialRun`, `FirstSplit`, `MakeLeaf`, `IntSplit`, `SplitNotPossible`, `LearnDone`. `FindBestSplit` is `complex_job_manager::find_best_split`: the categorical attribute is a candidate when the slice holds two categories, the int candidates are the cuts at data values (within the threshold when bounded), and with `PreferConjuncts` (`PREFERENCEFORCONJUNCTS`) only the conjunctive cuts, after which one side has no positive point, are kept whenever there is one. No candidate is `SplitNotPossible`. The `HORN_ASSIGNMENTS` sampling is `SamplingConfigs`: every state (`temp`, `P`, `N`) its while loop reaches over every `rand()` pick, as a fixpoint of `SamplingStep` (the pick with `Proposal`, the solver's closure, and the erase loops with `RemainingAfter`). `SamplingCalled` is where `next_job` runs it |
| `DtToZ3` | the two views of a relation's subtree: `get_int_data`'s vector and `output_visitor` (`DataValue`, `TreeValue`), and `dt_to_z3_exp::get_z3_exp_int` (`Exp`, `LeftGuard`, `RightGuard`, `Formula`) | operators only. `Attributes` are the arguments and the sums and differences of Int pairs from `learner_interface`'s constructor; `TreesUpTo` (RECURSIVE) enumerates the subtrees of a depth whose cuts are data values |
| `Distinguishability` | `datapoint::is_distinguishable` and `get_indistinguishable_datapoints`, in `IntBits`-bit wrapping arithmetic (`WrapInt`, `ToUnsigned`) | operators only |
| `Horndini` | `horndini::learn`, `satisfies`, `generate_derived_*`, `conjunctions2tree` | `conj` = `conjunctions`; `prem`/`live` = the constraints left; `positive` = `positive_ptrs`. Actions `Weaken` and `Scan` are the two halves of the do-loop. `ConjTreeValue` (RECURSIVE) evaluates the tree `conjunction2tree` builds |
| `Driver` | hice-dt's `main` | composes `Learner` (with `NOPREFERENCEFORCONJUNCTS`, as `main` builds it) and `Horndini` by `INSTANCE`. `bnd`/`useBound` = `bound<>`; `boundFile`/`jsonFile` = the files; `round`; `dpc` = where `main` is. Actions `HorndiniStep`, `HorndiniSucceeded`, `HorndiniFallThrough`, `ReadBoundFile`, `StartAttempt`, `Attempt`, `AttemptSucceeded`, `AttemptFailed` |
| `Horndt` | horndt's `main` | composes `Learner`, with `PreferConjunctions` for the `-c` option; its `bound` doubles in wrapping arithmetic; `ReadBoundsFile`, `StartIteration`, `Iteration`, `IterationSucceeded`, `IterationFailed` |
| `ChcParser` | `seahorn_smtlib2_parser::parse` | operators only. `Clauses` are the shapes of the file's expressions after `preprocess_expressions` (a query or a rule, quantified or not, an application, an implication or other, whether the arguments and domains pass the checks); `Parse` gives a CHC with its body and head relations, a skip (`verifier.error` facts), a throw, or a failing assert |
| `Teacher` | `learn2` with `learner_interface` and the API | see below |

`Teacher` abstracts Z3 to ground instances:

- A conjecture is the set of teacher data points it makes true.
- A CHC has a shape: the relation of its body and that of its head, `NoRel` for none. The shapes are those `ChcParser` produces (`ParsedShapes`), with at most one body relation. It also has the ground instances (`lhs => rhs`, at most one point on each side) that Z3's models can produce.
- `check_chc` (`Violating`) returns whichever violated instance the model picks. The Z3 call may also answer UNKNOWN, which throws.
- The learner is used through the contract of `api_helper::learn_decision_tree` (`LearnerAnswers`, `FromTree`):
  - It returns a tree consistent with the sample. The learner's assert and the prephase's `is_consistent` check guarantee this, and the unbounded learner on distinct points finds a tree whenever one exists.
  - The first split is on the relation (`categorical_split_job::run`), so only relations with sampled points (`SampledRels`) get a subtree. A leaf gives its relation one value; an int subtree fixes only the sampled points and leaves the others to the tree's cuts (`ChildValues`). For Int arguments the formula is the tree (`FormulaAgreesWithTree`). For a relation with a Bool argument (the constant `FalseArgPoints`: the points where it is false), `get_z3_exp_int` makes the formula false at the points with the argument false that reach a split on it (`BoolSplitDropped`), whatever the tree says there.
  - An empty sample gives `leaf(true)`, and every relation gets `true` (`EmptySampleAnswer`).
  - `get_z3_exp_categorical` keeps its last `expression` for a null child. A relation with no sampled point gets `false` if no earlier relation (in `relation2ID` order, the constant `RelOrder`) has one. Otherwise it gets the formula of the last earlier sampled relation (`StaleSource`). That formula is over the other relation's variables, which stay free after `z3_helper::substitute`, so Z3 picks their value anew in every check. The variable `free` holds, per relation, the values such a formula can take (`{}` for a closed one); `ViolatedBy` and `QueryConjs` let each check choose among them.
  - On an inconsistent sample the function falls off its end. The model then takes any conjecture (`garbage`) or a crash.
- `ChangedChoices` lets a conjecture that is equal on the points still count as changed, because `conjecture::operator==` compares formulas.
- The model is `main` without `-h`, which runs `learn2` and then asserts `naive_check` on the final conjectures (`NaiveCheckPasses`).
- The action `CheckChcs` covers both recheck loops. `AddCounterexamples` covers `add_counterexample` and the end of the round.

`MC_DtToZ3` checks two conversions in one state space: the variable `check` tags each initial state as a `dt_to_z3_exp` case (a tree and a valuation) or an `is_distinguishable` case (two points and a threshold). `MC_*` modules fix the model values, the definitions a cfg cannot hold (negative values) and the symmetry sets.

## 3. Runs

| run | cfg | result |
|---|---|---|
| `solver_closure` | `MC_HornSolver.cfg` | pass: `ClosureExact` (success yields exactly the forced closure), `FailureKeepsNegative`, `SolveVerdictExact` (solve fails exactly when no labelling extends the labels and the proposal, whichever failure point is reached) |
| `learner_safety` | `MC_Learner.cfg` | pass: `TreeConsistent`, `SplitSliceHasClassifiedPoint`, `LabelsNeverFlip` under every slice order and cut |
| `learner_unbounded_incomplete` | `MC_Learner_nosplit.cfg` | violation of `NoSplitOnlyIfNoTree` |
| `driver_safety` | `MC_Driver.cfg` | pass: `SuccessTreeConsistent` for Horndini's and the learner's trees at every bound and round; `PrephaseStrongestInductive`; `PrephaseTreeComputesConjunction`; `DriverTerminates`, `PrephaseTerminates` |
| `driver_bounded_incomplete` | `MC_Driver_bounded.cfg` | violation of `BoundedFailureMeansNoTree` |
| `driver_bound_file` | `MC_Driver_boundfile.cfg` | violation of `BoundFileLeftForNextRound` |
| `horndt_safety` | `MC_Horndt.cfg` | pass: `SuccessTreeConsistent`, `HornAssignmentSolveSucceeds` (the sampling's `assert(ok)` holds for every pick), `HornAssignmentsComplete` (every finished round keys every point, as `entropy()` asserts, and satisfies every constraint) |
| `horndt_no_termination` | `MC_Horndt_liveness.cfg` | violation of `HorndtTerminates` |
| `teacher_incremental` | `MC_Teacher.cfg` | pass: `SuccessSound` (the `naive_check` assert after the incremental loop), `TeacherTerminates` (learn2 ends when the problem, over Int arguments, has a solution over the points) |
| `teacher_api_no_tree` | `MC_Teacher_ub.cfg` | violation of `ConjectureFromConsistentTree` |
| `conversions_reference` | `MC_DtToZ3.cfg` | pass: `FormulaAgreesWithTree` (the conjecture `get_z3_exp_int` builds is true exactly where `output_visitor` says the tree is true, except that it is false where a path goes left at a split on a Bool argument), `DistinguishableIffCutWithinBound` (`is_distinguishable` equals the definition of a cut within the bound, over the ends of the int range) |
| `teacher_bool_no_termination` | `MC_Teacher_bool.cfg` | violation of `TeacherTerminates` |

Every passing run of a module with variables also checks its `TypeOK`.

### Findings

- **`learner_unbounded_incomplete`** (hice-dt.cpp:348). Without a bound, no indistinguishability constraints are added. A leaf can label true the twin of a point labelled false, and the twins' slice then cannot be split. The learner throws `split_not_possible_error` although a consistent tree exists.
- **`driver_bounded_incomplete`** (simple_job_manager.h:1695). `find_best_split` cuts only at data values. `is_distinguishable` also counts a cut between them, e.g. -2 for -3 and -1 under bound 2. The bounded attempt fails where the constraints promised a cut.
- **`driver_bound_file`** (hice-dt.cpp:419). With `-b`, a run whose only success is the unbounded attempt writes no `.bound`. The next round then fails reading it.
- **`horndt_no_termination`** (horndt.cpp:533). Both catch blocks double the bound and continue, even after the bound is off. On a sample with no consistent tree, horndt never stops, and the bound wraps to 0.
- **`teacher_api_no_tree`** (api_helper.h:381-388). The counterexamples of `r1(pa)`, `r1(pa) => r1(pb)` and `r1(pb) => false` make the sample inconsistent. Horn counterexamples are never checked for contradiction. Every learner attempt then throws `sample_error`, and the catch blocks only print. Control falls off the end of a function returning `decision_tree`, which is undefined behaviour. spec.md section 7 promises a consistent tree or an error.
- **`teacher_bool_no_termination`** (dt_to_z3_exp.h:171). `get_int_data` stores a Bool argument as `bool_value()`, -1 or 1 (datapoint.h:118), so the only cut on it is -1 and the threshold is never 1. `get_z3_exp_int` builds the left branch as `attr && (threshold == 1)`, which is `attr && false`. Take `r1` with a Bool argument, false at `pa` and true at `pb`, the fact `r1(pa)` and the rule `r1(pb) => false`. `pb` becomes negative and `pa` positive. The tree `b <= -1 ? true : false` becomes the conjecture `false`, and the fact is violated again by `pa`, which the sample already has. The conjecture does not change, so no CHC is rechecked, and `learn2` loops forever although `r1(x) = !x` is a solution.

### Bounds, and why they are enough

- **Solver:** 3 points, 2 constraints, every label and every proposal a caller makes. This covers:
  - chains of forcing;
  - a multi-premise false conclusion that needs the marking;
  - a contradiction after partial propagation, in `keep_backup` and in both propagations.

  All four mutants are caught at this size.
- **Learner:** 3 points of one category, integer values {0, 1, 2}, 2 constraints, with `PreferConjuncts`. The first (categorical) split is followed by integer splits at two possible cuts, so the conjunctive preference decides between them; slices are pending together, so their order matters. Two categories already take over 2 minutes with values {0, 1}, and a mutant of `Output` is then found only after 100 seconds; `learner_unbounded_incomplete` keeps 2 categories and values {0, 1}.
- **Sampling:** `HornAssignmentSolveSucceeds` and `HornAssignmentsComplete` are checked in the Horndt run. horndt's `-e horn` option selects `HORN_ASSIGNMENTS`, while hice-dt's `main` always uses `PENALTY`. `SamplingCalled` covers both node-selection cases, before splitting and before every entropy-based job. The iteration's constraints include the indistinguishability ones, so several unclassified points are linked by constraints there. The mutants also show that the round's points must be collected across picks and that both erase loops are needed.
- **Driver and Horndt:** points of one category and the `.bound` contents {2, 16} (Driver) or {0, 2, 32} (Horndt).
  - `driver_safety` checks safety and termination together, so it uses no symmetry. It has 2 points with values {-3, -1, 3}, 2 `.horn` constraints and rounds {1, 2}: about 195,000 states in 90 seconds. With two constraints a Horndini pass can test a premise before another constraint of the same pass weakens its conjunction. The pair -3, -1 needs bound 2, so the bound loop runs; the prephase both accepts and falls through, and a second round reads the `.bound` file. Every Driver mutant is caught at this size. The Driver's violation runs use 3 points, values {-3, -1, 1, 3} or {17, 24}, and 1 constraint. Horndt's runs use 3 points, values {-3, -1, 1, 3} and 1 constraint.
  - `horndt_safety` has rounds {1, 2}; the liveness run has one round.
  - `IntBits = 8` makes the wrap of the doubling reachable. Horndt's limit 1000 is scaled to 16 for the same reason.
  - The values straddle 0 and leave gaps, so cuts between data values exist.
- **Distinguishability:** both ends of the 8-bit range, values around 0, and the thresholds 0, 1, 2, 4, 16.
- **dt_to_z3_exp:** a relation with a Bool argument and two Int arguments, Int values {-1, 0, 1}, and every subtree of depth 2 whose cuts are values of the attributes (the arguments, the sum and the difference). Each node kind has an int child, a true leaf and a false leaf on both sides, each guard is tested on both sides of its cut, and Bool and Int splits are nested both ways (882,380 states, 40 seconds).
- **Conjunctive preference:** `MC_Learner` and `MC_Horndt` set it, `MC_Learner_nosplit` and `MC_Horndt_liveness` do not, and the Driver never does.
- **Teacher:** two relations (`r1` over `pa`, `pb`; `r2` over `pc`) and three CHCs of any shape, each with at most one ground instance. This covers:
  - facts, queries and valid CHCs;
  - a CHC that turns unsatisfied again when another relation changes;
  - the three-CHC chain of the finding.
  - with `RelOrder = <<r1, r2>>`, `r1` gets `false` and `r2` inherits `r1`'s free formula when they have no sampled point, so both null-child cases occur.

  `teacher_incremental` and `teacher_api_no_tree` take Int arguments only (`FalseArgPoints = {}`); `teacher_bool_no_termination` gives `r1` a Bool argument, false at `pa`. Two instances per CHC take 4.5 minutes and add only the choice among violated instances.

### Mutants

`PROJECT.json` gives each property of a passing run a mutant. Each mutant is a plausible bug in the definition it replaces, for example:

- a marking fixpoint that stops after one round;
- the seeds pushed in the other order;
- a leaf that ignores the solver;
- `<` for `<=` in the output visitor;
- a bound file opened for appending;
- `x >= t` built without the `- 1`;
- the satisfied-CHC loop left out;
- the parser's check that a Horn clause's head is a predicate left out. A valid CHC without relations is then never rechecked (chc_verifier.cpp:160), and `TeacherTerminates` fails;
- `set_classification` failing on any classified point, which makes `solve` report contradictions that are not there;
- a Horn counterexample not stored.

### Fairness, symmetry, deadlock

- **Fairness.** Every specification has weak fairness on `Next`. Each program is one thread that never waits, so an enabled step is taken.
- **Symmetry.** The data points are interchangeable in the solver, learner, driver and horndt models, because the initial states range over all labels, attributes and constraints. `Permutations(Points)` is used only in runs without liveness properties: runs of invariants, and `learner_safety`, whose action property `LabelsNeverFlip` is itself symmetric in the points. `driver_safety`, the liveness runs and the Teacher runs use no symmetry.
- **Deadlock.** Each program ends: it returns, exits, or dies by an exception. The final states have no successor, so the runs disable deadlock checking.

## 4. Hazards without a property

- **horn_solver.cpp:86.** On failure, `positive` keeps points forced before the contradiction, although horn_solver.h (lines 150, 164, 170) and spec.md 4.1 say the arguments are restored. No caller observes this: `is_leaf` clears the set before its second try, and the other callers assert success. The project therefore checks no contract that allows it (an earlier refinement to an atomic `solve` did, and was dropped).
- **horn_solver.cpp:112.** `fill_worklist` ignores `set_classification`'s result. Callers never propose labelled points.
- **hice-dt.cpp:192.** `size() < 0` is always false. Only a malformed `.attributes` file reaches it.
- **learner_interface.h:197.** `get_int_data` extends the teacher point after the lookup and before it is stored. Deduplication still works, because the second copy is extended the same way and `emplace` finds the stored key; only a full 32-bit hash collision between a short and a long key makes `datapoint::equal` read past the end.
- **datapoint.h:120.** `Z3_get_numeral_int` fails for a value or a sum outside `int`. Only an assertion stops the uninitialised value; the models' values all fit.

## 5. Not modelled

- **Z3 and `z3_helper`, and the terms inside CHCs.** Formula solving is out of TLC's reach; `ChcParser` keeps only the shape of each expression and whether its arguments pass the checks, and assumes assertions are enabled (a failing `assert` ends the program). The Teacher's ground instances stand for the models Z3 can return. `learn1` is not called by `main`.
- **File parsing and JSON / pretty printing** (`boogie_io` readers, `json_visitor`, `pretty_print_visitor`). They only produce or print the sample. The models take the sample as their nondeterministic input.
- **`debug_job_manager`.** `main` does not use it.
- **Numeric ranking in `find_best_split`.** The gain ratio, entropy and penalty only rank the candidate cuts, so the models choose any candidate of the kind the code's control flow allows (conjunctive first under `PREFERENCEFORCONJUNCTS`).
- **The scores of the `HORN_ASSIGNMENTS` sampling.** The model keeps which points are keyed and by which assignment. The averaged fractions only rank cuts, which the models choose freely.
- **`simple_job_manager`'s own `next_job` and `find_best_split`.** Only `complex_job_manager` is instantiated (hice-dt.cpp, api_helper.h, horndt.cpp), and it overrides both without calling the base versions (its comment mentions a `DEFAULT` node selection that the `NodeSelection` enum does not have).
- **CHCs with several body relations.** These give Horn counterexamples with several premises. The Teacher uses one relation per side to stay within TLC's reach.
