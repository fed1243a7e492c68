------------------------------ MODULE ChcParser ------------------------------
(***************************************************************************)
(* seahorn_smtlib2_parser::parse: which expressions of a SeaHorn SMT-LIB  *)
(* file become CHCs of the problem, with which relations in their body    *)
(* and head, and which are skipped or make the parser throw.  An          *)
(* expression is abstracted to its shape: a query or a rule, quantified   *)
(* or not, an application (of a relation, of verifier.error or of an      *)
(* interpreted symbol), an implication, or anything else.  Terms inside   *)
(* the arguments and the body's constraint are left out: only whether     *)
(* they pass the parser's checks is kept.  Assertions are taken to be     *)
(* enabled: a failing assert ends the program.                            *)
(***************************************************************************)
EXTENDS FiniteSets

CONSTANTS
  Relations,  \* the relations of the file, after preprocessing
  NoRel       \* no relation on that side of a CHC

\* verifier.error with arguments, which collect_and_replace_relations does
\* not record as a relation, and an interpreted symbol (true, <=, ...).
VerifierError == "verifier.error"
Interp == "interpreted"
Heads == Relations \cup {VerifierError, Interp}

\* The expressions of fp.rules() and of the queries after
\* preprocess_expressions, which has replaced every 0-ary relation by a
\* 1-ary one (so every relation has arguments).  domainsOk: every relation
\* the expression mentions has Bool or Int arguments only; argsOk: the
\* arguments pass the constant check of the branch that takes them.
Clauses ==
  [from : {"query", "rule"}, forall : BOOLEAN, op : {"app"}, head : Heads,
   argsOk : BOOLEAN, domainsOk : BOOLEAN]
  \cup { c \in [from : {"rule"}, forall : BOOLEAN, op : {"implies"},
                lhsOp : {"and", "app", "other"}, lhsRels : SUBSET Relations,
                head : Heads, domainsOk : BOOLEAN] :
           c.lhsOp = "app" => Cardinality(c.lhsRels) = 1 }
  \cup [from : {"query", "rule"}, forall : BOOLEAN, op : {"other"}, domainsOk : BOOLEAN]

Chc(lhs, rhs) == [kind |-> "chc", lhs |-> lhs, rhs |-> rhs]
Skipped == [kind |-> "skip"]
Thrown == [kind |-> "throw"]
AssertFails == [kind |-> "abort"]

\* expr.is_app() with an uninterpreted declaration of arity > 0.
IsPredApp(c) == c.op = "app" /\ c.head \in Relations \cup {VerifierError}

\* A query: an application of a relation to constants, stored with the
\* relation in its body; anything else throws.
ParseQuery(c) ==
  IF ~c.forall /\ IsPredApp(c)
    THEN IF c.head = VerifierError THEN AssertFails
         ELSE IF ~c.argsOk THEN Thrown
         ELSE Chc({c.head}, {})
    ELSE Thrown

\* Seeded fault: the check that the right-hand side is a predicate is left
\* out, so an implication into an interpreted formula becomes a CHC.
ParseHornAnyHead(c) ==
  IF c.lhsOp = "other" THEN Thrown
  ELSE IF c.head = VerifierError THEN AssertFails
  ELSE Chc(c.lhsRels, {c.head} \cap Relations)

\* A quantified implication: the left-hand side must be a conjunction or
\* an application, the right-hand side an application of an uninterpreted
\* predicate; extract_relations collects the relations of both sides
\* (asserting that verifier.error is not one of them).
ParseHorn(c) ==
  IF c.lhsOp = "other" THEN Thrown
  ELSE IF c.head = Interp THEN Thrown
  ELSE IF c.head = VerifierError THEN AssertFails
  ELSE Chc(c.lhsRels, {c.head})

\* A rule: a fact (quantified or not) stores its relation as the head,
\* except verifier.error, which is skipped; a quantified implication is a
\* Horn clause; anything else throws.
ParseRule(c) ==
  CASE IsPredApp(c) ->
         IF c.head = VerifierError THEN Skipped
         ELSE IF ~c.argsOk THEN Thrown
         ELSE Chc({}, {c.head})
    [] c.forall /\ c.op = "implies" -> ParseHorn(c)
    [] OTHER -> Thrown

\* collect_and_replace_relations throws for a relation with an argument
\* that is neither Bool nor Int, before any expression is processed.
Parse(c) ==
  IF ~c.domainsOk THEN Thrown
  ELSE IF c.from = "query" THEN ParseQuery(c) ELSE ParseRule(c)

\* The constrained Horn clauses a parse that does not throw can produce.
ParsedChcs == { x \in { Parse(c) : c \in Clauses } : x.kind = "chc" }

=============================================================================
