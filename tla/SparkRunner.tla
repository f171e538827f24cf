---------------------------- MODULE SparkRunner ----------------------------
(***************************************************************************)
(* One verification of a generated Spark job: validate_verification_suite, *)
(* then tools/run_reference_pipeline.py execute.  The session's temporary  *)
(* views outlive the step that registered them, the SQL is evaluated anew  *)
(* for every attempt and for every rule of every negative control, the     *)
(* table is read after every attempt and once more for the comparison with *)
(* the expected rows, and the verdict is put together from all of these.   *)
(***************************************************************************)
EXTENDS Naturals, Sequences, FiniteSets

CONSTANTS
  Transformations, Assets, RuleIds,
  Files,                \* fixture files of the suite directory
  None,                 \* a rule that refers to no other asset; no table
  Draws                 \* what else rows, or the order of ties, depend on; 0 is one

ASSUME DrawsAssumption == 0 \in Draws
ASSUME NoneAssumption == None \notin Assets

VARIABLES
  product,              \* transformations: id -> inputs; rules: id -> reference
  suite,                \* transformation, fixtures, controls, attempts and the
                        \* expected rows and schema: right or not
  breaks,               \* the rules that the rows computed from a file break in
                        \* each draw
  repeatable,           \* the SQL computes the same rows from the same data
  ordered,              \* orderBy leaves no ties: a table reads in one order
  stage,
  views,                \* temporary views of the session: view -> file
  table,                \* rows in the Iceberg table under test
  runs,                 \* what each attempt read back
  actual,               \* what the comparison with the expected rows read
  quality,              \* rules the output breaks
  verdicts,             \* per negative control: rules that failed
  evidence              \* failureReasons of the evidence document

givens == <<product, suite, breaks, repeatable, ordered>>
vars == <<product, suite, breaks, repeatable, ordered,
          stage, views, table, runs, actual, quality, verdicts, evidence>>

(* fixtures loaded over v: a view of the same name is replaced. *)
Load(fixtures, v) ==
  [x \in DOMAIN fixtures \cup DOMAIN v |->
     IF x \in DOMAIN fixtures THEN fixtures[x] ELSE v[x]]

NoViews == [x \in {} |-> None]

Inputs == product.transformations[suite.transformation]

Evaluations == IF repeatable THEN {0} ELSE Draws

(* What spark.sql(SQL) may return over the views v. *)
Results(v) == {[data |-> v, draw |-> d] : d \in Evaluations}

(* normalized_rows: what orderBy and collect may make of the table. *)
Reads(rows) == {[rows |-> rows, order |-> o] : o \in IF ordered THEN {0} ELSE Draws}

(* The rows of the expected-output fixture: those of the suite's data, or  *)
(* rows nothing computes.                                                  *)
ExpectedRows ==
  [rows |-> [data |-> IF suite.expected = "right" THEN suite.fixtures ELSE NoViews, draw |-> 0],
   order |-> 0]

(* quality_results: a rule fails for the rows a query returned, or for how *)
(* they relate to the frame a referential_integrity rule refers to.        *)
RuleFails(r, result, frames) ==
  \/ \E x \in DOMAIN result.data : r \in breaks[result.data[x], result.draw]
  \/ /\ product.rules[r] # None
     /\ r \in breaks[frames[product.rules[r]], result.draw]

Failing(result, frames) == {r \in DOMAIN product.rules : RuleFails(r, result, frames)}

(* The frame of a negative control is the query, not its rows: each rule   *)
(* counts the failures of an evaluation of its own.                        *)
LazyFailing(v, frames) ==
  {failing \in SUBSET DOMAIN product.rules :
     \A r \in DOMAIN product.rules :
       \E result \in Results(v) : r \in failing <=> RuleFails(r, result, frames)}

(* Every frames[reference_asset] is there. *)
ReferencesFound(frames) ==
  \A r \in DOMAIN product.rules : product.rules[r] \in DOMAIN frames \cup {None}

PartialFunctions(S, T) == UNION {[D -> T] : D \in SUBSET S}

(* What the contract says of the transformations and of the rules on the   *)
(* output of the one under test.                                           *)
IsProduct(p) ==
  /\ p.transformations \in PartialFunctions(Transformations, (SUBSET Assets) \ {{}})
  /\ p.rules \in PartialFunctions(RuleIds, Assets \cup {None})

FixtureSets == PartialFunctions(Assets, Files) \ {NoViews}

(* verification/models.py: names are unique, nothing is empty. *)
IsSuite(s) ==
  /\ s.transformation \in Transformations
  /\ s.fixtures \in FixtureSets
  /\ s.controls \in Seq([fixtures : FixtureSets, failures : (SUBSET RuleIds) \ {{}}])
  /\ s.controls # <<>>
  /\ s.attempts \in 2..10
  /\ s.expected \in {"right", "wrong", "malformed"}
  /\ s.schema \in BOOLEAN

-----------------------------------------------------------------------------
Init ==
  /\ IsProduct(product)
  /\ IsSuite(suite)
  /\ breaks \in [Files \X Draws -> SUBSET RuleIds]
  /\ repeatable \in BOOLEAN
  /\ ordered \in BOOLEAN
  /\ stage = "parsed"
  /\ views = NoViews
  /\ table = None
  /\ runs = <<>>
  /\ actual = None
  /\ quality = {}
  /\ verdicts = <<>>
  /\ evidence = {}

(* A control that replaces only what the SQL reads, and really replaces    *)
(* it, and expects failures of rules on the output.                        *)
ControlBinds(c) ==
  /\ DOMAIN c.fixtures \subseteq Inputs
  /\ \A x \in DOMAIN c.fixtures : c.fixtures[x] # suite.fixtures[x]
  /\ c.failures \subseteq DOMAIN product.rules

(* The expected files are lists of the named fields and of objects that    *)
(* have every orderBy field, or "malformed".                               *)
SuiteBinds ==
  /\ suite.transformation \in DOMAIN product.transformations
  /\ DOMAIN suite.fixtures = Inputs
  /\ \A k \in DOMAIN suite.controls : ControlBinds(suite.controls[k])
  /\ suite.expected # "malformed"

(* Before Spark starts. *)
ValidateSuite ==
  /\ stage = "parsed"
  /\ stage' = IF SuiteBinds THEN "bound" ELSE "refused"
  /\ UNCHANGED <<givens, views, table, runs, actual, quality, verdicts, evidence>>

(* DROP TABLE IF EXISTS, then the baseline fixtures become views. *)
LoadBaseline ==
  /\ stage = "bound"
  /\ stage' = "attempting"
  /\ views' = Load(suite.fixtures, views)
  /\ table' = None
  /\ UNCHANGED <<givens, runs, actual, quality, verdicts, evidence>>

(* Mutant: one attempt too many. *)
AttemptOnceMore ==
  /\ stage = "attempting"
  /\ Len(runs) <= suite.attempts
  /\ table' \in Results(views)
  /\ \E read \in Reads(table') : runs' = Append(runs, read)
  /\ UNCHANGED <<givens, stage, views, actual, quality, verdicts, evidence>>

(* createOrReplace, and the table is read back. *)
Attempt ==
  /\ stage = "attempting"
  /\ Len(runs) < suite.attempts
  /\ table' \in Results(views)
  /\ \E read \in Reads(table') : runs' = Append(runs, read)
  /\ UNCHANGED <<givens, stage, views, actual, quality, verdicts, evidence>>

(* The table the last attempt left is read once more, for the comparison   *)
(* with the expected rows, and the rules are evaluated on it.              *)
CheckQuality ==
  /\ stage = "attempting"
  /\ Len(runs) = suite.attempts
  /\ ReferencesFound(suite.fixtures)
  /\ stage' = "controls"
  /\ actual' \in Reads(table)
  /\ quality' = Failing(table, suite.fixtures)
  /\ UNCHANGED <<givens, views, table, runs, verdicts, evidence>>

(* A rule refers to an asset no fixture was loaded for: KeyError. *)
ReferenceMissing ==
  /\ stage = "attempting"
  /\ Len(runs) = suite.attempts
  /\ ~ReferencesFound(suite.fixtures)
  /\ stage' = "unresolved"
  /\ UNCHANGED <<givens, views, table, runs, actual, quality, verdicts, evidence>>

(* Mutant: the baseline is not loaded again. *)
RunControlOverLast ==
  LET control == suite.controls[Len(verdicts) + 1]
      frames == Load(control.fixtures, suite.fixtures)
  IN /\ stage = "controls"
     /\ Len(verdicts) < Len(suite.controls)
     /\ views' = Load(control.fixtures, views)
     /\ \E failing \in LazyFailing(views', frames) : verdicts' = Append(verdicts, failing)
     /\ UNCHANGED <<givens, stage, table, runs, actual, quality, evidence>>

(* The baseline is loaded again, then the control's replacements. *)
RunControl ==
  LET control == suite.controls[Len(verdicts) + 1]
      frames == Load(control.fixtures, suite.fixtures)
  IN /\ stage = "controls"
     /\ Len(verdicts) < Len(suite.controls)
     /\ views' = Load(control.fixtures, Load(suite.fixtures, views))
     /\ \E failing \in LazyFailing(views', frames) : verdicts' = Append(verdicts, failing)
     /\ UNCHANGED <<givens, stage, table, runs, actual, quality, evidence>>

(* Mutant: the last attempt is held against the one before it only. *)
LastTwoAgree == runs[Len(runs)] = runs[Len(runs) - 1]

(* Mutant: the attempts are held against the expected rows. *)
AttemptsAsExpected == \A k \in DOMAIN runs : runs[k] = ExpectedRows

(* len({(rowCount, outputDigest) for run in runs}) == 1 *)
AttemptsAgree == Cardinality({runs[k] : k \in DOMAIN runs}) = 1

ControlsPass ==
  /\ Len(verdicts) > 0
  /\ \A k \in DOMAIN verdicts : verdicts[k] = suite.controls[k].failures

Reasons == {"rows_mismatch", "schema_mismatch", "quality_failed",
            "negative_control_failed", "idempotency_failed"}

(* The five checks; what fails is named, and nothing failing is a pass. *)
FailureReasons ==
  {reason \in Reasons :
     CASE reason = "rows_mismatch" -> actual # ExpectedRows
       [] reason = "schema_mismatch" -> ~suite.schema
       [] reason = "quality_failed" -> quality # {}
       [] reason = "negative_control_failed" -> ~ControlsPass
       [] reason = "idempotency_failed" -> ~AttemptsAgree}

WriteEvidence ==
  /\ stage = "controls"
  /\ Len(verdicts) = Len(suite.controls)
  /\ stage' = "written"
  /\ evidence' = FailureReasons
  /\ UNCHANGED <<givens, views, table, runs, actual, quality, verdicts>>

(* Spark or the disk fails; the session is stopped and nothing written. *)
EngineFails ==
  /\ stage \in {"bound", "attempting", "controls"}
  /\ stage' = "crashed"
  /\ UNCHANGED <<givens, views, table, runs, actual, quality, verdicts, evidence>>

Ended == stage \in {"refused", "unresolved", "crashed", "written"}

Exit ==
  /\ Ended
  /\ UNCHANGED vars

Next ==
  \/ ValidateSuite
  \/ LoadBaseline
  \/ Attempt
  \/ CheckQuality
  \/ ReferenceMissing
  \/ RunControl
  \/ WriteEvidence
  \/ EngineFails
  \/ Exit

Spec == Init /\ [][Next]_vars

-----------------------------------------------------------------------------
(* Rows that a query returned over some views, and what reading them gave. *)
Rows == [data : PartialFunctions(Assets, Files), draw : Draws]
ReadRows == [rows : Rows, order : Draws]

TypeOK ==
  /\ IsProduct(product)
  /\ IsSuite(suite)
  /\ breaks \in [Files \X Draws -> SUBSET RuleIds]
  /\ repeatable \in BOOLEAN
  /\ ordered \in BOOLEAN
  /\ stage \in {"parsed", "refused", "bound", "attempting", "unresolved", "controls",
                "crashed", "written"}
  /\ views \in PartialFunctions(Assets, Files)
  /\ table = None \/ table \in Rows
  /\ runs \in Seq(ReadRows)
  /\ Len(runs) <= suite.attempts
  /\ actual = None \/ actual \in ReadRows
  /\ quality \subseteq RuleIds
  /\ verdicts \in Seq(SUBSET RuleIds)
  /\ Len(verdicts) <= Len(suite.controls)
  /\ evidence \subseteq Reasons

(* The rules broken, in draw d, by the rows of files, one per view, all by *)
(* themselves.                                                             *)
BrokenBy(files, d) ==
  {r \in DOMAIN product.rules : \E x \in DOMAIN files : r \in breaks[files[x], d]}

(* Evaluations over files, and over nothing else, break the rules in       *)
(* failing and no other: one evaluation per rule.                          *)
IsVerdictOn(files, failing) ==
  /\ failing \subseteq DOMAIN product.rules
  /\ \A r \in DOMAIN product.rules :
       \E d \in Evaluations : r \in failing <=> r \in BrokenBy(files, d)

(* What control k is about: the suite's fixtures but for its own. *)
ControlData(k) == Load(suite.controls[k].fixtures, suite.fixtures)

(* A negative control is judged on the baseline with its own replacements, *)
(* whatever the controls before it left in the session.                    *)
ControlsAreIsolated ==
  \A k \in DOMAIN verdicts : IsVerdictOn(ControlData(k), verdicts[k])

(* A pass is earned, whether or not the SQL and the order of its rows are  *)
(* repeatable: every attempt, not just the last, produced the expected     *)
(* rows, all of them read in one order, in the expected schema; these rows *)
(* break no rule; and every control broke the rules it declares, and no    *)
(* other, in evaluations over its own data.                                *)
PassIsEarned ==
  stage = "written" /\ evidence = {} =>
    /\ suite.schema
    /\ \A k \in 1..suite.attempts :
         runs[k].rows = ExpectedRows.rows /\ runs[k].order = runs[1].order
    /\ BrokenBy(suite.fixtures, 0) = {}
    /\ \A k \in DOMAIN suite.controls :
         IsVerdictOn(ControlData(k), suite.controls[k].failures)

(* The SQL computes from the baseline rows that break no rule, from each   *)
(* control's data rows that break the rules it declares, and does so every *)
(* time, in one order.                                                     *)
JobIsSound ==
  /\ repeatable
  /\ ordered
  /\ suite.schema
  /\ BrokenBy(suite.fixtures, 0) = {}
  /\ \A k \in DOMAIN suite.controls :
       BrokenBy(ControlData(k), 0) = suite.controls[k].failures

(* A sound job is never failed by what earlier steps left in the session.  *)
(* v0.2-checkpoint-3.md: a wrong expected-output fixture leaves evidence   *)
(* with only rows_mismatch, if nothing else is wrong.                      *)
MismatchIsNamedAlone ==
  stage = "written" /\ JobIsSound =>
    evidence = IF suite.expected = "wrong" THEN {"rows_mismatch"} ELSE {}

(* validation.py: a suite that cannot verify its DataProduct is refused;   *)
(* so the evaluator of an accepted suite finds every frame it asks for.    *)
AcceptedSuitesCanRun == stage # "unresolved"
=============================================================================
