-------------------------- MODULE SparkRunnerProofs --------------------------
(***************************************************************************)
(* For any DataProduct, suite, fixture files and number of controls: what  *)
(* the session's leftover views may not influence, and what the verdict of *)
(* the reference runner stands for.                                        *)
(***************************************************************************)
EXTENDS SparkRunner, FiniteSetTheorems, TLAPS

-----------------------------------------------------------------------------
(* Partial functions, and loading fixtures over the views of a session.    *)
LEMMA PartialFunctionIff ==
  ASSUME NEW S, NEW T, NEW f
  PROVE  f \in PartialFunctions(S, T) <=>
           /\ f = [x \in DOMAIN f |-> f[x]]
           /\ DOMAIN f \subseteq S
           /\ \A x \in DOMAIN f : f[x] \in T
<1>1. ASSUME f \in PartialFunctions(S, T)
      PROVE  /\ f = [x \in DOMAIN f |-> f[x]]
             /\ DOMAIN f \subseteq S
             /\ \A x \in DOMAIN f : f[x] \in T
  <2>1. PICK D \in SUBSET S : f \in [D -> T] BY <1>1 DEF PartialFunctions
  <2> QED BY <2>1
<1>2. ASSUME f = [x \in DOMAIN f |-> f[x]], DOMAIN f \subseteq S,
             \A x \in DOMAIN f : f[x] \in T
      PROVE  f \in PartialFunctions(S, T)
  <2>1. f \in [DOMAIN f -> T] BY <1>2
  <2> QED BY <1>2, <2>1 DEF PartialFunctions
<1> QED
  BY <1>1, <1>2

LEMMA LoadProperties ==
  ASSUME NEW f \in PartialFunctions(Assets, Files), NEW v \in PartialFunctions(Assets, Files)
  PROVE  /\ Load(f, v) \in PartialFunctions(Assets, Files)
         /\ DOMAIN Load(f, v) = DOMAIN f \cup DOMAIN v
         /\ DOMAIN v \subseteq DOMAIN f => Load(f, v) = f
<1> DEFINE g == Load(f, v)
<1>1. /\ DOMAIN g = DOMAIN f \cup DOMAIN v
      /\ g = [x \in DOMAIN g |-> g[x]]
      /\ \A x \in DOMAIN g : g[x] = IF x \in DOMAIN f THEN f[x] ELSE v[x]
  BY DEF Load
<1>2. /\ DOMAIN f \subseteq Assets /\ \A x \in DOMAIN f : f[x] \in Files
      /\ DOMAIN v \subseteq Assets /\ \A x \in DOMAIN v : v[x] \in Files
      /\ f = [x \in DOMAIN f |-> f[x]]
  BY PartialFunctionIff
<1>3. DOMAIN g \subseteq Assets /\ \A x \in DOMAIN g : g[x] \in Files
  BY <1>1, <1>2
<1>4. g \in PartialFunctions(Assets, Files)
  BY <1>1, <1>3, PartialFunctionIff
<1>5. ASSUME DOMAIN v \subseteq DOMAIN f PROVE g = f
  BY <1>1, <1>2, <1>5
<1> QED
  BY <1>1, <1>4, <1>5

LEMMA NoViewsIsEmpty ==
  /\ NoViews \in PartialFunctions(Assets, Files)
  /\ DOMAIN NoViews = {}
<1>1. DOMAIN NoViews = {} /\ NoViews = [x \in DOMAIN NoViews |-> NoViews[x]]
  BY DEF NoViews
<1> QED
  BY <1>1, PartialFunctionIff

(* Where every reference of a rule has a frame and the frames are the      *)
(* views, quality_results asks for nothing but the views' files.           *)
LEMMA FailingIsBroken ==
  ASSUME NEW v, NEW d,
         \A r \in DOMAIN product.rules : product.rules[r] \in DOMAIN v \cup {None}
  PROVE  Failing([data |-> v, draw |-> d], v) = BrokenBy(v, d)
  BY DEF Failing, RuleFails, BrokenBy

LEMMA LazyFailingIsVerdict ==
  ASSUME NEW v, NEW failing \in LazyFailing(v, v),
         \A r \in DOMAIN product.rules : product.rules[r] \in DOMAIN v \cup {None}
  PROVE  IsVerdictOn(v, failing)
<1>1. failing \subseteq DOMAIN product.rules BY DEF LazyFailing
<1>2. ASSUME NEW r \in DOMAIN product.rules
      PROVE  \E d \in Evaluations : r \in failing <=> r \in BrokenBy(v, d)
  <2>1. PICK d \in Evaluations : r \in failing <=> RuleFails(r, [data |-> v, draw |-> d], v)
    BY DEF LazyFailing, Results
  <2>2. RuleFails(r, [data |-> v, draw |-> d], v) <=> r \in BrokenBy(v, d)
    BY FailingIsBroken DEF Failing
  <2> QED BY <2>1, <2>2
<1> QED
  BY <1>1, <1>2 DEF IsVerdictOn

(* The digests of the attempts form one set element exactly when they are  *)
(* all the same.                                                           *)
LEMMA OneDigest ==
  ASSUME NEW S, NEW s \in Seq(S), s # <<>>
  PROVE  Cardinality({s[k] : k \in DOMAIN s}) = 1 <=>
           \A k \in DOMAIN s : s[k] = s[Len(s)]
<1> DEFINE D == {s[k] : k \in DOMAIN s}
<1>1. DOMAIN s = 1..Len(s) /\ Len(s) \in Nat /\ Len(s) \in DOMAIN s
  OBVIOUS
<1>2. IsFiniteSet(DOMAIN s) BY <1>1, FS_Interval
<1>3. IsFiniteSet(D)
  <2>1. s \in Surjection(DOMAIN s, D) BY <1>1 DEF Surjection
  <2> QED BY <1>2, <2>1, FS_Surjection
<1>4. Cardinality(D) = 1 <=> \E x : D = {x} BY <1>3, FS_Singleton
<1>5. s[Len(s)] \in D BY <1>1
<1>6. (\E x : D = {x}) <=> D = {s[Len(s)]} BY <1>5
<1>7. D = {s[Len(s)]} <=> \A k \in DOMAIN s : s[k] = s[Len(s)] BY <1>5
<1> QED
  BY <1>4, <1>6, <1>7

-----------------------------------------------------------------------------
(* The inductive invariant: what the steps so far left in the session.     *)
AcceptedBinds == stage \notin {"parsed", "refused"} => SuiteBinds

NothingYet ==
  /\ stage \in {"parsed", "refused", "bound"} => views = NoViews /\ runs = <<>>
  /\ stage \in {"parsed", "refused", "bound", "attempting"} => verdicts = <<>>

SessionViews ==
  /\ stage = "attempting" => views = suite.fixtures
  /\ stage = "controls" => DOMAIN views \subseteq DOMAIN suite.fixtures

AttemptsReadBaseline ==
  /\ \A k \in DOMAIN runs :
       runs[k].rows \in Results(suite.fixtures) /\ runs[k] \in Reads(runs[k].rows)
  /\ stage # "bound" /\ runs # <<>> => table = runs[Len(runs)].rows

ChecksAreOfBaseline ==
  stage \in {"controls", "written"} =>
    /\ Len(runs) = suite.attempts
    /\ ReferencesFound(suite.fixtures)
    /\ actual \in Reads(table)
    /\ quality = BrokenBy(suite.fixtures, table.draw)

EvidenceIsReasons ==
  stage = "written" =>
    /\ Len(verdicts) = Len(suite.controls)
    /\ evidence = FailureReasons

IInv ==
  /\ TypeOK
  /\ AcceptedBinds
  /\ NothingYet
  /\ SessionViews
  /\ AttemptsReadBaseline
  /\ ChecksAreOfBaseline
  /\ ControlsAreIsolated
  /\ EvidenceIsReasons

(* What typing says of the parts of a suite. *)
LEMMA SuiteTypes ==
  ASSUME TypeOK
  PROVE  /\ suite.fixtures \in PartialFunctions(Assets, Files)
         /\ suite.fixtures # NoViews
         /\ Len(suite.controls) \in Nat /\ Len(suite.controls) > 0
         /\ DOMAIN suite.controls = 1..Len(suite.controls)
         /\ \A k \in DOMAIN suite.controls :
              suite.controls[k].fixtures \in PartialFunctions(Assets, Files)
         /\ suite.attempts \in Nat /\ suite.attempts >= 2
         /\ DOMAIN product.rules \subseteq RuleIds
<1>1. IsSuite(suite) /\ IsProduct(product) BY DEF TypeOK
<1>2. DOMAIN product.rules \subseteq RuleIds BY <1>1, PartialFunctionIff DEF IsProduct
<1> DEFINE C == [fixtures : FixtureSets, failures : (SUBSET RuleIds) \ {{}}]
<1>3. suite.controls \in Seq(C) /\ suite.controls # <<>>
  BY <1>1 DEF IsSuite
<1>4. \A c \in C : c.fixtures \in FixtureSets OBVIOUS
<1> HIDE DEF C
<1>5. /\ Len(suite.controls) \in Nat /\ Len(suite.controls) > 0
      /\ DOMAIN suite.controls = 1..Len(suite.controls)
      /\ \A k \in DOMAIN suite.controls : suite.controls[k] \in C
  BY <1>3
<1>6. \A k \in DOMAIN suite.controls :
        suite.controls[k].fixtures \in PartialFunctions(Assets, Files)
  BY <1>4, <1>5 DEF FixtureSets
<1> QED
  BY <1>1, <1>2, <1>5, <1>6 DEF IsSuite, FixtureSets

(* A control is judged on frames that cover the baseline's. *)
LEMMA ControlFrames ==
  ASSUME IInv, stage = "controls", NEW k \in DOMAIN suite.controls
  PROVE  /\ ControlData(k) \in PartialFunctions(Assets, Files)
         /\ DOMAIN ControlData(k) = DOMAIN suite.fixtures
         /\ \A failing \in LazyFailing(ControlData(k), ControlData(k)) :
              IsVerdictOn(ControlData(k), failing)
<1>1. /\ suite.fixtures \in PartialFunctions(Assets, Files)
      /\ suite.controls[k].fixtures \in PartialFunctions(Assets, Files)
  BY SuiteTypes DEF IInv
<1>2. SuiteBinds BY DEF IInv, AcceptedBinds
<1>3. DOMAIN suite.controls[k].fixtures \subseteq DOMAIN suite.fixtures
  BY <1>2 DEF SuiteBinds, ControlBinds
<1>4. /\ ControlData(k) \in PartialFunctions(Assets, Files)
      /\ DOMAIN ControlData(k) = DOMAIN suite.fixtures
  BY <1>1, <1>3, LoadProperties DEF ControlData
<1>5. ReferencesFound(suite.fixtures) BY DEF IInv, ChecksAreOfBaseline
<1> QED
  BY <1>4, <1>5, LazyFailingIsVerdict DEF ReferencesFound

LEMMA InitIInv == Init => IInv
<1> SUFFICES ASSUME Init PROVE IInv
  OBVIOUS
<1>1. TypeOK
  <2>1. runs = <<>> /\ verdicts = <<>> /\ Len(runs) = 0 /\ Len(verdicts) = 0 BY DEF Init
  <2>2. Len(suite.controls) \in Nat BY DEF Init, IsSuite
  <2> QED BY <2>1, <2>2, NoViewsIsEmpty DEF Init, TypeOK, IsSuite
<1> QED
  BY <1>1 DEF Init, IInv, AcceptedBinds, NothingYet, SessionViews, AttemptsReadBaseline,
              ChecksAreOfBaseline, ControlsAreIsolated, EvidenceIsReasons

-----------------------------------------------------------------------------
(* One lemma per step. *)
LEMMA ValidateSuiteIInv ==
  ASSUME IInv, ValidateSuite
  PROVE  IInv'
<1>1. /\ stage = "parsed" /\ stage' \in {"bound", "refused"}
      /\ stage' = "bound" => SuiteBinds
      /\ UNCHANGED <<givens, views, table, runs, actual, quality, verdicts, evidence>>
  BY DEF ValidateSuite
<1>2. TypeOK' BY <1>1 DEF IInv, TypeOK, givens
<1>3. ControlsAreIsolated' /\ runs = <<>>
  BY <1>1 DEF IInv, NothingYet, ControlsAreIsolated, givens
<1>4. SuiteBinds <=> SuiteBinds' BY <1>1 DEF SuiteBinds, ControlBinds, Inputs, givens
<1> QED
  BY <1>1, <1>2, <1>3, <1>4
     DEF IInv, AcceptedBinds, NothingYet, SessionViews, AttemptsReadBaseline,
         ChecksAreOfBaseline, EvidenceIsReasons, givens

LEMMA LoadBaselineIInv ==
  ASSUME IInv, LoadBaseline
  PROVE  IInv'
<1>1. /\ stage = "bound" /\ stage' = "attempting"
      /\ views' = Load(suite.fixtures, views) /\ table' = None
      /\ UNCHANGED <<givens, runs, actual, quality, verdicts, evidence>>
  BY DEF LoadBaseline
<1>2. views = NoViews /\ runs = <<>> /\ verdicts = <<>> BY <1>1 DEF IInv, NothingYet
<1>3. suite.fixtures \in PartialFunctions(Assets, Files) BY SuiteTypes DEF IInv
<1>4. views' = suite.fixtures
  BY <1>1, <1>2, <1>3, NoViewsIsEmpty, LoadProperties
<1>5. TypeOK' BY <1>1, <1>3, <1>4 DEF IInv, TypeOK, givens
<1>6. SuiteBinds' BY <1>1 DEF IInv, AcceptedBinds, SuiteBinds, ControlBinds, Inputs, givens
<1> QED
  BY <1>1, <1>2, <1>4, <1>5, <1>6
     DEF IInv, AcceptedBinds, NothingYet, SessionViews, AttemptsReadBaseline,
         ChecksAreOfBaseline, ControlsAreIsolated, EvidenceIsReasons, givens

LEMMA AttemptIInv ==
  ASSUME IInv, Attempt
  PROVE  IInv'
<1>1. /\ stage = "attempting" /\ Len(runs) < suite.attempts
      /\ table' \in Results(suite.fixtures)
      /\ \E read \in Reads(table') : runs' = Append(runs, read)
      /\ UNCHANGED <<givens, stage, views, actual, quality, verdicts, evidence>>
  BY DEF Attempt, IInv, SessionViews
<1>2. suite.fixtures \in PartialFunctions(Assets, Files) /\ suite.attempts \in Nat
  BY SuiteTypes DEF IInv
<1>3. table' \in Rows
  BY <1>1, <1>2, DrawsAssumption DEF Results, Evaluations, Rows
<1> PICK read \in Reads(table') : runs' = Append(runs, read)
  BY <1>1
<1>3a. read.rows = table' /\ read \in ReadRows
  BY <1>3, DrawsAssumption DEF Reads, ReadRows
<1>4. /\ runs \in Seq(ReadRows) /\ runs' \in Seq(ReadRows) /\ Len(runs') = Len(runs) + 1
      /\ DOMAIN runs' = 1..(Len(runs) + 1) /\ DOMAIN runs = 1..Len(runs) /\ Len(runs) \in Nat
      /\ \A k \in 1..Len(runs) : runs'[k] = runs[k]
      /\ runs'[Len(runs) + 1] = read
  BY <1>3a DEF IInv, TypeOK
<1>5. TypeOK' BY <1>1, <1>2, <1>3, <1>4 DEF IInv, TypeOK, givens
<1>6. \A k \in DOMAIN runs' :
        runs'[k].rows \in Results(suite.fixtures) /\ runs'[k] \in Reads(runs'[k].rows)
  BY <1>1, <1>3a, <1>4 DEF IInv, AttemptsReadBaseline
<1>7. SuiteBinds' BY <1>1 DEF IInv, AcceptedBinds, SuiteBinds, ControlBinds, Inputs, givens
<1>8. /\ Results(suite.fixtures)' = Results(suite.fixtures)
      /\ \A k \in DOMAIN runs' : Reads(runs[k].rows)' = Reads(runs'[k].rows)
  BY <1>1 DEF Results, Evaluations, Reads, givens
<1>9. AttemptsReadBaseline' BY <1>3a, <1>4, <1>6, <1>8 DEF AttemptsReadBaseline
<1>10. verdicts' = <<>> /\ views' = suite'.fixtures
  BY <1>1 DEF IInv, NothingYet, SessionViews, givens
<1> QED
  BY <1>1, <1>5, <1>7, <1>9, <1>10
     DEF IInv, AcceptedBinds, NothingYet, SessionViews,
         ChecksAreOfBaseline, ControlsAreIsolated, EvidenceIsReasons, givens

LEMMA CheckQualityIInv ==
  ASSUME IInv, CheckQuality
  PROVE  IInv'
<1>1. /\ stage = "attempting" /\ stage' = "controls"
      /\ Len(runs) = suite.attempts /\ ReferencesFound(suite.fixtures)
      /\ actual' \in Reads(table)
      /\ quality' = Failing(table, suite.fixtures)
      /\ UNCHANGED <<givens, views, table, runs, verdicts, evidence>>
  BY DEF CheckQuality
<1>2. /\ suite.attempts \in Nat /\ suite.attempts >= 2 /\ runs \in Seq(ReadRows)
      /\ DOMAIN product.rules \subseteq RuleIds
  BY SuiteTypes DEF IInv, TypeOK
<1>3. Len(runs) \in DOMAIN runs /\ runs # <<>> BY <1>1, <1>2
<1>4. table = runs[Len(runs)].rows /\ table \in Results(suite.fixtures)
  BY <1>1, <1>3 DEF IInv, AttemptsReadBaseline
<1>5. table = [data |-> suite.fixtures, draw |-> table.draw] BY <1>4 DEF Results
<1>6. quality' = BrokenBy(suite.fixtures, table.draw)
  BY <1>1, <1>5, FailingIsBroken DEF ReferencesFound
<1>7. quality' \subseteq RuleIds BY <1>2, <1>6 DEF BrokenBy
<1>7a. actual' \in ReadRows
  <2>1. runs[Len(runs)] \in ReadRows BY <1>2, <1>3
  <2> QED BY <1>1, <1>4, <2>1, DrawsAssumption DEF Reads, ReadRows
<1>8. TypeOK' BY <1>1, <1>7, <1>7a DEF IInv, TypeOK, givens
<1>9. SuiteBinds' BY <1>1 DEF IInv, AcceptedBinds, SuiteBinds, ControlBinds, Inputs, givens
<1>10. ChecksAreOfBaseline'
  BY <1>1, <1>6 DEF ChecksAreOfBaseline, ReferencesFound, Reads, BrokenBy, givens
<1>11. AttemptsReadBaseline'
  BY <1>1 DEF IInv, AttemptsReadBaseline, Results, Evaluations, Reads, givens
<1>12. ControlsAreIsolated' /\ views' = suite'.fixtures
  BY <1>1 DEF IInv, NothingYet, ControlsAreIsolated, SessionViews, givens
<1> QED
  BY <1>1, <1>8, <1>9, <1>10, <1>11, <1>12
     DEF IInv, AcceptedBinds, NothingYet, SessionViews, EvidenceIsReasons

LEMMA RunControlIInv ==
  ASSUME IInv, RunControl
  PROVE  IInv'
<1> DEFINE n == Len(verdicts) + 1
<1>1. /\ stage = "controls" /\ Len(verdicts) < Len(suite.controls)
      /\ views' = Load(suite.controls[n].fixtures, Load(suite.fixtures, views))
      /\ \E failing \in LazyFailing(views', ControlData(n)) :
           verdicts' = Append(verdicts, failing)
      /\ UNCHANGED <<givens, stage, table, runs, actual, quality, evidence>>
  BY DEF RunControl, ControlData
<1>2. /\ suite.fixtures \in PartialFunctions(Assets, Files)
      /\ Len(suite.controls) \in Nat
      /\ DOMAIN suite.controls = 1..Len(suite.controls)
      /\ views \in PartialFunctions(Assets, Files)
      /\ verdicts \in Seq(SUBSET RuleIds)
      /\ DOMAIN product.rules \subseteq RuleIds
  BY SuiteTypes DEF IInv, TypeOK
<1>3. n \in DOMAIN suite.controls BY <1>1, <1>2
<1>4. Load(suite.fixtures, views) = suite.fixtures
  BY <1>1, <1>2, LoadProperties DEF IInv, SessionViews
<1>5. views' = ControlData(n) BY <1>1, <1>4 DEF ControlData
<1>6. /\ views' \in PartialFunctions(Assets, Files)
      /\ DOMAIN views' = DOMAIN suite.fixtures
  BY <1>3, <1>1, <1>5, ControlFrames
<1> PICK failing \in LazyFailing(views', ControlData(n)) : verdicts' = Append(verdicts, failing)
  BY <1>1
<1>7. IsVerdictOn(ControlData(n), failing) BY <1>1, <1>3, <1>5, ControlFrames
<1>8. failing \in SUBSET RuleIds BY <1>2, <1>7 DEF IsVerdictOn
<1>9. /\ verdicts' \in Seq(SUBSET RuleIds) /\ Len(verdicts') = n
      /\ DOMAIN verdicts' = 1..n /\ DOMAIN verdicts = 1..Len(verdicts) /\ Len(verdicts) \in Nat
      /\ \A k \in 1..Len(verdicts) : verdicts'[k] = verdicts[k]
      /\ verdicts'[n] = failing
  BY <1>2, <1>8
<1>10. TypeOK' BY <1>1, <1>2, <1>6, <1>9 DEF IInv, TypeOK, givens
<1>11. \A k \in DOMAIN verdicts' : IsVerdictOn(ControlData(k), verdicts'[k])
  BY <1>7, <1>9 DEF IInv, ControlsAreIsolated
<1>12. ControlsAreIsolated'
  BY <1>1, <1>11 DEF ControlsAreIsolated, IsVerdictOn, Evaluations, BrokenBy, ControlData, givens
<1>13. SuiteBinds' BY <1>1 DEF IInv, AcceptedBinds, SuiteBinds, ControlBinds, Inputs, givens
<1>14. ChecksAreOfBaseline'
  BY <1>1 DEF IInv, ChecksAreOfBaseline, ReferencesFound, Reads, BrokenBy, givens
<1>15. AttemptsReadBaseline'
  BY <1>1 DEF IInv, AttemptsReadBaseline, Results, Evaluations, Reads, givens
<1>16. DOMAIN views' \subseteq DOMAIN suite'.fixtures BY <1>1, <1>6 DEF givens
<1> QED
  BY <1>1, <1>10, <1>12, <1>13, <1>14, <1>15, <1>16
     DEF IInv, AcceptedBinds, NothingYet, SessionViews, EvidenceIsReasons

LEMMA WriteEvidenceIInv ==
  ASSUME IInv, WriteEvidence
  PROVE  IInv'
<1>1. /\ stage = "controls" /\ stage' = "written" /\ Len(verdicts) = Len(suite.controls)
      /\ evidence' = FailureReasons
      /\ UNCHANGED <<givens, views, table, runs, actual, quality, verdicts>>
  BY DEF WriteEvidence
<1>2. evidence' \subseteq Reasons BY <1>1 DEF FailureReasons
<1>3. TypeOK' BY <1>1, <1>2 DEF IInv, TypeOK, givens
<1>4. FailureReasons' = FailureReasons
  BY <1>1 DEF FailureReasons, ExpectedRows, ControlsPass, AttemptsAgree, givens
<1>5. SuiteBinds' BY <1>1 DEF IInv, AcceptedBinds, SuiteBinds, ControlBinds, Inputs, givens
<1>6. ChecksAreOfBaseline'
  BY <1>1 DEF IInv, ChecksAreOfBaseline, ReferencesFound, Reads, BrokenBy, givens
<1>7. AttemptsReadBaseline'
  BY <1>1 DEF IInv, AttemptsReadBaseline, Results, Evaluations, Reads, givens
<1>8. ControlsAreIsolated'
  BY <1>1 DEF IInv, ControlsAreIsolated, IsVerdictOn, Evaluations, BrokenBy, ControlData, givens
<1> QED
  BY <1>1, <1>3, <1>4, <1>5, <1>6, <1>7, <1>8
     DEF IInv, AcceptedBinds, NothingYet, SessionViews, EvidenceIsReasons, givens

LEMMA StopIInv ==
  ASSUME IInv, ReferenceMissing \/ EngineFails
  PROVE  IInv'
<1>1. /\ stage \in {"bound", "attempting", "controls"} /\ stage' \in {"unresolved", "crashed"}
      /\ UNCHANGED <<givens, views, table, runs, actual, quality, verdicts, evidence>>
  BY DEF ReferenceMissing, EngineFails
<1>2. TypeOK' BY <1>1 DEF IInv, TypeOK, givens
<1>3. SuiteBinds' BY <1>1 DEF IInv, AcceptedBinds, SuiteBinds, ControlBinds, Inputs, givens
<1>4. ControlsAreIsolated'
  BY <1>1 DEF IInv, ControlsAreIsolated, IsVerdictOn, Evaluations, BrokenBy,
              ControlData, givens
<1>5. stage = "bound" => runs = <<>> BY DEF IInv, NothingYet
<1>6. AttemptsReadBaseline'
  BY <1>1, <1>5 DEF IInv, AttemptsReadBaseline, Results, Evaluations, Reads, givens
<1> QED
  BY <1>1, <1>2, <1>3, <1>4, <1>6
     DEF IInv, AcceptedBinds, NothingYet, SessionViews, ChecksAreOfBaseline, EvidenceIsReasons

LEMMA StutterIInv ==
  ASSUME IInv, UNCHANGED vars
  PROVE  IInv'
<1>1. UNCHANGED <<givens, stage, views, table, runs, actual, quality, verdicts, evidence>>
  BY DEF vars, givens
<1>2. TypeOK' BY <1>1 DEF IInv, TypeOK, givens
<1>3. AcceptedBinds'
  BY <1>1 DEF IInv, AcceptedBinds, SuiteBinds, ControlBinds, Inputs, givens
<1>4. NothingYet' /\ SessionViews' BY <1>1 DEF IInv, NothingYet, SessionViews, givens
<1>5. AttemptsReadBaseline' BY <1>1 DEF IInv, AttemptsReadBaseline, Results, Evaluations, Reads, givens
<1>6. ChecksAreOfBaseline'
  BY <1>1 DEF IInv, ChecksAreOfBaseline, ReferencesFound, Reads, BrokenBy, givens
<1>7. ControlsAreIsolated'
  BY <1>1 DEF IInv, ControlsAreIsolated, IsVerdictOn, Evaluations, BrokenBy,
              ControlData, givens
<1>8. FailureReasons' = FailureReasons
  BY <1>1 DEF FailureReasons, ExpectedRows, ControlsPass, AttemptsAgree, givens
<1>9. EvidenceIsReasons' BY <1>1, <1>8 DEF IInv, EvidenceIsReasons, givens
<1> QED
  BY <1>2, <1>3, <1>4, <1>5, <1>6, <1>7, <1>9 DEF IInv

LEMMA NextIInv ==
  ASSUME IInv, [Next]_vars
  PROVE  IInv'
  BY ValidateSuiteIInv, LoadBaselineIInv, AttemptIInv, CheckQualityIInv, RunControlIInv,
     WriteEvidenceIInv, StopIInv, StutterIInv DEF Next, Exit

(* Every reachable state of a verification satisfies the invariant. *)
THEOREM Invariance == Spec => []IInv
  BY InitIInv, NextIInv, PTL DEF Spec

-----------------------------------------------------------------------------
(* Every variable holds values of its type.                                *)
THEOREM TypeCorrect == Spec => []TypeOK
<1>1. IInv => TypeOK BY DEF IInv
<1> QED
  BY <1>1, Invariance, PTL

(* However many controls run, and whatever views each leaves in the        *)
(* session, a control is judged on the baseline with its own replacements. *)
THEOREM Isolation == Spec => []ControlsAreIsolated
<1>1. IInv => ControlsAreIsolated BY DEF IInv
<1> QED
  BY <1>1, Invariance, PTL

(* What a written evidence document is about. *)
LEMMA WrittenEvidence ==
  ASSUME IInv, stage = "written"
  PROVE  /\ evidence = FailureReasons
         /\ Len(runs) = suite.attempts /\ Len(runs) \in Nat /\ Len(runs) >= 2
         /\ DOMAIN runs = 1..Len(runs)
         /\ table = runs[Len(runs)].rows
         /\ \A k \in DOMAIN runs :
              runs[k].rows \in Results(suite.fixtures) /\ runs[k] \in Reads(runs[k].rows)
         /\ actual \in Reads(table)
         /\ quality = BrokenBy(suite.fixtures, table.draw)
         /\ AttemptsAgree <=> \A k \in DOMAIN runs : runs[k] = runs[Len(runs)]
         /\ DOMAIN verdicts = DOMAIN suite.controls
         /\ \A k \in DOMAIN verdicts : IsVerdictOn(ControlData(k), verdicts[k])
         /\ ControlsPass <=> \A k \in DOMAIN verdicts : verdicts[k] = suite.controls[k].failures
<1>1. /\ evidence = FailureReasons /\ Len(verdicts) = Len(suite.controls)
      /\ Len(runs) = suite.attempts /\ quality = BrokenBy(suite.fixtures, table.draw)
      /\ actual \in Reads(table)
  BY DEF IInv, EvidenceIsReasons, ChecksAreOfBaseline
<1>2. /\ suite.attempts \in Nat /\ suite.attempts >= 2
      /\ Len(suite.controls) > 0
      /\ DOMAIN suite.controls = 1..Len(suite.controls)
      /\ runs \in Seq(ReadRows) /\ verdicts \in Seq(SUBSET RuleIds)
  BY SuiteTypes DEF IInv, TypeOK
<1>3. DOMAIN runs = 1..Len(runs) /\ runs # <<>> BY <1>1, <1>2
<1>4. /\ table = runs[Len(runs)].rows
      /\ \A k \in DOMAIN runs :
           runs[k].rows \in Results(suite.fixtures) /\ runs[k] \in Reads(runs[k].rows)
  BY <1>3 DEF IInv, AttemptsReadBaseline
<1>5. AttemptsAgree <=> \A k \in DOMAIN runs : runs[k] = runs[Len(runs)]
  BY <1>2, <1>3, OneDigest DEF AttemptsAgree
<1>6. DOMAIN verdicts = DOMAIN suite.controls /\ Len(verdicts) > 0 BY <1>1, <1>2
<1>7. ControlsPass <=> \A k \in DOMAIN verdicts : verdicts[k] = suite.controls[k].failures
  BY <1>6 DEF ControlsPass
<1>8. \A k \in DOMAIN verdicts : IsVerdictOn(ControlData(k), verdicts[k])
  BY DEF IInv, ControlsAreIsolated
<1> QED
  BY <1>1, <1>2, <1>3, <1>4, <1>5, <1>6, <1>7, <1>8

(* The five checks, one by one. *)
LEMMA ReasonIff ==
  /\ "rows_mismatch" \in FailureReasons <=> actual # ExpectedRows
  /\ "schema_mismatch" \in FailureReasons <=> ~suite.schema
  /\ "quality_failed" \in FailureReasons <=> quality # {}
  /\ "negative_control_failed" \in FailureReasons <=> ~ControlsPass
  /\ "idempotency_failed" \in FailureReasons <=> ~AttemptsAgree
  /\ FailureReasons \subseteq Reasons
  BY DEF FailureReasons, Reasons

(* A pass of the reference runner means, also for SQL that is not          *)
(* repeatable and for an order with ties, that every attempt produced the  *)
(* expected rows and read them in one order, in the expected schema, that  *)
(* these rows break no rule and that every control broke, in evaluations   *)
(* over its own data, the rules it declares and no other.                  *)
THEOREM PassEarned == Spec => []PassIsEarned
<1>1. ASSUME IInv, stage = "written", evidence = {}
      PROVE  /\ suite.schema
             /\ \A k \in 1..suite.attempts :
                  runs[k].rows = ExpectedRows.rows /\ runs[k].order = runs[1].order
             /\ BrokenBy(suite.fixtures, 0) = {}
             /\ \A k \in DOMAIN suite.controls :
                  IsVerdictOn(ControlData(k), suite.controls[k].failures)
  <2>1. /\ actual = ExpectedRows /\ suite.schema /\ quality = {}
        /\ ControlsPass /\ AttemptsAgree
    BY <1>1, WrittenEvidence, ReasonIff
  <2>2. table = ExpectedRows.rows
    <3>1. actual.rows = table BY <1>1, WrittenEvidence DEF Reads
    <3> QED BY <2>1, <3>1
  <2>3. \A k \in 1..suite.attempts :
          runs[k].rows = ExpectedRows.rows /\ runs[k].order = runs[1].order
    <3>1. /\ \A k \in 1..suite.attempts : runs[k] = runs[Len(runs)]
          /\ 1 \in 1..suite.attempts
      BY <1>1, <2>1, WrittenEvidence
    <3>2. runs[Len(runs)].rows = ExpectedRows.rows BY <1>1, <2>2, WrittenEvidence
    <3> QED BY <3>1, <3>2
  <2>4. BrokenBy(suite.fixtures, 0) = {}
    <3>1. table.draw = 0 BY <2>2 DEF ExpectedRows
    <3> QED BY <1>1, <2>1, <3>1, WrittenEvidence
  <2>5. \A k \in DOMAIN suite.controls : IsVerdictOn(ControlData(k), suite.controls[k].failures)
    BY <1>1, <2>1, WrittenEvidence
  <2> QED BY <2>1, <2>3, <2>4, <2>5
<1>2. IInv => PassIsEarned
  BY <1>1 DEF PassIsEarned
<1> QED
  BY <1>2, Invariance, PTL

(* A sound job passes, whatever the steps before leave in the session, and *)
(* a wrong expected-output fixture is reported as that and nothing else.   *)
THEOREM MismatchNamed == Spec => []MismatchIsNamedAlone
<1>1. ASSUME IInv, stage = "written", JobIsSound
      PROVE  evidence = IF suite.expected = "wrong" THEN {"rows_mismatch"} ELSE {}
  <2> DEFINE baseline == [data |-> suite.fixtures, draw |-> 0]
  <2>1. Evaluations = {0} BY <1>1 DEF JobIsSound, Evaluations
  <2>2. \A rows \in Results(suite.fixtures) : rows = baseline BY <2>1 DEF Results
  <2>3. \A rows : \A read \in Reads(rows) : read = [rows |-> rows, order |-> 0]
    BY <1>1 DEF JobIsSound, Reads
  <2>4. \A k \in DOMAIN runs : runs[k] = [rows |-> baseline, order |-> 0]
    BY <1>1, <2>2, <2>3, WrittenEvidence
  <2>5. Len(runs) \in DOMAIN runs BY <1>1, WrittenEvidence
  <2>6. table = baseline /\ actual = [rows |-> baseline, order |-> 0]
    <3>1. table = baseline BY <1>1, <2>4, <2>5, WrittenEvidence
    <3> QED BY <1>1, <2>3, <3>1, WrittenEvidence
  <2>7. AttemptsAgree BY <1>1, <2>4, <2>5, WrittenEvidence
  <2>8. quality = {} BY <1>1, <2>6, WrittenEvidence DEF JobIsSound
  <2>9. ControlsPass
    <3>1. ASSUME NEW k \in DOMAIN verdicts
          PROVE  verdicts[k] = suite.controls[k].failures
      <4>1. k \in DOMAIN suite.controls /\ IsVerdictOn(ControlData(k), verdicts[k])
        BY <1>1, <3>1, WrittenEvidence
      <4>2. verdicts[k] = BrokenBy(ControlData(k), 0)
        BY <2>1, <4>1 DEF IsVerdictOn, BrokenBy
      <4> QED BY <1>1, <4>1, <4>2 DEF JobIsSound
    <3> QED BY <1>1, <3>1, WrittenEvidence
  <2>10. actual # ExpectedRows <=> suite.expected = "wrong"
    <3>1. suite.expected \in {"right", "wrong"}
      BY <1>1 DEF IInv, TypeOK, IsSuite, AcceptedBinds, SuiteBinds
    <3>2. suite.fixtures # NoViews BY <1>1, SuiteTypes DEF IInv
    <3>3. CASE suite.expected = "right" BY <2>6, <3>3 DEF ExpectedRows
    <3>4. CASE suite.expected = "wrong"
      <4>1. ExpectedRows.rows.data = NoViews /\ actual.rows.data = suite.fixtures
        BY <2>6, <3>4 DEF ExpectedRows
      <4> QED BY <3>2, <3>4, <4>1
    <3> QED BY <3>1, <3>3, <3>4
  <2> QED
    BY <1>1, <2>7, <2>8, <2>9, <2>10, WrittenEvidence, ReasonIff DEF JobIsSound, Reasons
<1>2. IInv => MismatchIsNamedAlone
  BY <1>1 DEF MismatchIsNamedAlone
<1> QED
  BY <1>2, Invariance, PTL
=============================================================================
