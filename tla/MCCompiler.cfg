SPECIFICATION MCSpec
CONSTANTS
  SourceNames <- MCSources
  AssetNames <- MCAssets
  TransformationIds <- MCTransformations
  RuleIds <- MCRules
  AnomalyIds <- MCAnomalies
  None = None
  Malformed = Malformed
  SchemaHooks = {"hook"}
  Key <- MCKey
INVARIANTS
  TypeOK
  LookupsSucceed
  LineageIsDeclared
  TransformationsAreWired
  CycleErrorIsDeclaredCycle
  PlanBuildsInputsFirst
  CompiledMeansPlannable
