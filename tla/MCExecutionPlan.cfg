SPECIFICATION MCSpec
CONSTANTS
  N = 4
  Ids <- MCIds
  Key <- MCKey
INVARIANTS
  TypeOK
  PlanRespectsDependencies
  RejectedOnlyWithoutPlan
  EachStepIsFirstAvailable
  PlanIsLeastOrder
PROPERTIES
  Terminates
  ImplementsTopologicalOrder
