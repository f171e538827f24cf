SPECIFICATION MCSpec
CONSTANTS
  PackageNames = {"a", "b", "c", "d"}
  PackageVersions = {1, 2}
  Trees <- MCTrees
  FileNames <- MCFileNames
  Place <- MCPlace
  Hidden = ".gitignore"
  Draws = {0, 1}
  None = None
  Partial = Partial
INVARIANTS
  TypeOK
  ClosureIsExact
  SumsVouchForAll
PROPERTY
  RunsEnd
