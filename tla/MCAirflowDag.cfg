SPECIFICATION MCSpec
CONSTANTS
  Urns <- MCUrns
  Names <- MCNames
  PythonName <- MCPythonName
  Key <- MCKey
  Malformed = Malformed
  None = None
  Attempts = {0, 1, 2, 3}
INVARIANTS
  TypeOK
  DagIsTheIR
  AttemptsAreDeclared
PROPERTY
  RunsFail
