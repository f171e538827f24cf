SPECIFICATION Spec
CONSTANTS
  Commands = {c1, c2}
  None = None
  Torn = Torn
INVARIANTS
  TypeOK
  ExitZeroIsEarned
PROPERTIES
  BundlesDoNotMix
  CommandsEnd
