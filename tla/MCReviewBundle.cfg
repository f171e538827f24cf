SPECIFICATION FairSpec
CONSTANTS
  Writers = {w1, w2}
  Inspectors = {i1}
  Targets = {"all"}
  Versions = {1}
  Bundles <- MCBundles
  Manifest <- MCManifest
  UserPaths <- MCUserPaths
  Partial = Partial
  Foreign = Foreign
  Exclusive = TRUE
  NoBundle = NoBundle
INVARIANTS
  TypeOK
  PublishedIsWhole
PROPERTIES
  NoFalseAlarm
  CommandsEnd
  ImplementsPublication
