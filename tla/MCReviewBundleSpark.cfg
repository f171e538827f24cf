SPECIFICATION FairSpec
CONSTANTS
  Writers = {w1, w2}
  Inspectors = {i1}
  Targets = {"spark"}
  Versions = {1}
  Bundles <- MCBundles
  Manifest <- MCManifest
  UserPaths <- MCUserPaths
  Partial = Partial
  Foreign = Foreign
  Exclusive = TRUE
  NoBundle = NoBundle
INVARIANT
  ManifestDigestsHold
