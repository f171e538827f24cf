SPECIFICATION MCSpec
CONSTANTS
  Calls = {1, 2}
  Rank <- MCRank
  IndexOf <- MCIndexOf
  IndexToken <- MCIndexToken
  Scalars <- MCScalars
  Identity <- MCIdentity
  IsDataProduct <- MCIsDataProduct
INVARIANT
  ConflictsAreRefused
