CONSTANTS
  None = None
  Zero = Zero
  Garbage = Garbage
  d1 = d1
  d2 = d2
  s1 = s1
  k1 = k1
  k2 = k2
  Decryptor <- MCDecryptor
  Status <- MCStatus
  DataKey <- MCDataKey
  Supports <- MCSupports
  Modes <- MCModes
  Rounds <- MCRounds
SPECIFICATION Spec
SYMMETRY MCSymmetry
INVARIANTS LazyKeysRight EagerKeysRight
