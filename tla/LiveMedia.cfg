CONSTANTS
  Streams = {s1, s2}
  Issuers = {i1, i2}
  Grants = {g1, g2}
  NoGrant = NoGrant
  Free = Free
  Lifetime = 1
  MaxTime = 0
  Capacity = 1
  MaxBatch = 1
  MaxBatches = 2
SPECIFICATION LiveSpec
SYMMETRY Symmetry
INVARIANTS
  OneConnectionPerGrant
  AtMostOneActiveLease
  ClaimedMeansHeld
  BridgeHasLease
  NoStaleAudioOnReconnect
  RevokedIsCutOff
PROPERTIES
  ImplementsExclusiveOwner
