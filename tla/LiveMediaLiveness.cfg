CONSTANTS
  Streams = {s1}
  Issuers = {i1}
  Grants = {g1, g2}
  NoGrant = NoGrant
  Free = Free
  Lifetime = 1
  MaxTime = 1
  Capacity = 2
  MaxBatch = 1
  MaxBatches = 2
SPECIFICATION ResponsiveSpec
PROPERTIES
  ReplacedGivesUp
  TeardownCompletes
  FailureEndsConnection
