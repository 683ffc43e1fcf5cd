CONSTANTS
  Clients = {c1, c2}
  Contents = {t1, t2}
  Operations = {o1, o2}
  None = None
  Requests = {r1, r2}
  Capacity = 1
  MaxSends = 2
SPECIFICATION Spec
SYMMETRY Symmetry
INVARIANTS
  NoConcurrentSend
  AtMostOnce
  AcknowledgedMeansSent
