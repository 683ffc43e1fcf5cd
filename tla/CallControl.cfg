CONSTANTS
  Requests = {r1, r2}
  Calls = {k1, k2}
  PhoneStates = {"incoming", "active"}
  Maximum = 2
  Window = 2
  MaxTime = 4
  None = None
SPECIFICATION Spec
SYMMETRY Symmetry
INVARIANTS
  AcceptedTookEffect
  RateBounded
