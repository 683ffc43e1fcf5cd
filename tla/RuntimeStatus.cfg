CONSTANTS
  Calls = {k1}
  Requests = {r1, r2}
  GracePeriod = 1
  None = None
  PhoneStates = {"active", "disconnected"}
SPECIFICATION PolledSpec
INVARIANTS
  ActiveAudioHasCall
  StalledMeansPersistent
PROPERTIES
  StuckScoIsReported
  StatusConverges
