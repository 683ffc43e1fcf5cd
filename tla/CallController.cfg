CONSTANTS
  Requests = {r1, r2}
  Gains = {7, 9}
  None = None
SPECIFICATION Spec
SYMMETRY Symmetry
INVARIANTS
  StateInStep
  MicrophoneInStep
  NoRefusalAfterEffect
