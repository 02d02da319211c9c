\* Two jobs at once, two attempts each, every kind of carrier.
SPECIFICATION Spec
CONSTANTS
  Jobs = {j1, j2}
  MaxAttempts = 2
  Carriers <- CarrierKinds
SYMMETRY Symmetry
INVARIANTS
  TypeOK
  OneTrace
  AttemptsLinkToProducer
  SignalsAgree
  LinesOfOwnAttempt
CHECK_DEADLOCK FALSE
