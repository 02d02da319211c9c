\* Two calls of any function, two summaries, two models, odd counts.
SPECIFICATION Spec
CONSTANTS
  Calls = {c1, c2, s1, s2}
  c1 = c1
  c2 = c2
  s1 = s1
  s2 = s2
  Order <- TwoOrders
  Models <- TwoModels
  Price <- DemoPrice
  Usages <- OddUsages
  Invalid = Invalid
SYMMETRY Symmetry
INVARIANTS
  TypeOK
  OneObservationPerCall
  SeriesAgree
  SpanAgrees
CHECK_DEADLOCK FALSE
