\* One handler at a time.
CONSTANTS
  Requests = {q1, q2}
  NoRequest = NoRequest
  Workers = {w1}
  Plans = {basic, pro}
  Basic = basic
  Offers <- MCOffers
  MaxUsage = 1
  Overlap = FALSE
SPECIFICATION Spec
INVARIANTS
  TypeOK
  AtMostOnePending
PROPERTIES
  DecidedIsFinal
  SwitchFitsUsage
  GrowthWithinLimit
  KeepsContract
SYMMETRY Symmetry
