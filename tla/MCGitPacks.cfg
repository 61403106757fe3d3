SPECIFICATION Spec
CONSTANTS
  Clients = {a, b}
  V2 = {b}
  Pushers = {p}
  NoClient = none
  UpstreamMayFail = TRUE
  MaxVersion = 2
  MaxExpiries = 1
  MaxEvictions = 1
INVARIANTS
  MismatchOnlyFromCrossing
  StaleRefsOnlyFromOverlap
  FollowersHit
  BrokenOnlyByEviction
PROPERTIES
  L1ImplementsSingleFlight
