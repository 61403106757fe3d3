SPECIFICATION FairSpec
CONSTANTS
  Gets = {g1, g2}
  Heads = {h}
  Writers = {w}
  Conditional = {h}
  NoReq = none
  TTL = 1
  StaleIfError = 1
  UpstreamMayFail = TRUE
  Tagged = {2}
  Dated = {1, 2}
  MaxVersion = 2
  MaxClock = 2
  MaxEvictions = 1
INVARIANTS
  BodyHasFile
  Paired
PROPERTIES
  MetaNeverGoesBack
  BytesNeverGoBack
  StaleOnlyFromOverlap
  EveryRequestAnswered
