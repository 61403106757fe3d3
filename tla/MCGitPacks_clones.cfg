SPECIFICATION FairSpec
CONSTANTS
  Clients = {a, b, c}
  V2 = {}
  Pushers = {}
  NoClient = none
  UpstreamMayFail = TRUE
  MaxVersion = 1
  MaxExpiries = 0
  MaxEvictions = 0
PROPERTIES
  EveryCloneAnswered
