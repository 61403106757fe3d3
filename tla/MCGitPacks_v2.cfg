SPECIFICATION Spec
CONSTANTS
  Clients = {a, b}
  V2 = {a, b}
  Pushers = {p}
  NoClient = none
  UpstreamMayFail = FALSE
  MaxVersion = 2
  MaxExpiries = 0
  MaxEvictions = 0
INVARIANTS
  V2PackMatchesLsRefs
SYMMETRY ClientSymmetry
