SPECIFICATION PFairSpec
CONSTANTS
  Calls = {g1, g2, g3}
  NoCall = none
  FetchMayFail = TRUE
  MaxVersion = 2
  MaxEvictions = 1
  Proxies = {"npm", "apt"}
  Leavers = {g1, g2}
INVARIANTS
  FlightOwned
  NeverOlderThanFlight
  LeaversHarmNobody
  OwnHeaders
PROPERTIES
  FileNeverGoesBack
  AnswersNeverGoBack
  EveryCallReturns
  ImplementsSingleFlight
