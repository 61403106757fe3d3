SPECIFICATION FairSpec
CONSTANTS
  Keys = {a, s}
  StreamKeys = {s}
  Callers = {c1}
  Janitor = janitor
  Sizes = {2}
  MaxSize = 3
  SoftPercent = 70
  TTLs <- MCTTLs
  DefaultTTL = 1
  AccessLag = 0
  Prefixes = {x}
  HasPrefix <- MCHasPrefix
  Like <- MCLike
  DirSize = 1
  MaxClock = 3
  MaxCrashes = 1
INVARIANTS
  RowsFollowEntries
  PutTempsCleaned
PROPERTIES
  RecoveredTotal
  FilesMissingOnlyFromGap
  EventuallyWithinLimit
