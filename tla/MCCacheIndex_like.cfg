SPECIFICATION Spec
CONSTANTS
  Keys = {a, s}
  StreamKeys = {s}
  Callers = {c1, c2}
  Janitor = janitor
  Sizes = {1, 2}
  MaxSize = 2
  SoftPercent = 50
  TTLs = {0}
  DefaultTTL = 1
  AccessLag = 0
  Prefixes = {x}
  HasPrefix <- MCHasPrefix
  Like <- MCLike
  DirSize = 1
  MaxClock = 2
  MaxCrashes = 0
INVARIANTS
  IndexComplete
