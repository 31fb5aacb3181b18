SPECIFICATION FairSpec
CONSTANTS
  Threads = {t1, t2, t3}
  Names = {a, x, y}
  Songs = {x, y}
  Existing <- MCExisting
  Calls <- MCCalls
  MaxNodes = 7
  MaxCalls = 1
  a = a
  x = x
  y = y
  t1 = t1
  t2 = t2
  t3 = t3
INVARIANTS
  LocksAreOfPaths
  CyclesNeedRename
  FoundWasThere
PROPERTIES
  CallsEndUnlessDeadlocked
