SPECIFICATION FairSpec
CONSTANTS
  StreamLen = 3
  BlockSize = 1
  InMemory = 2
  TagLen = 2
  Replaced = 1
  Readers = {r1, r2}
  Requests <- MCRequests
  MaxSessions = 1
  MaxCrashes = 0
  Junk = Junk
  r1 = r1
  r2 = r2
INVARIANTS
  ReadExactWhileOpen
  OneStreamReader
  NoFutureError
  FreedIsQuiet
PROPERTIES
  ReadEndsUnlessNotifyLost
  DestructorEnds
