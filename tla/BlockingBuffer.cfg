SPECIFICATION BufferFairSpec
CONSTANTS
  StreamLen = 10
  BlockSize = 3
  MaxMem = 7
  MaxReadLen = 4
  Junk = Junk
INVARIANTS
  LogIsStreamPrefix
  FreshReadExact
  DrainExact
PROPERTIES
  ImplementsStreamLog
  ReadReturnsUnlessEofLost
