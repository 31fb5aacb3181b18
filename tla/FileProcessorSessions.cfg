SPECIFICATION Spec
CONSTANTS
  StreamLen = 7
  BlockSize = 2
  InMemory = 4
  TagLen = 2
  Replaced = 1
  Readers = {r1}
  Requests <- FewRequests
  MaxSessions = 3
  MaxCrashes = 1
  Junk = Junk
  r1 = r1
INVARIANTS
  DiskIsVirtualPrefix
  RecordedResumable
  DownloadInStep
