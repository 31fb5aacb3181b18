SPECIFICATION FairSpec
CONSTANTS
  opener = opener
  other = other
  Threads <- MCThreads
  Does <- MCDoes
  MaxCalls <- MCMaxCalls
  Main = Main
  Nobody = Nobody
  Blocks = 1
  NumSizeRetries = 1
INVARIANTS
  PromiseOutlivesOperation
  ShutdownsAlone
  SizeQueryGivesUp
PROPERTIES
  CallEndsUnlessSilent
