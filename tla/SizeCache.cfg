SPECIFICATION SizesFairSpec
CONSTANTS
  Threads = {t1, t2, t3}
  Files = {f1, f2}
  MaxSize = 1
  MaxCalls = 1
  NoFile = NoFile
  t1 = t1
  t2 = t2
  t3 = t3
  f1 = f1
  f2 = f2
INVARIANTS
  MarkerHasObtainer
  OneQueryPerFile
PROPERTIES
  CallEndsUnlessStranded
