SPECIFICATION Spec
CONSTANTS
  Songs = {s1,s2,s3}
  Handles = {h1,h2,h3}
  Threads = {t1, t2}
  t2 = t2
  FullSize = 1
  FilesCacheSize = 1
  None = None
  Reader = Reader
  s1 = s1
  s2 = s2
  s3 = s3
  h1 = h1
  h2 = h2
  h3 = h3
  t1 = t1
SYMMETRY Symmetry
INVARIANTS
  HandleResolves
  UsesCounted
  OneWriter
  FilesInUseKept
  WellFormedUnlessVetoed
