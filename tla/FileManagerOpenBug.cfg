SPECIFICATION Spec
CONSTANTS
  Songs = {s1,s2}
  Handles = {h1,h2}
  Threads = {t1}
  FullSize = 1
  FilesCacheSize = 1
  None = None
  Reader = Reader
  s1 = s1
  s2 = s2
  h1 = h1
  h2 = h2
  t1 = t1
SYMMETRY Symmetry
INVARIANTS
  OpenFailsCleanly
