SPECIFICATION FairSpec
CONSTANTS
  c1 = c1
  c2 = c2
  c3 = c3
  Clients = {c1, c2, c3}
  s1 = s1
  s2 = s2
  Songs = {s1, s2}
  Calls <- MCCalls
  Workers = 3
  None = None
INVARIANTS
  JoinsRunningOpener
PROPERTIES
  CallEndsUnlessExhausted
\* It stops when all calls are done, or all threads of the pool are taken.
CHECK_DEADLOCK FALSE
