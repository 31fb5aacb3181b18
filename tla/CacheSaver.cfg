SPECIFICATION Spec
CONSTANTS
  Songs = {s1, s2}
  FullSize = 2
  Bounds = {1, 2}
  MaxStarts = 3
  None = None
  Torn = Torn
INVARIANTS
  FilesHaveEntries
  CompleteIsWhole
PROPERTIES
  StartTurnsOrder
\* The number of starts is bounded, and a torn file ends the program.
CHECK_DEADLOCK FALSE
