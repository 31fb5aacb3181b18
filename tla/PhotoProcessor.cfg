SPECIFICATION Spec
CONSTANTS
  Clients = {c1, c2}
  c1 = c1
  c2 = c2
  Total = 3
  Requests <- MCRequests
  None = None
  Error = Error
INVARIANTS
  FileIsPhoto
PROPERTIES
  ReadIsExact
