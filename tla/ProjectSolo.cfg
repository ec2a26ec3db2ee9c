SPECIFICATION FairSpec
CONSTANTS
  a = a
  b = b
  e1 = e1
  e2 = e2
  Servers <- OneServer
  Edits <- TwoEdits
  NoEdit = NoEdit
  Nobody = Nobody
  Orphan = Orphan
  AutoLimit = 1
  LockAttempts = 2
  MaxRevision = 2
  Faults = {"crash"}
INVARIANTS ReadyIsThere
PROPERTIES OperationsEnd

