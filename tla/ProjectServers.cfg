SPECIFICATION Spec
CONSTANTS
  a = a
  b = b
  e1 = e1
  e2 = e2
  Servers <- TwoServers
  Edits <- TwoEdits
  NoEdit = NoEdit
  Nobody = Nobody
  Orphan = Orphan
  AutoLimit = 0
  LockAttempts = 1
  MaxRevision = 1
  Faults = {"disk"}
INVARIANTS TypeOK FinalsWereAccepted
PROPERTY OneHistory

SYMMETRY Symmetry
