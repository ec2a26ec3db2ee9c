SPECIFICATION Spec
CONSTANTS
  a = a
  b = b
  e1 = e1
  e2 = e2
  Servers <- TwoServers
  Edits <- OneEdit
  NoEdit = NoEdit
  Nobody = Nobody
  Orphan = Orphan
  AutoLimit = 1
  LockAttempts = 1
  MaxRevision = 1
  Faults = {}
PROPERTY RemovesOnlyItsOwn

