SPECIFICATION Spec
CONSTANTS
  a = a
  b = b
  c = c
  d = d
  None = None
  Payload <- ThreePlayers
  Eligible <- ThreeEligible
  Slots <- SmallSlots
  Writers <- Routes
  InitialStatuses <- OneUnfit
  Scopes <- BothScopes
  MaxRuns = 1
  MaxChanges = 1
  MaxFaults = 1
PROPERTY RefusalExplained
PROPERTY WriteHelps
PROPERTY StartersKept
CHECK_DEADLOCK FALSE
