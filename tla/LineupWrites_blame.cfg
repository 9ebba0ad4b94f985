SPECIFICATION Spec
CONSTANTS
  a = a
  b = b
  c = c
  d = d
  None = None
  Payload <- ThreePlayers
  Eligible <- ThreeEligible
  Slots <- SmallSlots
  Writers <- CronOnly
  InitialStatuses <- AnyStatus
  Scopes <- WriteScope
  MaxRuns = 0
  MaxChanges = 0
  MaxFaults = 0
INVARIANT UnauthorizedIsYahoos
