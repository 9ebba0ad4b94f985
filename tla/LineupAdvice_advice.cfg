SPECIFICATION AdviceSpec
CONSTANTS
  a = a
  b = b
  c = c
  d = d
  None = None
  Payload <- FourPlayers
  Eligible <- FourEligible
  Slots <- LargeSlots
  Score <- EarlierIsBetter
  Writers <- CronOnly
  InitialStatuses <- OneInjured
  Scopes <- WriteScope
  MaxRuns = 0
  MaxChanges = 1
  MaxFaults = 1
INVARIANT AdviceTypeOK
INVARIANT LineupIsBest
INVARIANT TakenTogether
PROPERTY AdviceHelps
PROPERTY BothSettle
