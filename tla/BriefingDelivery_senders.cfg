SPECIFICATION FairSpec
CONSTANTS
  t1 = t1
  q1 = q1
  g1 = g1
  None = None
  Ticks <- OneTick
  Requests <- OneRequest
  Runs <- OneRun
  MaxPublished = 1
  MaxFaults = 1
  Limit = 2
INVARIANT TypeOK
INVARIANT LimitKept
INVARIANT HealthyVerdictIsTrue
INVARIANT BudgetNotBurnt
PROPERTY DeliveredInOrder
PROPERTY ImplementsDailyDelivery
