SPECIFICATION LiveSpec
CONSTANTS
  None = None
  DaysPerWeek = 2
  LastWeek = 3
  TicksPerDay = 1
  MaxFaults = 1
  NightRuns = TRUE
  MinWeeks = 2
  Values <- ThreeValues
  TrueVolatility = 1
  NoiseFloor = 1
INVARIANT TypeOK
INVARIANT PredictionOfItsWeek
INVARIANT ScaleIsEarned
PROPERTY BookKept
PROPERTY RecordedWeekCloses
CHECK_DEADLOCK FALSE
