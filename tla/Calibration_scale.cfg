SPECIFICATION Spec
CONSTANTS
  None = None
  DaysPerWeek = 2
  LastWeek = 3
  TicksPerDay = 1
  MaxFaults = 1
  NightRuns = FALSE
  MinWeeks = 1
  Values <- FourValues
  TrueVolatility = 2
  NoiseFloor = 1
PROPERTY ScaleFitsTheWeeks
CHECK_DEADLOCK FALSE
