SPECIFICATION Spec
CONSTANTS
  None = None
  DailyLimit <- ProductionLimits
  FirstTick = 12
  LastTick = 23
  PregameHours <- GameDays
  MaxRuns = 1
  MaxDisturbed = 3
  Tolerated = 2
INVARIANT TypeOK
INVARIANT SentByDayEnd
INVARIANT NoSilentDay
