SPECIFICATION Spec
CONSTANTS
  a = a
  b = b
  c = c
  d = d
  e = e
  f = f
  p = p
  q = q
  None = None
  Players = {a, b, c, d, e, f, p}
  Kind <- KindOf
  Eligible <- Plays
  Slots <- LargeRoster
  Outlooks <- OneOutlook
  InitialPlaces <- OpenRoster
  MaxCandidates = 5
  SeasonCandidates = 3
  weeklyAddLimit = 6
  ActiveBonus = 30
  BenchBonus = 8
  FloorBonus = 20
  MaxChanges = 0
PROPERTY ReserveKept
