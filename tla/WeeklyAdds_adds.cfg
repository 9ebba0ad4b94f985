SPECIFICATION Spec
CONSTANTS
  a = a
  b = b
  c = c
  d = d
  e = e
  f = f
  p = p
  q = q
  None = None
  Players = {a, b, c, d, e, p, q}
  Kind <- KindOf
  Eligible <- Plays
  Slots <- SmallRoster
  Outlooks <- TwoOutlooks
  InitialPlaces <- FourRosters
  MaxCandidates = 3
  SeasonCandidates = 1
  weeklyAddLimit = 2
  ActiveBonus = 30
  BenchBonus = 8
  FloorBonus = 20
  MaxChanges = 1
INVARIANT TypeOK
INVARIANT PlanFits
PROPERTY ScarceKept
PROPERTY RosterImproves
PROPERTY ChurnEnds
PROPERTY SlotsFill
