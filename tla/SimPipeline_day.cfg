SPECIFICATION FairSpec
CONSTANTS
  d1 = d1
  g1 = g1
  None = None
  Dispatchers <- OneDispatcher
  Runs <- OneRun
  MaxUnits = 2
  MaxContext = 1
  MaxFaults = 1
  GenOf <- DistinctGens
INVARIANT TypeOK
INVARIANT OneStagePerTick
INVARIANT PartialsKeptApart
INVARIANT PreparedIsWhole
INVARIANT MixedOnlyAcrossWriters
PROPERTY SpecPinned
PROPERTY ImplementsPreparedBriefing
