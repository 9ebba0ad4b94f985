SPECIFICATION Spec
CONSTANTS
  d1 = d1
  g1 = g1
  None = None
  Dispatchers <- OneDispatcher
  Runs <- OneRun
  MaxUnits = 2
  MaxContext = 0
  MaxFaults = 1
  GenOf <- DistinctGens
INVARIANT PartialsMatchCandidates
