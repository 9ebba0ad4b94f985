SPECIFICATION Spec
CONSTANTS
  w1 = w1
  j1 = j1
  o1 = o1
  None = None
  Workers <- OneWorker
  Jobs <- OneJob
  Operators <- OneOperator
  Lifetime = 4
  Buffer = 2
  RemoteCache = 2
  MaxDelay = 1
  MaxTime = 4
  MaxIssued = 2
  MaxLost = 1
INVARIANT TypeOK
INVARIANT Custody
PROPERTY WorkerTokenAlive
PROPERTY RemoteTokenAlive
