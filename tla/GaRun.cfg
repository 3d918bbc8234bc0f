SPECIFICATION FairSpec
CONSTANTS
  PopulationSize = 2
  Tolerance = 0
  InitialSize = 2
  NOffspring = 3
  BatchSize = 2
  Unlimited = Unlimited
  Devices = {"cpu", "cuda"}
  Niter = 2
  MaxAttempts = 4
  MaxMisses = 3
  MaxRetries = 2
  EarlyStopping = 1
  Relaxed <- MCRelaxed
  None = None
INVARIANTS
  CountsAreDurable
  PopulationIsDurable
  NothingIsLost
  BestIsDurable
PROPERTIES
  Terminates
  ImplementsLedger
