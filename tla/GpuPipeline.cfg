SPECIFICATION FairSpec
CONSTANTS
  Generations = 3
  MaxProduce = 4
  WorkerFaults = {"error", "fatal"}
  NoWave = NoWave
  EmptyWave = EmptyWave
  STOP = STOP
INVARIANTS
  QuietAfterClose
  ResultMatchesWave
  OneInFlight
PROPERTIES
  Terminates
  ImplementsLedger
