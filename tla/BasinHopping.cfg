SPECIFICATION Spec
CONSTANTS
  Geometries = {1, 2, 3, 4}
  EnergyOf <- MCEnergyOf
  Sound = {1, 2, 3}
  Alike <- MCAlike
  EnergyTolerance = 2
  Penalty = 100
  Niter = 2
  Hot = TRUE
  HighEnergy = FALSE
  MaxCalls = 2
  None = None
INVARIANTS
  ReturnedPassedTheGate
  EnergiesAreOwn
  FoundIsKeptOnce
CHECK_DEADLOCK FALSE
