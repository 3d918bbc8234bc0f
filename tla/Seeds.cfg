SPECIFICATION Spec
CONSTANTS
  Databases <- MCDatabases
  PathComposition <- MCPathComposition
  Findable <- MCFindable
  Goals <- MCGoals
  Linear = {2}
  MaxPerFormula = 1
  EnergyBins = 2
  MaxWrites = 4
  MaxScans = 3
  MaxFaults = 1
  TemplateCounts = {2}
  BatchSizes = {4}
  RawTargets = {0, 3}
  None = None
INVARIANTS
  KnownMinimaSeed
  PlanCoversOptions
CHECK_DEADLOCK FALSE
