SPECIFICATION Spec
CONSTANTS
  Processes = {p1, p2}
  MaxRuns = 3
  Finds <- MCFinds
  Shape <- MCShape
  Real <- MCReal
  Optimizer = "ga"
  MaxFaults = 2
INVARIANTS
  TagsAreHonest
  FinalsAreTagged
  KnownMinimaReturn
  FolderMirrors
PROPERTIES
