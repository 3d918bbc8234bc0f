SPECIFICATION Spec
CONSTANTS
  Processes = {p1, p2}
  MaxRuns = 3
  Finds <- MCFinds
  Shape <- MCShape
  Real <- MCReal
  Optimizer = "bh"
  MaxFaults = 0
INVARIANTS
  FinalsAreTagged
