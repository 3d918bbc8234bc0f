SPECIFICATION Spec
CONSTANTS
  Minima <- MCMinima
  Known <- MCKnown
  Home <- MCHome
  BaseName <- MCBaseName
  MaxPairs = 2
  Searches = 2
  Crashes = 1
INVARIANTS
  RowsTraceToTheirMinima
CHECK_DEADLOCK FALSE
