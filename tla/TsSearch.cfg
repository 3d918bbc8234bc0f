SPECIFICATION Spec
CONSTANTS
  Minima <- MCMinima
  Known <- MCKnown
  Home <- MCHome
  BaseName <- MCBaseName
  MaxPairs = 2
  Searches = 2
  Crashes = 1
INVARIANTS
  AcceptedIsValid
  ReportsAgree
  SettledRowsTrace
PROPERTIES
  WorkIsKept
CHECK_DEADLOCK FALSE
