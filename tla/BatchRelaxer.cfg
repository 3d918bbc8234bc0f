SPECIFICATION FairRelaxerSpec
CONSTANTS
  Sizes = {1, 2}
  MaxBatch = 4
  MaxCalls = 3
  Scalers = {1, 2}
  Given = 1
INVARIANTS
  AnswersInOrder
  RefusedByFreshLimit
  MemoryIsShort
PROPERTIES
  Answered
