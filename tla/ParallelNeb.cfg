SPECIFICATION SearchSpec
CONSTANTS
  NPairs = 2
  Cost <- MCCost
  Budget = 3
  Cap = 0
  NebSteps = 4
INVARIANTS
  SuccessIsEarned
  StepsWithinBudget
  FailuresSayWhy
PROPERTIES
  Terminates
CHECK_DEADLOCK FALSE
