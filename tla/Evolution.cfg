SPECIFICATION CSpec
CONSTANTS
  Workers = {"worker"}
  Parent = "parent"
  Generations = 3
  MaxJobs = 1
  PopulationSize = 2
  Tolerance = 1
  Operators = {"rattle"}
  NoOperator = "none"
  Scores = {1, 2, 3}
  Shapes = {1, 2, 3}
  Batch = 2
INVARIANTS
  OperatorsAreOfThisGeneration
  CreditIsEarned
  DistinctMembers
PROPERTIES
  RankwiseImprovement
