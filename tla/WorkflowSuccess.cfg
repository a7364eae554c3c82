SPECIFICATION FairSpec
CONSTANTS
  NTasks = 2
  Missing = Missing
  Permits = 2
INVARIANT SuccessMeansCompleted
