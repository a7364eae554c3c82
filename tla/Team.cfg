SPECIFICATION TeamFairSpec
CONSTANTS
  NTasks = 2
  Missing = Missing
  Permits = 2
  Agent <- MCAgent
  Home = "home"
  BackendOf <- OwnBackend
  Scripted = {"tester"}
  MaxTurns = 1
  Addressed = {"tester", "*"}
  MaxMessages = 2
INVARIANTS
  InboxComplete
  LeftSessionHasCause
PROPERTY
  TeamEnds
CHECK_DEADLOCK FALSE
