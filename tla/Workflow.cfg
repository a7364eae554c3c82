SPECIFICATION FairSpec
CONSTANTS
  NTasks = 4
  Missing = Missing
  Permits = 2
INVARIANTS
  TypeOK
  DependenciesFirst
  FailureReachesDependents
  ResultsBeforeDependents
  StopsOnlyWhenStuck
  FailureHasCause
PROPERTIES
  TerminalIsFinal
  Terminates
  ImplementsDagRun
