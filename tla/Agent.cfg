SPECIFICATION FairSpec
CONSTANTS
  Call = {Hello, A, B}
  Hello = Hello
  Lists = {B}
  MaxId = 4
  MaxLines = 1
  MayClose = TRUE
  Tool <- MCTool
  Replies <- ModelReplies
  MaxTurns = 2
  MaxPolls = 1
  Asking = {"asks"}
  Deferring = {"defers"}
  Faulty = TRUE
INVARIANTS
  OwnAnswer
  CanBeWoken
  ResultsComplete
  ResultsAreOwn
  ThoughtsAreNotActedOn
  CompletedRunLeavesNoSession
PROPERTIES
  RunEnds
