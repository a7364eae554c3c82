CONSTANTS
    Weights = Weights
    Proc = {"cli", "bridge"}
    Bridge = "bridge"
    File = {Weights}
    Selection <- Asked
    NoFile = 0
    Chunks = 2
    MaxVersion = 2
    MaxCrashes = 1
    Together = 1
    Sessions <- Hosts
    MaxBooting = 1
    MaxCommands = 1
SPECIFICATION FairSpec
INVARIANTS
    VerifiedFilesAreWhole
    ResumedFilesAreWhole
    AnsweredInTurn
    EventsBeforeTheAnswer
CHECK_DEADLOCK FALSE
PROPERTIES
    StatusFollows
