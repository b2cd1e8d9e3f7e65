SPECIFICATION FairSpec
CONSTANTS
    Writers = {w1, w2}
    LogLevels = {"fatal", "trace"}
    Environment <- MCEnvironment
    MaxMessages = 3
    MaxLogged = 2
    MaxAppenders = 2
    MaxSettings = 1
    Patterns <- MCPatterns
    Foreign <- MCForeign
    MaxFiles = 1
    MaxClock = 1
    MaxWatches = 2
    MaxPackFailures = 1
CHECK_DEADLOCK FALSE
INVARIANTS WrittenOnce OnlyLogFiles
PROPERTIES KeepsMaxFiles OpenFileKept FilesBounded
