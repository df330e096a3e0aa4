SPECIFICATION FairSpec
CONSTANTS
    PwmRange = 2
    MaxThreads = 2
    Requested = TRUE
INVARIANT
    TypeOK
PROPERTIES
    LevelSettles
    FramesSettle
CHECK_DEADLOCK FALSE
