SPECIFICATION FairSpec
CONSTANTS
    PwmRange = 2
    Span = 4
    MaxThreads = 1
    Events <- MCEvents
INVARIANTS
    TypeOK
    DrivenUnlessReversing
    Obeyed
PROPERTIES
    SpeedAfterDirection
    SteadySpeedIsFatal
CHECK_DEADLOCK FALSE
