SPECIFICATION Spec
CONSTANTS
    Ids = {1, 2}
    Unknown = Unknown
    MaxQueue = 3
INVARIANTS AppliedIsSaved
CHECK_DEADLOCK FALSE
