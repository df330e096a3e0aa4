SPECIFICATION Spec
CONSTANTS
    SearchNames = {"", "a"}
    Owners = {0, 1, 2}
    Ids = {1, 2, 3}
    Matches <- MCMatches
    PageSize = 2
    MaxQueue = 3
INVARIANTS
    TypeOK
    Fresh
PROPERTIES
    DeletedIsRemoved
    EmptyOnlyBeyond
