SPECIFICATION Spec
CONSTANTS
    n1 = n1
    n2 = n2
    Names = {n1, n2}
    Raw = Raw
    Script <- MCScript
    Requests <- MCRequests
    Malformed = Malformed
    PageSize = 1
    MaxId = 2
INVARIANTS
    TypeOK
    Attribution
    ListIsSnapshot
    NoDeviceMeansGone
PROPERTIES
    DeletesAtMostOne
    ReplyIsTrue
    ImplementsTables
