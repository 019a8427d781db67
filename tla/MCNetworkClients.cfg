CONSTANTS
    Requests = 3
    HeaderSize = 2
    ReadSize = 5
    Polls = 1
    Workloads <- Supported
SPECIFICATION FairSpec
INVARIANTS
    TypeOK
    KeptResponsesWhole
    RightResponse
    NothingDropped
    NothingOverlooked
    CountFollowsFraming
    HttpWaitsForResponse
PROPERTIES
    GetReturns
\* The application may stop asking, and the server may close the connection.
CHECK_DEADLOCK FALSE
