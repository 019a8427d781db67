CONSTANTS
    Requests = 3
    HeaderSize = 2
    ReadSize = 5
    Polls = 1
    Workloads <- BinaryOnly
SPECIFICATION Spec
INVARIANTS
    GetWaitsForResponse
\* The application may stop asking, and the server may close the connection.
CHECK_DEADLOCK FALSE
