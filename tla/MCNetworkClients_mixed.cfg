CONSTANTS
    Requests = 3
    HeaderSize = 2
    ReadSize = 5
    Polls = 0
    Workloads <- Mixed
SPECIFICATION Spec
INVARIANTS
    NeverThrows
\* The application may stop asking, and the server may close the connection.
CHECK_DEADLOCK FALSE
