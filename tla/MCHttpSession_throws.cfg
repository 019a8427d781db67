CONSTANTS
    HeaderSize = 3
    StreamLength = 14
    Requests <- CarelessRequests
SPECIFICATION Spec
INVARIANTS
    ExceptionIs500
CHECK_DEADLOCK FALSE
