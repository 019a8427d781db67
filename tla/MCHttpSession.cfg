CONSTANTS
    HeaderSize = 3
    StreamLength = 14
    Requests <- SoundRequests
SPECIFICATION Spec
INVARIANTS
    TypeOK
    StateIsOfFront
    NothingUnanswered
    OneResponseEach
PROPERTIES
    ImplementsStream
\* A closed session stops, and so does one whose client has sent everything.
CHECK_DEADLOCK FALSE
