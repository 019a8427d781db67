CONSTANTS
    ResponseMaxSize = 4
    ResponseBufferSize = 6
    MessageLengths <- MCMessageLengths
    StreamLength = 14
SPECIFICATION FairSpec
INVARIANTS
    TypeOK
    StreamIntact
    SpaceUsable
    NoMessageLeftBehind
    VectorOnlyWhenNeeded
    KeptStartBounded
PROPERTIES
    ImplementsStream
    EveryMessageParsed
\* A closed session stops, and so does one whose peer has sent everything.
CHECK_DEADLOCK FALSE
