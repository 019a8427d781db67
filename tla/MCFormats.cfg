CONSTANTS
    StaticSize = 7
    Kinds <- const_Kinds
    Stale = 63
    Messages <- const_Messages
    Rounds = 2
SPECIFICATION Spec
INVARIANTS
    BufferIntact
    CursorRight
    JsonRoundTrip
    BinaryRoundTrip
    UrlRoundTrip
    ReadByName
CHECK_DEADLOCK FALSE
