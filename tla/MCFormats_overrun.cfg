CONSTANTS
    StaticSize = 40
    Kinds = {"nonExpanding"}
    Stale = 63
    Messages <- const_Messages
    Rounds = 1
SPECIFICATION Spec
INVARIANTS
    NoOverrun
CHECK_DEADLOCK FALSE
