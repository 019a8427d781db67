CONSTANTS
    t1 = t1  t2 = t2  s1 = s1  s2 = s2  s3 = s3  s4 = s4
    None = None
    Threads <- TwoThreads
    Sessions <- FourSessions
SPECIFICATION Spec
PROPERTIES
    DestroysThis
CHECK_DEADLOCK FALSE
