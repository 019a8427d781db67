CONSTANTS
    t1 = t1  t2 = t2  s1 = s1  s2 = s2  s3 = s3  s4 = s4
    None = None
    Threads <- OneThread
    Sessions <- FourSessions
SPECIFICATION FairSpec
INVARIANTS
    TypeOK
    RegistryConsistent
    NoUseAfterDestroy
PROPERTIES
    DestroysThis
    EndedSessionsDestroyed
    StopEnds
\* A server that was stopped and joined does nothing more.
CHECK_DEADLOCK FALSE
