SPECIFICATION Spec
CONSTANTS
    r1 = r1  r2 = r2  h1 = h1  s1 = s1
    Reqs <- TwoReqs
    Handlers <- OneHandler
    Readers <- OneReader
    Actions <- RestartAndBackground
    StopTypes <- CommandStop
    Found <- NoContainer
    EventBuffer = 1
    CrashDetection = TRUE
    DetectCleanExit = TRUE
SYMMETRY Symmetric
CHECK_DEADLOCK FALSE
INVARIANTS
    TypeOK
    PowerLockExclusive
    StartExclusive
    BootsFromDown
    LockedTerminateKills
PROPERTY
    ServesOneAtATime
