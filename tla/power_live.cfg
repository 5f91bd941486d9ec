SPECIFICATION KillFairSpec
CONSTANTS
    r1 = r1  r2 = r2  h1 = h1  s1 = s1
    Reqs <- TwoReqs
    Handlers <- NoHandlers
    Readers <- OneReader
    Actions <- AllButBackground
    StopTypes <- AllStopTypes
    Found <- AnyContainer
    EventBuffer = 1
    CrashDetection = TRUE
    DetectCleanExit = TRUE
CHECK_DEADLOCK FALSE
PROPERTY
    RequestsReturn KillReturns
