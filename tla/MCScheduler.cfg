SPECIFICATION FairSpec
CONSTANTS
    Tasks = {a, b, c}
    Processes = {c}
    Wakers = {a}
    Idle = Idle
    NULL = NULL
    SleepTicks = {0, 2}
    SCHEDULER_TIME_SLICE = 2
INVARIANTS
    TypeOK
    TaskPlacement
    NoStaleResume
    RequestHonoured
    NoOverdueSleeper
PROPERTIES
    Lifecycle
    ReadyTaskRuns
    SleeperWakes
