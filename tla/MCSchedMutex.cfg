SPECIFICATION MSpec
CONSTANTS
    Tasks = {a, b, c}
    Processes = {}
    Wakers = {}
    Idle = Idle
    NULL = NULL
    SleepTicks = {1}
    SCHEDULER_TIME_SLICE = 2
INVARIANTS
    MutualExclusion
    NoLostWakeup
    WaiterPlacement
