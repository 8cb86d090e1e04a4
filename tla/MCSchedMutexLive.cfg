SPECIFICATION MFairSpec
CONSTANTS
    Tasks = {a, b}
    Processes = {}
    Wakers = {}
    Idle = Idle
    NULL = NULL
    SleepTicks = {1}
    SCHEDULER_TIME_SLICE = 2
PROPERTIES
    WaiterServed
