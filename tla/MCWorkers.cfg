SPECIFICATION EnvSpec
CONSTANTS
    Tasks = {t1, t2}
    Runtimes = {r1, r2}
    Clients = {c1}
    NoTask = NoTask
    NoRuntime = NoRuntime
INVARIANTS
    TypeOK
    RefreshesSequential
    NoLostWake
    CalmTriggerObserved
PROPERTIES
    CalmParkedReturns
CHECK_DEADLOCK FALSE
