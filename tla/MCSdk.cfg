SPECIFICATION MCSpec
CONSTANTS
    AppThreads = {a1, a2}
    EventThread = ev
    None = None
    Addrs = {m1, m2}
    MaxIds = 3
    MaxInits = 3
    QueueBound = 2
    InitFails = TRUE
    ApiFrom = {a2, ev}
INVARIANT LifecycleSound
INVARIANT AccountsSound
 
CHECK_DEADLOCK FALSE
