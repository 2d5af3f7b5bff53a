SPECIFICATION Spec
CONSTANTS
    Policies = {2}
    AttemptBound = 3
    Delays = {1, 2}
    WatchTicks = 2
    KeepAlive = TRUE
    KeepaliveReregister = TRUE
    SrvTargets = 0
    Vanish = FALSE
    Unasked = FALSE
    AppOps = {"register", "unregister"}
    NetChanges = FALSE
INVARIANT UnregisterEnds
