SPECIFICATION MCSpec
CONSTANTS
    Policies = {0, 2}
    AttemptBound = 3
    Delays = {1, 2}
    WatchTicks = 2
    KeepAlive = TRUE
    KeepaliveReregister = TRUE
    SrvTargets = 0
    Vanish = TRUE
    Unasked = TRUE
    AppOps = {"register", "unregister", "cancel_retry", "retry_now", "set_retry_policy", "keepalive_now", "destroy"}
    NetChanges = TRUE
INVARIANT PromiseKept
PROPERTY PatientResolves
