SPECIFICATION Spec
CONSTANTS
    Policies = {0, 2}
    AttemptBound = 3
    Delays = {1}
    WatchTicks = 2
    KeepAlive = TRUE
    KeepaliveReregister = FALSE
    SrvTargets = 2
    Vanish = FALSE
    Unasked = TRUE
    AppOps = {"register", "unregister", "cancel_retry", "retry_now", "set_retry_policy", "keepalive_now", "set_push_token", "destroy"}
    NetChanges = TRUE
INVARIANT TypeOK
INVARIANT AttemptsSent
INVARIANT TerminalTold
INVARIANT ProbeAlive
PROPERTY NoFlicker
