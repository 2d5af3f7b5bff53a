SPECIFICATION FairSpec
CONSTANTS
    Calls = {c1}
    Addrs = {wifi, cell}
    LinkLocal = {}
    NoAddr = NoAddr
    WsCalls = {}
    IceCalls = {c1}
    MaxAttempts = 3
    StallAttempts = 2
    StallRounds = 1
    MaxCand = 4
    VerifyMedia = TRUE
    FailFast = TRUE
    Interval = 10
    Intervals = {0, 1, 10}
    SettleMs = 1500
    AppOps = {"network_changed", "set_monitor", "shutdown"}
    MaxChanges = 1
INVARIANT TypeOK
INVARIANT RepairsBounded
PROPERTY ChangesSettle
