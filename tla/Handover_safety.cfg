SPECIFICATION Spec
CONSTANTS
    Calls = {c1, c2}
    Addrs = {wifi, ll}
    LinkLocal = {ll}
    NoAddr = NoAddr
    WsCalls = {c2}
    IceCalls = {}
    MaxAttempts = 2
    StallAttempts = 1
    StallRounds = 0
    MaxCand = 4
    VerifyMedia = TRUE
    FailFast = FALSE
    Interval = 10
    Intervals = {0}
    SettleMs = 1500
    AppOps = {"network_changed", "set_policy"}
    MaxChanges = 2
INVARIANT HandoverDriven
INVARIANT RecoveryOwned
INVARIANT DownTruthful
INVARIANT MigrationDriven
INVARIANT NotStranded
