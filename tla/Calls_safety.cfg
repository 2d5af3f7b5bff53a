SPECIFICATION Spec
CONSTANTS
    Calls = {c1, c2}
    None = None
    QueueMax = 2
    WorkMax = 1
    Snapshot = 2
    ApiCalls = {"invite", "answer", "hangup", "reject", "xfer_accept", "xfer_reject"}
    Threads = {"callback"}
    Causes = {"bye"}
    Infos = {"refer"}
    Rich = {c1}
INVARIANT TypeOK
INVARIANT OwnedOnce
INVARIANT DebtsKept
INVARIANT SyncOnLive
PROPERTY KeepsPromise
CHECK_DEADLOCK FALSE
