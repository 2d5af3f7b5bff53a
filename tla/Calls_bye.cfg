SPECIFICATION Spec
CONSTANTS
    Calls = {c1}
    None = None
    QueueMax = 3
    WorkMax = 1
    Snapshot = 1
    ApiCalls = {"invite", "answer", "hangup", "reject", "hold", "resume"}
    Threads = {"callback"}
    Causes = {"bye", "487", "4xx"}
    Infos = {}
    Rich = {c1}

PROPERTY ByeIsEnded
CHECK_DEADLOCK FALSE
