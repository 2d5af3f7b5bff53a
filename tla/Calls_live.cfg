SPECIFICATION FairSpec
CONSTANTS
    Calls = {c1}
    None = None
    QueueMax = 3
    WorkMax = 1
    Snapshot = 1
    ApiCalls = {"invite", "answer", "hangup", "reject", "hold", "resume"}
    Threads = {"callback", "other"}
    Causes = {"bye", "487", "4xx"}
    Infos = {"sdp", "dtmf"}
    Rich = {c1}
PROPERTY CallsEnd
CHECK_DEADLOCK FALSE
