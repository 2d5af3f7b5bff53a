SPECIFICATION Spec
CONSTANTS
    MaxGen = 3
    MaxU = 3
    MaxRemote = 2
    Polls = 1
    Accounts = {a1, a2, a3}
    Servers = {s1, s2, local}
    SockAddrs = {local, loop, x1}
    Dead = {local, loop}
    Paths = {NoPath, ws}
    NoPath = NoPath
    None = None
    MaxServers = 2
    MaxSeq = 3
    Transports = {"udp", "tls"}
    Hosts = {"x"}
    Priorities = {0, 1}
    Weights = {0, 1}
    MaxRecords = 2
    Hint = "udp"
    Domain = "domain"
    MaxSrv = 2
    MaxTargets = 3
INVARIANT PinSound
INVARIANT LookupSound
PROPERTY IceSound
PROPERTY NetworkSettles
CHECK_DEADLOCK FALSE
