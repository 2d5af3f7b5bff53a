SPECIFICATION FairSpec
CONSTANTS
    AppThreads = {a1, a2}
    Handlers = {h1}
    NoHandler = NoHandler
    Calls = {c1}
    NoCall = NoCall
    None = None
    QueueMax = 2
    CallbackUses = {"set_event_handler", "is_initialized"}
    MaxRefs = 2
INVARIANT TypeOK
INVARIANT QueueLengthExact
INVARIANT RetiredUnreachable
INVARIANT RefsAccounted
INVARIANT HandlesSound
PROPERTY ApiReturns
CHECK_DEADLOCK FALSE
