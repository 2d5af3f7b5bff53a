SPECIFICATION Spec
CONSTANTS
    StallAfter = 2
    Grace = 4
    RecoverTicks = 2
    DownPct = 60
    UpPct = 60
    LossAlert = 60
    SetRates = {0, 600, 20000}
    MinRates = {0, 20000}
    MaxRates = {0, 16000}
    MaxWindow = 2
    Params = {"useinbandfec", "usedtx"}
    Negotiated = {20000}
    SampleRates = {8, 48}
    MaxFrames = 2
    MaxFiles = 2
    MaxTaps = 2
    ExtCalls = {c1, c2}
    Nobody = Nobody
    Frame = 2
    BufMax = 4
    PushSizes = {1, 3}
    MaxPushed = 4
    PathCalls = {c1}
    Names = {"usb"}
    Builds = {"android", "ios", "windows", "webrtc", "driverless"}
    N_REC_BUFFERS = 4
    N_PLAY_BUFFERS = 2
    MaxRefusals = 4
INVARIANT DeviceSound
INVARIANT PathSound
INVARIANT DriverSound
PROPERTY StallsTruthful
PROPERTY RateSound
PROPERTY RecordingSound
CHECK_DEADLOCK FALSE
