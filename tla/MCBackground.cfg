CONSTANTS
    Senders = {x1}
    Devices = {"absent", "registered"}
    StreamBound = 2
    DrainCap = 4
    MaxRetries = 2
    MaxResets = 2
    Recordings = {r1}
    Audience = {u1}
    Posts = {h1, h2}
SPECIFICATION BgFairSpec
CHECK_DEADLOCK FALSE
INVARIANTS
    TypeOK
PROPERTIES
    PollTellsTruth
    PollResynchronizes
    TransactionsEnd
    Reconnects
    SupSeesDevice
    VmDiskIsFreed
