CONSTANTS
    Senders = {x1}
    Devices = {"absent", "registered"}
    StreamBound = 2
    DrainCap = 4
    MaxRetries = 2
SPECIFICATION FairSpec
PROPERTIES
    OutageKeepsState
