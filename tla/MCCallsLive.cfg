CONSTANTS
    Calls = {c1, c2}
    Modems = {m0, m1}
    NoModem = NoModem
    Sweeps = {s1}
    NoCall = NoCall
    LateLegs = {}
    Kinds = {"gsm"}
    Dongle = m0
    MaxFaults = 1
SPECIFICATION CallsFairSpec
CHECK_DEADLOCK FALSE
PROPERTIES
    WatchedStatesEnd
    EndedCallsRemoved
    
