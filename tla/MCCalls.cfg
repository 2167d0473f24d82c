CONSTANTS
    Calls = {c1, c2}
    Modems = {m0, m1, m2}
    NoModem = NoModem
    Sweeps = {s1, s2}
    NoCall = NoCall
    LateLegs = {"bridge"}
    Kinds = {"gsm", "service"}
    Dongle = m0
    MaxFaults = 1
SPECIFICATION CallsSpec
CHECK_DEADLOCK FALSE
SYMMETRY CallsSymmetry
INVARIANTS
    SysTypeOK
    ModemHeldByOneCall
    OnlyEndedCallsForgotten
    EndedCallIsBeingRemoved
    ToldOnceAndTruly
    AcceptConsumedOnce
    DialedCallKnown
    OneDialPerModem
    RealOutcomeTold
PROPERTIES
    EndedCallStaysEnded
    ImplementsLease
