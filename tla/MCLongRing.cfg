CONSTANTS
    Calls = {c1, c2}
    Modems = {m1}
    NoModem = NoModem
    Sweeps = {s1}
    NoCall = NoCall
    LateLegs = {}
    Kinds = {"gsm"}
    Dongle = m1
    MaxFaults = 0
SPECIFICATION SysSpec
INVARIANTS
    VoicemailOnlyUnanswered
