CONSTANTS
    Numbers = {n1, n2}
    Commands = {b1, b2}
    Recordings = {r1}
    Audience = {u1, u2}
    Posts = {h1, h2}
    Requests = {q1, q2, q3}
    Users = {u1}
    CorrelationIds = {i1}
    NoId = NoId
    MaxRequests = 2
    Window = 2
    ReplayWindow = 2
    LastTime = 4
    MaxResets = 2
    Profiles = {a, b}
    Channels = {gsm, lte}
    Ports = {x, y}
    Absent = Absent
    Installed = a
    AmiSecrets = {p1, p2}
    Tokens = {t1, t2}
    NoSecret = NoSecret
    Releases = 2
    Settings = 2
SPECIFICATION ServicesSpec
CHECK_DEADLOCK FALSE
INVARIANTS
    ServicesTypeOK
    BlConfirmedStands
    VmSpeechAccounted
    VmTwiceOnlyAfterCut
    AdmWindowBound
    AdmRefusedOnlyWhenFull
    AdmNoReplay
    SupToldWhatItSaw
    MpVerifiedTried
    MpRollbackWorks
    InstTokenKept
    InstFilesAgree
    InstApplied
