CONSTANTS
    Recordings = {r1}
    Audience = {u1, u2}
    Posts = {h1, h2}
SPECIFICATION VmSpec
CHECK_DEADLOCK FALSE
INVARIANTS
    VmFailedForwardKept
