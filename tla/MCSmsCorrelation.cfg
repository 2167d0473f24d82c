CONSTANTS
    Msgs = {a1, a2, a3}
    Numbers = {n1, n2}
    NoNumber = NoNumber
    MaxFaults = 1
SPECIFICATION SmsSpec
SYMMETRY Symmetry
INVARIANTS
    TypeOK
    ReportStands
    LossIsBounded
    OnlyWrittenResolved

PROPERTIES
    ImplementsLedger
