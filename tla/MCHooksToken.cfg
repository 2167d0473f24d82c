CONSTANTS
    AmiSecrets = {p1}
    Tokens = {t1, t2}
    NoSecret = NoSecret
    Releases = 1
    Settings = 1
SPECIFICATION InstSpec
INVARIANTS
    InstHooksKnowToken
