\* Two sessions without any coordination.
SPECIFICATION FairSpec
CONSTANTS
    Sessions = {s1, s2}
    Paths = {p1}
    Hashes = {h1}
    Tx = {t1, t2}
    None = None
    Manifest = Manifest
    NoTx = NoTx
    RecoverFirst = FALSE
    MaxEdits = 0
INVARIANT UnjournaledIsHarmless
PROPERTY CallsEnd
CHECK_DEADLOCK FALSE
