\* One session that recovers before it writes again, crashes anywhere.
SPECIFICATION Spec
CONSTANTS
    Sessions = {s1}
    Paths = {p1, p2}
    Hashes = {h1, h2}
    Tx = {t1, t2}
    None = None
    Manifest = Manifest
    NoTx = NoTx
    RecoverFirst = TRUE
    MaxEdits = 0
INVARIANTS
    ManifestImpliesFiles
    RecoveryPossible
PROPERTIES
    ImplementsAtomicStore
CHECK_DEADLOCK FALSE
