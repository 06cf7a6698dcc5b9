\* One session that may ignore a pending journal; files edited between calls.
SPECIFICATION Spec
CONSTANTS
    Sessions = {s1}
    Paths = {p1, p2}
    Hashes = {h1, h2}
    Tx = {t1, t2}
    None = None
    Manifest = Manifest
    NoTx = NoTx
    RecoverFirst = FALSE
    MaxEdits = 1
SYMMETRY Symmetry
PROPERTIES
    NoClobber
    RevisionAdvances
CHECK_DEADLOCK FALSE
