\* Commit after an interrupted rollback.
SPECIFICATION Spec
CONSTANTS
    Sessions = {s1}
    Paths = {p1, p2}
    Hashes = {h1, h2}
    Tx = {t1, t2}
    None = None
    Manifest = Manifest
    NoTx = NoTx
    RecoverFirst = TRUE
    MaxEdits = 0
INVARIANT CommitChoiceWorks
CHECK_DEADLOCK FALSE
