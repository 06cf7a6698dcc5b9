SPECIFICATION Spec
CONSTANTS
    o1 = o1
    o2 = o2
    Ops = {o1, o2}
    e1 = e1
    e2 = e2
    e3 = e3
    Cards = {e1, e2, e3}
    k1 = k1
    Claims = {k1}
    t1 = t1
    Texts = {t1}
    Relations = {"supports"}
    MaxRevision = 1
    MaxRecords = 3
    None = None
SYMMETRY Symmetry
CONSTRAINTS
    FewRecords
    FewDrafts
INVARIANTS
    OneActivePerFingerprint
    SupersededByOne
    SweptIsCurrent
PROPERTIES
    RecordsHold
CHECK_DEADLOCK FALSE
