SPECIFICATION Spec
CONSTANTS
    g1 = g1
    Generations = {g1}
    v1 = v1
    Validations = {v1}
    e1 = e1
    Cards = {e1}
    k1 = k1
    k2 = k2
    Claims = {k1, k2}
    t1 = t1
    Texts = {t1}
    Relations = {"supports", "refutes"}
    MaxRevision = 1
    Doc = Doc
    None = None
SYMMETRY Symmetry
CONSTRAINTS
    Gated
    FewNamed
INVARIANTS
    CreatedStood
    ValidatedStood
CHECK_DEADLOCK FALSE
