CONSTANTS
    Sessions = {s1, s2}
    Migrations = {m1, m2, m3}
    Updates = {u1, u2}
    Legacy = Legacy
    NoMigration = NoMigration
SPECIFICATION Spec
INVARIANTS
    AtMostOnePending
    BackedUp
SYMMETRY Symmetry
CHECK_DEADLOCK FALSE
