CONSTANTS
    a = a
    u1 = u1
    u2 = u2
    Ids = {i1, i2, i3}
    Bases = {a}
    Suffixes = 4
    Urls = {u1, u2}
    Jobs = {j1, j2}
    None = None
    Bodies <- MCBodies
    Hits <- MCHits
    BootEntries <- MCBoot
SPECIFICATION Spec
INVARIANTS AtMostOnePrimary UniqueNames
PROPERTIES PrimaryKept
SYMMETRY Symmetry
CHECK_DEADLOCK FALSE
