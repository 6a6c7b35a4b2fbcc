CONSTANTS
    Users = {u1}
    Sids = {s1, s2}
    Tokens = {t1}
    Reqs = {r1, r2}
    None = None
    Seeded = {}
SPECIFICATION Spec
SYMMETRY Symmetry
INVARIANTS OldCredentialsDie
PROPERTIES KeepsCredentials LiveStays
CHECK_DEADLOCK FALSE
