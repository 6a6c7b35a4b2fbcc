CONSTANTS
    Users = {u1}
    Servers = {a, b}
    Slots = {s1}
    Reqs = {r1, r2}
    Fetches = {}
    Keys = {}
    Ops <- MCOps
    Permissions <- MCPermissions
    None = None
    Seed = Seed
SPECIFICATION Spec
SYMMETRY MCSymmetry
INVARIANTS TypeOK AuditTruthful
PROPERTIES GrantHeld
CHECK_DEADLOCK FALSE
