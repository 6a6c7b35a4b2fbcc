CONSTANTS
    Users = {u1}
    Servers = {a}
    Slots = {s1}
    Reqs = {r1, r2}
    Fetches = {f1, f2}
    Keys <- CacheKeys
    Ops <- CacheOps
    Permissions = {}
    None = None
    Seed = Seed
SPECIFICATION FairSpec
INVARIANTS SettledSeen NeverStuck
PROPERTIES CatchesUp Ends
CHECK_DEADLOCK FALSE
