CONSTANTS
    a = a
    u1 = u1
    Ids = {i1, i2}
    Bases = {a}
    Suffixes = 3
    Urls = {u1}
    Jobs = {j1}
    None = None
    Bodies <- MCBodies
    Hits = {}
    BootEntries <- MCBoot
    Calls = {g1}
    Probes = {p1}
SPECIFICATION FairSpec
INVARIANTS PrimaryServed Coherent NeverStuck
PROPERTIES KeepsPromise Heals
CHECK_DEADLOCK FALSE
