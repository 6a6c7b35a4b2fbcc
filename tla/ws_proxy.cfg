CONSTANTS
    Conns = {c1, c2}
    Slots = {s1}
    Servers = {m1}
    Callers <- MCCallers
    MaxChanges = 2
    None = None
SPECIFICATION FairSpec
INVARIANTS NoHalfOpen NeverStuck
PROPERTIES Admitted Decided StreamsEnd
CHECK_DEADLOCK FALSE
