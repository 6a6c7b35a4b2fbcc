CONSTANTS
    MaxConns = 2
    Subjects = {s1, s2}
    Kinds <- MCKinds
    Keys = {k1, k2}
    MaxWrites = 2
    MaxLoads = 2
    None = None
SPECIFICATION FairSpec
INVARIANTS HeldOrEnding OwnLines IndicatorsTrue RightSubject SeesOwnActs
PROPERTIES NoRevert PollHeals
CHECK_DEADLOCK FALSE
