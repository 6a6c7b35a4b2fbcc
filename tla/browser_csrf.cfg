CONSTANTS
    Tabs = {t1, t2}
    Users = {ann, bob}
    MaxSessions = 2
    MaxTokens = 2
    None = None
SPECIFICATION Spec
PROPERTIES PrimedAccepted
SYMMETRY Symmetry
CHECK_DEADLOCK FALSE
