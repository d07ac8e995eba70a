CONSTANTS
    Macs = {m1, m2}
    Learned = {m1}
    MaxSessions = 2
SPECIFICATION FairSpec
INVARIANTS LiveSessionNotFlapping
PROPERTIES DisconnectIsNoticed
CHECK_DEADLOCK FALSE
