SPECIFICATION FairSpec
CONSTANTS
    Macs = {a, b}
    Authorized = {a}
    IdSpace = 2
    MaxRetries = 1
    MaxFrames = 5
 
PROPERTIES TestEnds
CHECK_DEADLOCK FALSE
