CONSTANTS
    Ports = {1}
    MaxChanges = 4
    MaxRestarts = 2
SPECIFICATION FairSpec
 
PROPERTIES LearnOnActivePort 
CHECK_DEADLOCK FALSE
