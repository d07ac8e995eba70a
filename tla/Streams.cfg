SPECIFICATION Spec
CONSTANTS
    Set = {1, 2}
    Tests <- MCTests
    External = {1}
    NumSubnets = 2
    Talks <- MCTalks
    Dies <- MCDies
INVARIANTS MonitoredIsOpen  AnsweredOnce
PROPERTIES HangupNoticed SearchAnswered
CHECK_DEADLOCK FALSE
