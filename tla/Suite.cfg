SPECIFICATION SuiteSpec
CONSTANTS
    MaxData = 5
    DigestLen = 2
    Frames <- MCFrames
    Answers <- MCAnswers
    Device = "device"
    DnsServer = "dns"
INVARIANTS  LastWordCounts  PacketIsWhole 
CHECK_DEADLOCK FALSE
