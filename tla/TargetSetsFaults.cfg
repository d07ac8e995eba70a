SPECIFICATION FairSpec
CONSTANTS
    Device <- TwoDevices
    MaxGateways = 2
    MaxHosts = 1
    DeviceSpecs <- NoSpecs
    IpChange = {1}
    StaticIp = {2}
    FailMode = FALSE
    ResultLinger = TRUE
    RunLimit = 1
    Faults = {"gateway", "stop_dhcp", "construct", "initialize", "finalize"}
INVARIANT TypeOK
PROPERTIES ImplementsPhases  QueueDrains
