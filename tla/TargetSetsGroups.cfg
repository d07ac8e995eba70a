SPECIFICATION Spec
CONSTANTS
    Device <- ThreeDevices
    MaxGateways = 2
    MaxHosts = 2
    DeviceSpecs <- OneGroup
    IpChange = {}
    StaticIp = {2}
    FailMode = FALSE
    ResultLinger = FALSE
    RunLimit = 0
    Faults = {"gateway", "construct"}
INVARIANTS SetsAccounted GroupsSequestered TrafficFollowsHost QueueSound
    SnapshotsHaveHosts
PROPERTIES WaitsForGroup ImplementsPool
