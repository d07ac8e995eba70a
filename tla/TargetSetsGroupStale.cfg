SPECIFICATION Spec
CONSTANTS
    Device <- ThreeDevices
    MaxGateways = 2
    MaxHosts = 3
    DeviceSpecs <- ThreeGroup
    IpChange = {}
    StaticIp = {}
    FailMode = FALSE
    ResultLinger = FALSE
    RunLimit = 0
    Faults = {}
PROPERTY WholeGroupPresent
