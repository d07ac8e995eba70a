SPECIFICATION Spec
CONSTANTS
    sec_port = 3
    ext_ofip = TRUE
    egress_vlan = 9
    templates <- MCTemplates
    Devices <- MCDevices
    MacOf <- MCMacOf
    Vlans = {5, 6}
    AssignedVlans = {0, 8}
    Configs <- MCConfigs
INVARIANTS
    
    Mirrored
    
    RepliesReachTheDevice
CHECK_DEADLOCK FALSE
