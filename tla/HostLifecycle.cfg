\* Two devices, one of them external, held or not, under every fault and fairness.
SPECIFICATION FairSpec
CONSTANTS
    a = a
    b = b
    Host <- Two
    NumTests = 3
    NumPorts = 2
    MonitorScan = TRUE
    External <- One
    NoTest = {TRUE, FALSE}
    Faults = {"start", "error", "finalize", "base", "scan"}
  
PROPERTIES OnlyCaptureErrorsMismatch ImplementsPhases HostsEnd
