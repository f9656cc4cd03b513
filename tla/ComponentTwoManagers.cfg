CONSTANTS
    PortRangeLow = 30000
    PortRangeHigh = 30006
    ControlPlane = {cp1, cp2}
    Ingress = {}
    PrivateHypervisor = {priv}
    PublicHypervisor = {}
    NoHypervisor = NoHypervisor
    NoComponent = NoComponent
    Manager = {m1, m2}
    Replicas = 1
    VPNEnabled = FALSE
    MaxAttempts = 2
    MaxFaults = 1
    MaxDeletions = 1
    Settled = {cp1}
SPECIFICATION SettledSpec
INVARIANTS HypervisorsSound PortsRecorded
CHECK_DEADLOCK FALSE
SYMMETRY Managers
