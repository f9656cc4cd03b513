CONSTANTS
    PortRangeLow = 30000
    PortRangeHigh = 30006
    ControlPlane = {cp1, cp2}
    Ingress = {in1}
    PrivateHypervisor = {priv}
    PublicHypervisor = {pub}
    NoHypervisor = NoHypervisor
    NoComponent = NoComponent
    Manager = {m1}
    Replicas = 1
    VPNEnabled = FALSE
    MaxAttempts = 2
    MaxFaults = 1
    MaxDeletions = 1
    Settled = {}
SPECIFICATION Spec
INVARIANT GonePortsFreed
CHECK_DEADLOCK FALSE
