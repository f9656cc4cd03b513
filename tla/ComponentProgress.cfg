CONSTANTS
    PortRangeLow = 30000
    PortRangeHigh = 30006
    ControlPlane = {cp1, cp2}
    Ingress = {in1}
    PrivateHypervisor = {priv}
    PublicHypervisor = {pub}
    NoHypervisor = NoHypervisor
    NoComponent = NoComponent
    Manager = {m1}
    Replicas = 1
    VPNEnabled = FALSE
    MaxAttempts = 2
    MaxFaults = 0
    MaxDeletions = 1
    Settled = {}
SPECIFICATION FairSpec
PROPERTIES DeletionCompletes PortsGranted
CHECK_DEADLOCK FALSE
