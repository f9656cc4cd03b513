CONSTANTS
    PortRangeLow = 30000
    PortRangeHigh = 30004
    ControlPlane = {cp1, cp2}
    Ingress = {in1}
    PrivateHypervisor = {priv}
    PublicHypervisor = {pub}
    NoHypervisor = NoHypervisor
    NoComponent = NoComponent
    Manager = {m1}
    Replicas = 2
    VPNEnabled = TRUE
    MaxAttempts = 2
    MaxFaults = 1
    MaxDeletions = 1
    Settled = {cp1}
SPECIFICATION MixedSpec
INVARIANTS PodsHavePorts NothingRunsWhenGone GoneLeftEtcd
PROPERTY OwnPodsReserved
CHECK_DEADLOCK FALSE
