CONSTANTS
    ControlPlane = {cp1}
    Ingress = {in1}
    PrivateHypervisor = {p1, p2}
    PublicHypervisor = {q1}
    NoHypervisor = NoHypervisor
    Manager = {m1, m2}
    MaxEdits = 3
    MaxFaults = 1
SPECIFICATION FairSpec
PROPERTIES PlacementKept ComponentsScheduled
CHECK_DEADLOCK FALSE
