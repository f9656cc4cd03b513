CONSTANTS
    ControlPlane = {cp1, cp2, cp3}
    Ingress = {in1, in2}
    Manager = {m1}
    NoKey = NoKey
    MaxReplicas = 2
    MaxEdits = 1
    MaxFaults = 1
SPECIFICATION FairSpec
INVARIANTS OneIngress UnlabelledHasKeys
PROPERTIES  Converges EndpointsFollow ClusterGoes
CHECK_DEADLOCK FALSE
