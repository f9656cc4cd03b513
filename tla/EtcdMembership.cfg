CONSTANTS
    ControlPlane = {cp1, cp2, cp3}
    URL = {u1, u2}
    NoURL = NoURL
    Manager = {m1}
    Replicas = 2
    Patient = TRUE
    Faults = {"crash", "call", "server", "cleanup"}
    MaxFaults = 1
    MaxDeletions = 1
SPECIFICATION FairSpec
INVARIANTS  QuorumKept
  
CHECK_DEADLOCK FALSE
