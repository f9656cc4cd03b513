CONSTANTS
    Ingress = {in1, in2}
    Config = {1, 2}
    Port = {1, 2}
    Faults = {"crash", "call", "conflict", "job", "reboot"}
    MaxFaults = 1
    MaxChanges = 2
    MaxDeletions = 1
SPECIFICATION FairSpec
INVARIANT UpToDate
PROPERTIES IngressServes VPNListens
