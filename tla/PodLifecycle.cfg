SPECIFICATION FairSpec
CONSTANTS
    NoVersion = NoVersion
    Container = {c1, c2}
    Version = {v1, v2}
    Manager = {m1}
    MaxSandboxes = 6
    MaxChanges = 1
    MaxExits = 2
    MaxFaults = 1
INVARIANT EnsuredRuns
PROPERTIES PodHeals RunningPodKept OldVersionsGo JobReturns
CHECK_DEADLOCK FALSE
