CONSTANTS
    Node = {n1, n2}
    Joining = {n1}
    Token <- TwinTokens
    Manager = {m1}
    VPNEnabled = TRUE
    Addresses = 2
    MaxJoins = 2
    MaxEdits = 1
    MaxFaults = 1
SPECIFICATION FairSpec
INVARIANT KubeletHasAnswer
PROPERTIES  TokensFollow RequestsIssued JoinReturns
CHECK_DEADLOCK FALSE
