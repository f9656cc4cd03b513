CONSTANTS
    Manager = {m1, m2}
    Legacy = FALSE
    Refusable <- RefusableObjects
    ServiceCIDR <- TwoNetworks
    MaxDeletions = 1
    MaxFaults = 1
SPECIFICATION FairSpec
INVARIANTS NeedsFirst SuccessIsComplete
PROPERTY AddonsInstalled
