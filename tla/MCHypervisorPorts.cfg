CONSTANTS
    PortRangeLow = 30000
    PortRangeHigh = 30003
    Owner = {o1, o2, o3, o4, o5}
SPECIFICATION Spec
INVARIANTS PortsExclusive RefusedOnlyWhenFull StatusSound
PROPERTY ImplementsLeases
