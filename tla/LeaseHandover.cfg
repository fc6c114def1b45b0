SPECIFICATION LeaseSpec
CONSTANTS
    o1 = o1
    o2 = o2
    o3 = o3
    Owners = {o1, o2, o3}
    TTL = 2
    MaxTime = 4
    MaxFence = 4
    None = None
SYMMETRY OwnerSymmetry
CHECK_DEADLOCK FALSE
INVARIANTS
    OneUnexpiredOwner
PROPERTIES
    TakeoverIsFenced
