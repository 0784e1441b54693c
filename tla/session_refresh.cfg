SPECIFICATION Spec
CONSTANTS
    ann = ann
    bob = bob
    Users = {ann}
    MaxPairs = 2
    MaxFaults = 0
    MaxReloads = 1
CHECK_DEADLOCK FALSE
INVARIANT RefreshRotates
