SPECIFICATION FairSpec
CONSTANTS
    ann = ann
    bob = bob
    Users = {ann, bob}
    MaxPairs = 2
    MaxFaults = 1
    MaxReloads = 1
CHECK_DEADLOCK FALSE
INVARIANTS
    SessionConsistent
PROPERTIES
    KeepsFreshSession
    Initializes
