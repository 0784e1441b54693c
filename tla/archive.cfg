SPECIFICATION ArchiveSpec
CONSTANTS
    ann = ann
    bob = bob
    r1 = r1
    r2 = r2
    Users = {ann, bob}
    MaxPairs = 2
    MaxFaults = 0
    MaxReloads = 0
    Rooms = {r1, r2}
    MAX_GUEST_HISTORY_ITEMS = 1
CHECK_DEADLOCK FALSE
INVARIANTS
    ShownToItsVisitor
    VisitsAreListed
    LoadingMeansAsked
SYMMETRY NameSymmetry
