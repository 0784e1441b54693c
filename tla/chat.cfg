SPECIFICATION FairSpec
CONSTANTS
    r1 = r1
    r2 = r2
    c1 = c1
    c2 = c2
    Clients = {c1, c2}
    Rooms = {r1}
    RoomOf <- SameRoom
    MaxMessages = 2
    MaxOpenings = 2
    MaxDrops = 1
    MaxFaults = 1
    MaxRestarts = 1
CHECK_DEADLOCK FALSE
INVARIANTS
    NothingUnsavedGetsOut
    NoGapWhileJoined
    SavedReachesServices
    NoReplyPassedOver
PROPERTY ListenersServed
