SPECIFICATION FairSpec
CONSTANTS
    r1 = r1
    r2 = r2
    u1 = u1
    u2 = u2
    u3 = u3
    Rooms = {r1, r2}
    Uploads = {u1, u2, u3}
    RoomOf <- RoomsOf
    SafeName <- Names
    MaxFaults = 1
    MaxRestarts = 1
CHECK_DEADLOCK FALSE
INVARIANTS
    ListedCanBeFetched
    WholeOrNothing
PROPERTY StoredGetsAnnounced
