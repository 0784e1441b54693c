SPECIFICATION TrackFairSpec
CONSTANTS
    ann = ann
    bob = bob
    h1 = h1
    h2 = h2
    NoId = NoId
    Participants = {ann, bob}
    ChatIds = {m1}
    Callers = {h1, h2}
    Speakers = {ann}
    MaxJoins = 2
    MaxSpoken = 1
    MaxPackets = 2
    MaxFaults = 1
    MaxTracks = 2
    MaxBusy = 2
CHECK_DEADLOCK FALSE
INVARIANTS
    MapIsLiveSessions
    ChatOnce
    ControlReachesAll
PROPERTIES
    ControlStaysInScope
    EventuallyHeard
