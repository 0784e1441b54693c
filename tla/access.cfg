SPECIFICATION Spec
CONSTANTS
    r1 = r1
    r2 = r2
    ann = ann
    bob = bob
    p1 = p1
    p2 = p2
    p3 = p3
    p4 = p4
    p5 = p5
    p6 = p6
    Rooms = {r1, r2}
    Identities = {ann, bob}
    Requests = {p1, p2, p3, p4, p5, p6}
    RoomOf <- RoomsOf
    Kind <- KindsOf
    Caller <- Callers
    SignedIn = {p1, p2, p6}
    Together <- OneTokenOrTwo
    MaxFaults = 1
    MaxRestarts = 1
CHECK_DEADLOCK FALSE
INVARIANTS
    NoFailureFromRaces
    HistoryTogether
    CreatorAgreed
    TokenMeansArchived
    AgentInFirstMeeting
