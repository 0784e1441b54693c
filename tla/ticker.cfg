SPECIFICATION PanelSpec
CONSTANTS
    r1 = r1
    agent = agent
    ann = ann
    NotANumber = NotANumber
    Absent = Absent
    s1 = s1
    s2 = s2
    Rooms = {r1}
    Room = r1
    Agents = {agent}
    People = {ann}
    Intervals <- Inputs
    Slots = {s1, s2}
    MaxStarts = 2
    MaxEmitted = 2
    MaxFaults = 1
    MaxRestarts = 1
CHECK_DEADLOCK FALSE
INVARIANTS
    TypeOK
    NoLeakedTimer
    LastRequestIsLatest
    ButtonIsRight
PROPERTY NoSummaryOfAnEmptyRoom
SYMMETRY SlotSymmetry
