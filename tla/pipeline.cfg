SPECIFICATION Spec
CONSTANTS
    Rooms = {r1, r2}
    MaxHistory = 2
    MaxDialogue = 3
    MaxLen <- QuestionAndLine
    Mixes <- JustThese
    MaxCrashes <- OneCrashEach
    MaxRedisFaults = 1
    MaxSendFaults = 1
CHECK_DEADLOCK FALSE
INVARIANTS
    NothingPassedOver
    RepeatsBounded
    RoomsIsolated
SYMMETRY RoomSymmetry
