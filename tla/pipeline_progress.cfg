SPECIFICATION FairSpec
CONSTANTS
    Rooms = {r1}
    MaxHistory = 2
    MaxDialogue = 1
    MaxLen <- MostOfEach
    Mixes <- RequestsOrLongChat
    MaxCrashes <- MLinCrashes
    MaxRedisFaults = 1
    MaxSendFaults = 0
CHECK_DEADLOCK FALSE
INVARIANTS
    HistoryExactWithoutAI
    HistoryInOrder
PROPERTIES
    ImplementsServices
    EventuallyDrained
