SPECIFICATION Spec
CONSTANTS
    Rooms = {r1}
    MaxHistory = 2
    MaxDialogue = 2
    MaxLen <- ChatAndQuestion
    Mixes <- JustChatAndQuestion
    MaxCrashes <- NoCrashes
    MaxRedisFaults = 0
    MaxSendFaults = 0
CHECK_DEADLOCK FALSE
INVARIANT ChatKept
