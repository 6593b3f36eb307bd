CONSTANTS
    Base = 2
    MaxTime = 7
    MaxMessages = 3
SPECIFICATION StoreSpec
PROPERTY RegenerateKeepsPrompt
CHECK_DEADLOCK FALSE
