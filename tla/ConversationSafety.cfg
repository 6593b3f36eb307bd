CONSTANTS
    Base = 2
    MaxTime = 7
    MaxMessages = 3
    NoConv = NoConv
    NoSlot = NoSlot
    c1 = c1
    c2 = c2
    Conversations <- MCConversations
    MaxRuns = 2
    Loads = {1, 2}
    Budgets <- MCBudgets
SPECIFICATION BothSpec
INVARIANTS TypeOK StoreTypeOK SecondsInOrder NeverStuck OneRunShown ViewMatchesStore StoppedRunEnds
PROPERTY CutRespectsSeconds
CHECK_DEADLOCK FALSE
