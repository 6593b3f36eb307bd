CONSTANTS
    NoRun = NoRun
    NoInv = NoInv
    Runs = {r1, r2}
    Conversations = {c1}
    Invs = {i1, i2}
    Tools = {exec, write}
    Risky = {exec, write}
    Queries = {exec}
SPECIFICATION OneCancelSpec
INVARIANTS TypeOK SendNeverBlocks NothingLeftOpen CancelReachesQuery OnlyAllowedToolsRun
SYMMETRY Interchangeable
CHECK_DEADLOCK FALSE
