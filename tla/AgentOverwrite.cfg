CONSTANTS
    NoRun = NoRun
    NoInv = NoInv
    Runs = {r1}
    Conversations = {c1}
    Invs = {i1, i2}
    Tools = {exec}
    Risky = {exec}
    Queries = {exec}
SPECIFICATION Spec
PROPERTY CancelledIsFinal
CHECK_DEADLOCK FALSE
