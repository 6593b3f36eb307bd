CONSTANTS
    NoLease = NoLease
    Tabs = {a, b}
    Kinds <- MCKinds
    SESSION_POLICY <- MCPolicy
    Database <- MCDatabase
    MaxOpens = 3
    MaxTroubles = 2
    NoRun = NoRun
    NoInv = NoInv
    Runs = {r1}
    Conversations = {c1}
    Invs = {i1, i2}
    Tools = {exec}
    Risky = {exec}
    Queries = {exec}
SPECIFICATION RegistriesSpec
INVARIANTS SessionTypeOK UnusedIffTimed TableMatchesService BorrowersAreOpen OwnerIsRegistered
PROPERTIES DesertedIsClosed CancelEndsRun
CHECK_DEADLOCK FALSE
