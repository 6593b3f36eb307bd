CONSTANTS
    NoLease = NoLease
    Tabs = {a, b}
    Kinds <- MCKinds
    SESSION_POLICY <- MCPolicy
    Database <- MCDatabase
    MaxOpens = 3
    MaxTroubles = 2
SPECIFICATION SessionSpec
INVARIANT EveryBorrowerRegistered
CHECK_DEADLOCK FALSE
