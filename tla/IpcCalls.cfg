CONSTANTS
    NoReq = NoReq
    NoConn = NoConn
    Reqs = {r1, r2, r3}
    Conns = {k1, k2, k3}
    MaxIdle = 1
SPECIFICATION FairSpec
INVARIANTS TypeOK ConnsOwned
PROPERTIES KeepsPromise CallsReturn
CHECK_DEADLOCK FALSE
