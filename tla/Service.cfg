CONSTANTS
    ftp = ftp
    NoSink = NoSink
    Sources = {ftp}
    Kinds = {"state", "data"}
    Sinks = {w1}
    Streams = {t1, t2}
    Flushers = {}
    Bound <- OneSource
    InQueue = 1
    OutQueue = 1
    StreamQueue = 1
    MaxEvents = 3
    Statements = {s1, s2}
    RequestIds = {q1}
    Handlers = {h1}
    Conns = {k1, k2}
    MaxOpenResultSets = 1
    NoStmt = NoStmt
    NoConn = NoConn
    Private = Private
    SequenceCount = 2
    WorkerCount = 2
    workerID = 1
    MaxClock = 3
    MaxIds = 5
SPECIFICATION ServiceSpec
INVARIANTS TypeOK SqlTypeOK StatementsCancellable HoldersAreKept IdsIncrease
PROPERTIES StatesWithoutGap StreamWithoutGap
SYMMETRY Interchangeable
CHECK_DEADLOCK FALSE
