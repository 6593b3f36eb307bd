CONSTANTS
    ftp = ftp
    NoSink = NoSink
    Sources = {ftp}
    Kinds = {"state", "progress"}
    Sinks = {w1, w2}
    Streams = {}
    Flushers = {f1}
    Bound <- OneSource
    InQueue = 1
    OutQueue = 1
    StreamQueue = 1
    MaxEvents = 2
SPECIFICATION FairSpec
PROPERTIES StatesArrive InboxDrains
CHECK_DEADLOCK FALSE
