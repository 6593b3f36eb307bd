CONSTANTS
    s1 = s1
    NoProc = NoProc
    NoCaller = NoCaller
    NoTimer = NoTimer
    NoFP = NoFP
    Services = {s1}
    Fingerprints = {f1}
    Procs = {p1, q1}
    Legacy = {}
    Owner <- OneService
    Clients = {c1}
    Timers = {t1, t2}
    MaxDelay = 1
    StartMayFail = FALSE
SPECIFICATION BoundedFairSpec
PROPERTIES EnsureReturns CrashIsAnswered ShutdownTerminates
