CONSTANTS
    s1 = s1
    NoProc = NoProc
    NoCaller = NoCaller
    NoTimer = NoTimer
    NoFP = NoFP
    Services = {s1}
    Fingerprints = {f1, f2}
    Procs = {p1, q1}
    Legacy = {q1}
    Owner <- OneService
    Clients = {c1}
    Timers = {t1}
    MaxDelay = 1
    StartMayFail = TRUE
SPECIFICATION Spec
INVARIANTS TypeOK SingleServer ShutdownLeavesNoOrphan
PROPERTY NoSpawnAfterShutdown
SYMMETRY Interchangeable
