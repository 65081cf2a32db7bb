SPECIFICATION Spec
CONSTANTS
    p1 = p1
    p2 = p2
    p3 = p3
    s1 = s1
    s2 = s2
    None = None
    Providers = {p1, p2, p3}
    Sockets = {s1, s2}
    Sock <- MCSock
    Overlap = FALSE
    Crashes = 2
INVARIANTS
    ServingIsReachable
    CrashNeverBlocksRestart

    
