SPECIFICATION FairSpec
CONSTANTS
    MAX_CONNS = 3
    Worlds <- TheWorlds
    max_sessions = 2
    max_requests = 1
    private_devices = TRUE
    DISABLED_TERMINAL = 5
    NoPermit = NoPermit
INVARIANTS
    AtMostOneLateEffect
    SlotIsHeldOnce
PROPERTIES
    NoRequestBeginsRevoked
    SignalEndsProvider
    ControlIsServed
    LossWaitsOnlyForPersistent
