SPECIFICATION Spec
CONSTANTS
    MAX_MODERN_CONTEXTS = 2
    MAX_POINTER_SLOTS = 1
    SlotNames = {s1, s2}
    Eras = {"modern", "legacy"}
    Inherited = TRUE
    Late <- AllTools
    Closes = TRUE
    MaxSessions = 3
    MaxCalls = 4
    None = None
INVARIANTS
    ExecutedAtMostOnce
PROPERTIES
    StatusComesFirst
    
CHECK_DEADLOCK FALSE
