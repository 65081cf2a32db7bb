SPECIFICATION Spec
CONSTANTS
    Facts = {"active", "unlocked"}
    N = 1
    MaxEvents = 1
    MaxChanges = 2
INVARIANTS
    ReadyIsFresh
    NoChangeIsMissed
PROPERTIES
    EvidenceStops
CHECK_DEADLOCK FALSE
