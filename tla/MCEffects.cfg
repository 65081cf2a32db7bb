SPECIFICATION Spec
CONSTANTS
    Windows = {target, other}
    Target = target
    Fleeting = {target}
    Text <- MCText
    Chord <- MCChord
    Keyboards <- MCKeyboards
    MaxTransferEvents = 2
    MaxSelectionRequests = 1
    Refusals <- MCRefusals
INVARIANTS
    NothingStaysDown
    ClipboardIsReturned
    CaptureIsTracked
PROPERTIES
    InputReachesTarget
    RequestEnds
CHECK_DEADLOCK FALSE
