SPECIFICATION Spec
CONSTANTS
    MaxXid = 2
    Looks = {a, b}
    Workspaces = {w1}
    MAX_EVENTS = 2
    None = None
    Filters <- MCFilters
    Limits = {1, 2}
    Wishes = {"activate", "close", "switch"}
    MaxChanges = 3
SYMMETRY Symmetry
INVARIANTS
    HistoryIsComplete
PROPERTIES
    RequestIsFresh
