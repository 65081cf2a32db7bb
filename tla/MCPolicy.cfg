SPECIFICATION Spec
CONSTANTS
    Writers = {w1, w2}
    Drafts = {"draft"}
    Edits = {"edit1"}
    Inodes = {i1, i2, i3, i4, i5}
    None = None
    Existing = FALSE
    Crashes = 1
SYMMETRY Interchangeable
INVARIANTS
    PreviousIsRetained
PROPERTIES
    PolicyStaysWhole
    OnlyRollbackLosesAnEdit
