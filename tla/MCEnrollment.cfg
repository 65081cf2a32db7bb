SPECIFICATION Spec
CONSTANTS
    Admins = {a, b}
    N = 2
    Units = {1, 2}
    Records = {3}
    MaxPlugs = 1
    MaxCommands = 3
SYMMETRY AdminSymmetry
INVARIANTS
    InspectionIsSnapshot
    
    InstalledIsOneBundle
    ArmIsFresh
CHECK_DEADLOCK FALSE
