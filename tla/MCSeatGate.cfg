SPECIFICATION Spec
CONSTANTS
    Holders = {h1, h2}
    Setters = {c1, c2}
    DISABLED_TERMINAL = 7
    NoPermit = NoPermit
INVARIANTS
    NoPermitOutlivesDisable
PROPERTIES
    ImplementsContract
