SPECIFICATION Spec
CONSTANTS
    s1 = s1
    s2 = s2
    Sessions = {s1, s2}
    Apps <- MCApps
    Roots = 2
    Policies <- MCPolicies
    Disks <- MCDisks
    Volatile <- MCVolatile
    PageLimit = 1
    MaxInstalled = 2
    MaxChildren = 1
    Xids <- MCXids
    LastToken = 2
    MaxChanges = 1
    MaxRequests = 2
    None = None
SYMMETRY Perms
INVARIANTS
    DiscoveryFollowsDisk
    PagesFormOneCatalog

    
CHECK_DEADLOCK FALSE
