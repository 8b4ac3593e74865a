SPECIFICATION MCSpec
CONSTANTS
    k1 = k1
    k2 = k2
    k3 = k3
    k4 = k4
    None = None
    Keys <- MCKeys
    RowsPerKey <- MCRows
    Capacities <- MCCapacities
    Disk = TRUE
    DurableMisses = TRUE
    Stamped <- MCStamped
    Batches <- MCBatches
    Threads = {"trainer", "worker"}
    Capacity = 4
    Policies <- MCPolicies
    Offers <- MCOffers
    MaxHits = 2
    MaxPins = 2
    Stores = {s1, s2}
    FileCapacity = 3
    DurableOffers <- MCDiskOffers
    Identities = {x1, x2}
SYMMETRY MCSymmetry
INVARIANTS
    PolicyAgreesWithSlab
    StaleCountsErrBoundedly
    PinsMatchReservations
PROPERTIES
    TierSpec
    ReservedStaysWarm
