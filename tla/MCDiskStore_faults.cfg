SPECIFICATION Spec
CONSTANTS
    k1 = k1
    k2 = k2
    Key = {k1, k2}
    Faults = {"WriteError", "SyncError", "PowerLoss"}
    MaxPuts = 4
    MaxRestarts = 3
SYMMETRY KeySymmetry
CHECK_DEADLOCK FALSE
INVARIANTS
    StoreTypeOK
    AckedDurable
    NeverOlder
