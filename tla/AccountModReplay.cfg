\* Mutations, some dropped, one restart and its replay: the replayed data is the logged data.
CONSTANTS
    Datas = {d1, d2}
    MaxMutations = 4
    MaxRestarts = 1
    AllowDrops = TRUE
    PersistFails = TRUE
    None = None
SPECIFICATION Spec
CHECK_DEADLOCK FALSE
SYMMETRY PayloadSymmetry
INVARIANTS TypeOK ReplayAppliesLoggedData
