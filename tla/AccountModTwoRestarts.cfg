\* Two restarts, no dropped mutation: the second replay against the logged data.
CONSTANTS
    Datas = {d1, d2}
    MaxMutations = 3
    MaxRestarts = 2
    AllowDrops = FALSE
    PersistFails = FALSE
    None = None
SPECIFICATION Spec
CHECK_DEADLOCK FALSE
INVARIANT ReplayAppliesLoggedData
