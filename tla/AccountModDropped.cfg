\* One restart after a mutation that never landed: the replay sequence check.
CONSTANTS
    Datas = {d1, d2}
    MaxMutations = 3
    MaxRestarts = 1
    AllowDrops = TRUE
    PersistFails = TRUE
    None = None
SPECIFICATION Spec
CHECK_DEADLOCK FALSE
INVARIANT ReplayNeverPanics
