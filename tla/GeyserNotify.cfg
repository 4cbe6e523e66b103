\* Three validator threads notifying an account, a transaction and a slot, twice each
\* at most, with stretto refusing or evicting entries, and an unload.
CONSTANTS
    Threads = {t1, t2, t3}
    Pubkeys = {p1}
    Signatures = {s1, s2}
    SlotNumbers = {n1}
    MaxCalls = 2
    None = None
SPECIFICATION Spec
SYMMETRY ThreadSymmetry
PROPERTY SentAfterCacheApplied
CHECK_DEADLOCK FALSE
