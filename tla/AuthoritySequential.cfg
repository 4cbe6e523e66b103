\* Start-up sets the authority while later calls are sequential: it is set once and later calls panic.
CONSTANTS
    Setters = {s1, s2, s3}
    Readers = {r1, r2}
    Concurrent = FALSE
    None = None
SPECIFICATION Spec
CHECK_DEADLOCK FALSE
PROPERTY SetOnce
