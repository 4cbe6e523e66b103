\* Two overlapping set_validator_authority calls both pass the read-lock check.
CONSTANTS
    Setters = {s1, s2, s3}
    Readers = {r1, r2}
    Concurrent = TRUE
    None = None
SPECIFICATION Spec
CHECK_DEADLOCK FALSE
PROPERTY SetOnce
