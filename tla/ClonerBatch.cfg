\* Two accounts sharing batches, one blacklisted, a program outside the
\* allow-list, refresh off and refused permissions (single flight across a batch).
CONSTANTS
    Keys = {k1, k2}
    Clients = {c1, c2}
    MaxSlot = 2
    ValidatorIdentity = ValidatorIdentity
    OtherValidator = OtherValidator
    DefaultPubkey = DefaultPubkey
    None = None
    InitialStates <- StatesRefusable
    InitialBank <- BankFresh
    Blacklist = {k2}
    AllowedProgramIds = {k2}
    AllowFeePayer = TRUE
    AllowUndelegated = FALSE
    AllowDelegated = FALSE
    AllowProgram = TRUE
    AllowRefresh = FALSE
    FetchRetries = 2
    BatchLimit = 100
    Faults = {}
    FetchLag = FALSE
    Cancellable = FALSE
SPECIFICATION Spec
INVARIANT RequestsSingleFlight
SYMMETRY ClientSymmetry
