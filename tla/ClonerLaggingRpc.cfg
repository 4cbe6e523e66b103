\* As ClonerCoherence, with an RPC node that may answer from a slot older than the newest.
CONSTANTS
    Keys = {k1}
    Clients = {c1, c2}
    MaxSlot = 3
    ValidatorIdentity = ValidatorIdentity
    OtherValidator = OtherValidator
    DefaultPubkey = DefaultPubkey
    None = None
    InitialStates <- StatesDelegation
    InitialBank <- BankRestart
    Blacklist = {}
    AllowedProgramIds = None
    AllowFeePayer = TRUE
    AllowUndelegated = TRUE
    AllowDelegated = TRUE
    AllowProgram = TRUE
    AllowRefresh = TRUE
    FetchRetries = 2
    BatchLimit = 100
    Faults = {}
    FetchLag = TRUE
    Cancellable = FALSE
SPECIFICATION Spec
SYMMETRY ClientSymmetry
PROPERTY NoLostLocalWrites
