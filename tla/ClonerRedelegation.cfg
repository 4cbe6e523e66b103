\* A delegated copy from before a restart, with the account undelegated and delegated
\* to us again while the validator was down: the cached clone must describe the bank.
CONSTANTS
    Keys = {k1}
    Clients = {c1, c2}
    MaxSlot = 3
    ValidatorIdentity = ValidatorIdentity
    OtherValidator = OtherValidator
    DefaultPubkey = DefaultPubkey
    None = None
    InitialStates <- StatesDelegation
    InitialBank <- BankRestart
    Blacklist = {}
    AllowedProgramIds = None
    AllowFeePayer = TRUE
    AllowUndelegated = TRUE
    AllowDelegated = TRUE
    AllowProgram = TRUE
    AllowRefresh = TRUE
    FetchRetries = 2
    BatchLimit = 100
    Faults = {}
    FetchLag = FALSE
    Cancellable = FALSE
SPECIFICATION Spec
SYMMETRY ClientSymmetry
INVARIANT CachedDelegationInBank
