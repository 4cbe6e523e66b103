\* Cache coherence, single flight and local writes to delegated copies after a
\* restart: one account, two callers, an RPC that serves the newest confirmed slot.
CONSTANTS
    Keys = {k1}
    Clients = {c1, c2}
    MaxSlot = 3
    ValidatorIdentity = ValidatorIdentity
    OtherValidator = OtherValidator
    DefaultPubkey = DefaultPubkey
    None = None
    InitialStates <- StatesDelegation
    InitialBank <- BankRestart
    Blacklist = {}
    AllowedProgramIds = None
    AllowFeePayer = TRUE
    AllowUndelegated = TRUE
    AllowDelegated = TRUE
    AllowProgram = TRUE
    AllowRefresh = TRUE
    FetchRetries = 2
    BatchLimit = 100
    Faults = {}
    FetchLag = FALSE
    Cancellable = FALSE
SPECIFICATION Spec
SYMMETRY ClientSymmetry
INVARIANTS TypeOK StalenessDetectable RequestsSingleFlight
PROPERTIES NoLostLocalWrites AnswersReflectKnownUpdates
