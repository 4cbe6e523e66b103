\* Every caller is answered or the loop returned on cancellation, and a batch taken before cancellation is answered:
\* one account (the delegation states or an upgradeable program), two callers, fetch faults and retries, no symmetry (liveness).
CONSTANTS
    Keys = {k1}
    Clients = {c1, c2}
    MaxSlot = 2
    ValidatorIdentity = ValidatorIdentity
    OtherValidator = OtherValidator
    DefaultPubkey = DefaultPubkey
    None = None
    InitialStates <- StatesLiveness
    InitialBank <- BankRestart
    Blacklist = {}
    AllowedProgramIds = None
    AllowFeePayer = TRUE
    AllowUndelegated = TRUE
    AllowDelegated = TRUE
    AllowProgram = TRUE
    AllowRefresh = TRUE
    FetchRetries = 2
    BatchLimit = 100
    Faults = {"fetch", "dump"}
    FetchLag = TRUE
    Cancellable = TRUE
SPECIFICATION Spec

PROPERTIES EveryRequestAnswered ServedDespiteCancel
CHECK_DEADLOCK FALSE
