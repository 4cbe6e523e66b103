\* Every kind of account, each local copy the hydrate filter drops, a refused
\* fee payer and every collaborator fault, with a non-lagging RPC.
CONSTANTS
    Keys = {k1}
    Clients = {c1, c2}
    MaxSlot = 3
    ValidatorIdentity = ValidatorIdentity
    OtherValidator = OtherValidator
    DefaultPubkey = DefaultPubkey
    None = None
    InitialStates <- StatesAllKinds
    InitialBank <- BankFiltered
    Blacklist = {}
    AllowedProgramIds = None
    AllowFeePayer = FALSE
    AllowUndelegated = TRUE
    AllowDelegated = TRUE
    AllowProgram = TRUE
    AllowRefresh = TRUE
    FetchRetries = 2
    BatchLimit = 100
    Faults = {"monitor", "fetch", "dump", "programData"}
    FetchLag = FALSE
    Cancellable = FALSE
SPECIFICATION Spec
INVARIANT RequestsSingleFlight
PROPERTIES  ImplementsCloneCache
