---------------------------- MODULE ClonerWorker ----------------------------
(***************************************************************************)
(* RemoteAccountClonerWorker (magicblock-account-cloner/src/               *)
(* remote_account_cloner_worker.rs) together with its callers, which       *)
(* register a listener and push the key on the request channel (spec.md   *)
(* 4.5; the client is not under src/), and the bank the dumper writes to.  *)
(*                                                                         *)
(* Every key has at most one clone task, whose program counter pc[k] is    *)
(* the await point it is suspended at.  A step runs the code from one      *)
(* await to the next: tokio polls the futures of a join_all on one task,   *)
(* so the synchronous code between two awaits is atomic, and the dumper,  *)
(* the cache and the listener map are all called synchronously.           *)
(***************************************************************************)
EXTENDS RemoteChain, FiniteSets

CONSTANTS
    Clients,             \* callers of the clone client
    Blacklist,           \* blacklisted_accounts
    AllowedProgramIds,   \* allowed_program_ids: None or a set of keys
    AllowFeePayer,       \* permissions.allow_cloning_feepayer_accounts
    AllowUndelegated,    \* permissions.allow_cloning_undelegated_accounts
    AllowDelegated,      \* permissions.allow_cloning_delegated_accounts
    AllowProgram,        \* permissions.allow_cloning_program_accounts
    AllowRefresh,        \* permissions.allow_cloning_refresh
    FetchRetries,        \* fetch_retries (5 in the code)
    BatchLimit,          \* recv_many limit (100 in the code)
    InitialBank,         \* local copies an account may have at start-up
    Faults,              \* collaborator calls that may fail in a run
    FetchLag,            \* the RPC may answer from a slot below the newest
    Cancellable          \* the cancellation token may be cancelled in a run

ASSUME /\ Blacklist \subseteq Keys
       /\ AllowedProgramIds = None \/ AllowedProgramIds \subseteq Keys
       /\ FetchRetries \in Nat \ {0} /\ BatchLimit \in Nat \ {0}
       /\ Faults \subseteq {"monitor", "fetch", "dump", "programData", "idl"}

VARIABLES
    cache,         \* last_clone_output
    listeners,     \* clone_listeners: clients waiting for k
    channel,       \* clone_request channel
    batch,         \* keys of the join_all in progress
    pc,            \* await point of the clone task of k
    task,          \* locals of that task: stage, fetch_count, min_context_slot, snapshot
    phase,         \* "startup", "hydrating", "running"
    hydrateQueue,  \* <<key, local owner is the record owner>> left to hydrate
    bank,          \* the local copy of k the dumper wrote, and local writes to it
    waiting,       \* key a client awaits, or None
    got,           \* last outcome a client received, or None
    cancelled,     \* cancellation_token.is_cancelled()
    stopped        \* start_clone_request_processing has returned

workerVars == <<cache, listeners, channel, batch, pc, task, phase, hydrateQueue,
                cancelled, stopped>>
vars == <<chainVars, workerVars, bank, waiting, got>>

-----------------------------------------------------------------------------
(* Data *)

Forever == MaxSlot + 1        \* u64::MAX as an Unclonable's at_slot

Cloned(snap) == [type |-> "Cloned", snap |-> snap]
Unclonable(reason, until) == [type |-> "Unclonable", reason |-> reason, until |-> until]
Failed(err) == [type |-> "Err", err |-> err]
Refresh == [type |-> "Refresh"]

Snapshots == [at : Slots, st : ChainState]
Reasons == {"NoCloningAllowed", "IsBlacklisted", "IsNotAnAllowedProgram",
            "AlreadyLocallyOverriden", "DoesNotAllowFeePayerAccount",
            "DoesNotAllowUndelegatedAccount", "DoesNotAllowDelegatedAccount",
            "DoesNotAllowProgramAccount"}
Errors == {"AccountUpdatesError", "AccountFetcherError", "AccountDumperError",
           "FailedToFetchSatisfactorySlot", "ProgramDataDoesNotExist"}
Outputs == {Cloned(s) : s \in Snapshots}
           \cup [type : {"Unclonable"}, reason : Reasons, until : Slots \cup {Forever}]
Results == Outputs \cup {Failed(e) : e \in Errors}

BankKinds == {"None", "FeePayer", "Undelegated", "Program", "ProgramData", "Delegated"}
BankAccounts == [kind : BankKinds, dslot : Slots, modified : BOOLEAN, huge : BOOLEAN]
NoAccount == [kind |-> "None", dslot |-> 0, modified |-> FALSE, huge |-> FALSE]

(* The account a dump writes: the chain state, with the owner overridden   *)
(* to the delegation record's owner for a delegated account.               *)
DumpedCopy(st) ==
    [kind |-> st.kind, dslot |-> IF st.kind = "Delegated" THEN st.dslot ELSE 0,
     modified |-> FALSE, huge |-> FALSE]

(* ValidatorStage; account_owner is reduced to whether it equals the       *)
(* owner in the delegation record, which is the case when the local copy   *)
(* was dumped as delegated (dump_delegated_account overrides the owner).   *)
Running == [name |-> "Running", ownerIsRecordOwner |-> FALSE]
Hydrating(b) == [name |-> "Hydrating", ownerIsRecordOwner |-> b]
IdleTask == [stage |-> Running, count |-> 0, minCtx |-> None, snap |-> None]

ASSUME InitialBank \subseteq BankAccounts

-----------------------------------------------------------------------------
(* Helpers of the worker *)

ShouldCloneDelegatedAccount(stage, record) ==
    IF stage.name = "Running" THEN TRUE
    ELSE IF record.auth # DefaultPubkey THEN record.auth # ValidatorIdentity
    ELSE ~stage.ownerIsRecordOwner

CanClone == AllowFeePayer \/ AllowUndelegated \/ AllowDelegated \/ AllowProgram

LastKnownUpdateSlot(k) == IF lastUpdate[k] = None THEN 0 ELSE lastUpdate[k]

CacheDecisionStaleReuse(k) ==
    LET u == LastKnownUpdateSlot(k) IN
    IF ~CanClone THEN Unclonable("NoCloningAllowed", Forever)
    ELSE IF cache[k] = None
         THEN IF bank[k].kind # "None"
                 THEN Unclonable("AlreadyLocallyOverriden", Forever)
                 ELSE Refresh
    ELSE IF cache[k].type = "Cloned" THEN cache[k]
    ELSE IF cache[k].until >= u THEN cache[k] ELSE Refresh

(* The fast path of do_clone_or_use_cache: a cached or immediate output,   *)
(* or Refresh when do_clone_and_update_cache must run.                     *)
CacheDecision(k) ==
    LET u == LastKnownUpdateSlot(k) IN
    IF ~CanClone THEN Unclonable("NoCloningAllowed", Forever)
    ELSE IF cache[k] = None
         THEN IF bank[k].kind # "None"
                 THEN Unclonable("AlreadyLocallyOverriden", Forever)
                 ELSE Refresh
    ELSE IF cache[k].type = "Cloned"
         THEN IF cache[k].snap.at >= u THEN cache[k] ELSE Refresh
    ELSE IF cache[k].until >= u THEN cache[k] ELSE Refresh

(* Faulty variant: any fetched slot is accepted.                           *)
SatisfactorySlotAny(k, s) == TRUE

(* The satisfactory-slot test of the fetch loop.                           *)
SatisfactorySlot(k, s) ==
    s >= IF firstSub[k] = None THEN Forever ELSE firstSub[k]

(* Faulty variant: the delegation slot is never compared.                  *)
ReusesDelegationNever(k, dslot) == FALSE

(* do_clone_delegated_account: the last output was cloned from the same    *)
(* delegation slot, so the local copy stays the source of truth.           *)
ReusesDelegation(k, dslot) ==
    /\ cache[k] # None
    /\ cache[k].type = "Cloned"
    /\ cache[k].snap.st.kind = "Delegated"
    /\ cache[k].snap.st.dslot = dslot

(* Slots the fetcher may answer from for a min_context_slot lo: any        *)
(* confirmed slot at or above lo, only the newest one without lag.         *)
FetchableSlots(lo) ==
    IF FetchLag THEN lo .. (slot - 1) ELSE {slot - 1} \cap lo .. (slot - 1)

-----------------------------------------------------------------------------
(* Steps of a clone task *)

(* Faulty variants: the listener entry is read and not removed; only      *)
(* successful clones are sent to the listeners.                           *)
FinishAsKeepEntry(k, stage, res, write) ==
    /\ cache' = IF write THEN [cache EXCEPT ![k] = res] ELSE cache
    /\ IF stage.name = "Running"
          THEN /\ got' = [c \in Clients |-> IF c \in listeners[k] THEN res ELSE got[c]]
               /\ waiting' = [c \in Clients |-> IF c \in listeners[k] THEN None ELSE waiting[c]]
               /\ UNCHANGED listeners
          ELSE UNCHANGED <<got, waiting, listeners>>
    /\ pc' = [pc EXCEPT ![k] = "idle"]
    /\ task' = [task EXCEPT ![k] = IdleTask]

FinishAsOnlyCloned(k, stage, res, write) ==
    LET told == IF res.type = "Cloned" THEN listeners[k] ELSE {} IN
    /\ cache' = IF write THEN [cache EXCEPT ![k] = res] ELSE cache
    /\ IF stage.name = "Running"
          THEN /\ got' = [c \in Clients |-> IF c \in told THEN res ELSE got[c]]
               /\ waiting' = [c \in Clients |-> IF c \in told THEN None ELSE waiting[c]]
               /\ listeners' = [listeners EXCEPT ![k] = {}]
          ELSE UNCHANGED <<got, waiting, listeners>>
    /\ pc' = [pc EXCEPT ![k] = "idle"]
    /\ task' = [task EXCEPT ![k] = IdleTask]

(* Faulty variant: do_clone_and_update_cache does not store the output.   *)
FinishAsNoStore(k, stage, res, write) ==
    /\ UNCHANGED cache
    /\ IF stage.name = "Running"
          THEN /\ got' = [c \in Clients |-> IF c \in listeners[k] THEN res ELSE got[c]]
               /\ waiting' = [c \in Clients |-> IF c \in listeners[k] THEN None ELSE waiting[c]]
               /\ listeners' = [listeners EXCEPT ![k] = {}]
          ELSE UNCHANGED <<got, waiting, listeners>>
    /\ pc' = [pc EXCEPT ![k] = "idle"]
    /\ task' = [task EXCEPT ![k] = IdleTask]

(* The task of k returns res: do_clone_and_update_cache stores an Ok      *)
(* output (write), and process_clone_request removes the listener entry    *)
(* and sends res to every listener.  A hydration task has no listeners.    *)
FinishAs(k, stage, res, write) ==
    /\ cache' = IF write THEN [cache EXCEPT ![k] = res] ELSE cache
    /\ IF stage.name = "Running"
          THEN /\ got' = [c \in Clients |-> IF c \in listeners[k] THEN res ELSE got[c]]
               /\ waiting' = [c \in Clients |-> IF c \in listeners[k] THEN None ELSE waiting[c]]
               /\ listeners' = [listeners EXCEPT ![k] = {}]
          ELSE UNCHANGED <<got, waiting, listeners>>
    /\ pc' = [pc EXCEPT ![k] = "idle"]
    /\ task' = [task EXCEPT ![k] = IdleTask]

Finish(k, res, write) == FinishAs(k, task[k].stage, res, write)

FinishNoDump(k, res, write) == Finish(k, res, write) /\ UNCHANGED bank

Suspend(k, at, t) ==
    /\ pc' = [pc EXCEPT ![k] = at]
    /\ task' = [task EXCEPT ![k] = t]
    /\ UNCHANGED <<cache, listeners, got, waiting, bank>>

(* A dumper call: the bank gets the copy and the task returns Cloned.      *)
Dump(k, snap) ==
    \/ /\ "dump" \in Faults
       /\ FinishNoDump(k, Failed("AccountDumperError"), FALSE)
    \/ /\ bank' = [bank EXCEPT ![k] = DumpedCopy(snap.st)]
       /\ Finish(k, Cloned(snap), TRUE)

(* do_clone from the blacklist test to the first fetch (its first await).  *)
DoCloneStart(k, stage) ==
    LET t(ctx) == [stage |-> stage, count |-> 1, minCtx |-> ctx, snap |-> None] IN
    IF k \in Blacklist
       THEN /\ FinishAs(k, stage, Unclonable("IsBlacklisted", Forever), TRUE)
            /\ UNCHANGED <<monitored, bank>>
    ELSE IF AllowRefresh
       THEN \/ /\ "monitor" \in Faults
               /\ FinishAs(k, stage, Failed("AccountUpdatesError"), FALSE)
               /\ UNCHANGED <<monitored, bank>>
            \/ /\ monitored' = [monitored EXCEPT ![k] = TRUE]
               /\ Suspend(k, "fetching", t(firstSub[k]))
    ELSE /\ Suspend(k, "fetching", t(None))
         /\ UNCHANGED monitored

(* do_clone_program_accounts up to its first await: the deprecated loader  *)
(* is refused, the legacy loader dumped at once, and an upgradeable        *)
(* program goes on to fetch its program data.                              *)
DoCloneProgramAccounts(k, snap) ==
    CASE snap.st.loader = "deprecated" ->
            FinishNoDump(k, Failed("ProgramDataDoesNotExist"), FALSE)
      [] snap.st.loader = "legacy" -> Dump(k, snap)
      [] OTHER -> Suspend(k, "programData", [task[k] EXCEPT !.snap = snap])

(* The match on the fetched chain state, after the fetch loop accepted it. *)
Classify(k, snap) ==
    LET st == snap.st
        refuse(reason, until) == FinishNoDump(k, Unclonable(reason, until), TRUE)
    IN
    CASE st.kind = "FeePayer" ->
            IF ~AllowFeePayer THEN refuse("DoesNotAllowFeePayerAccount", snap.at)
            ELSE Dump(k, snap)
      [] st.kind = "Undelegated" ->
            IF ~AllowUndelegated THEN refuse("DoesNotAllowUndelegatedAccount", snap.at)
            ELSE Dump(k, snap)
      [] st.kind = "Program" ->
            IF AllowedProgramIds # None /\ k \notin AllowedProgramIds
               THEN refuse("IsNotAnAllowedProgram", Forever)
            ELSE IF ~AllowProgram THEN refuse("DoesNotAllowProgramAccount", snap.at)
            ELSE DoCloneProgramAccounts(k, snap)
      [] st.kind = "Delegated" ->
            IF ~AllowDelegated THEN refuse("DoesNotAllowDelegatedAccount", snap.at)
            \* ledger replay: respond as if it had just been cloned
            ELSE IF ~ShouldCloneDelegatedAccount(task[k].stage, st)
               THEN FinishNoDump(k, Cloned(snap), TRUE)
            ELSE IF ReusesDelegation(k, st.dslot)
               THEN FinishNoDump(k, Cloned(snap), TRUE)
            ELSE Dump(k, snap)

envUnchanged == UNCHANGED <<slot, history, firstSub, pending, lastUpdate,
                            channel, batch, phase, hydrateQueue, cancelled, stopped>>

(* Faulty variant: the retry bound is tested with > instead of >=.        *)
FetchReturnOffByOne(k) ==
    /\ pc[k] = "fetching"
    /\ LET lo == IF task[k].minCtx = None THEN 0 ELSE task[k].minCtx
           exhausted == task[k].count > FetchRetries
       IN \/ /\ "fetch" \in Faults \/ FetchableSlots(lo) = {}
             /\ IF ~AllowRefresh \/ exhausted
                   THEN FinishNoDump(k, Failed("AccountFetcherError"), FALSE)
                   ELSE Suspend(k, "sleeping", task[k])
          \/ \E s \in FetchableSlots(lo) :
                IF ~AllowRefresh \/ SatisfactorySlot(k, s)
                   THEN Classify(k, SnapshotAt(k, s))
                ELSE IF exhausted
                   THEN FinishNoDump(k, Failed("FailedToFetchSatisfactorySlot"), FALSE)
                ELSE Suspend(k, "sleeping", task[k])
    /\ UNCHANGED monitored
    /\ envUnchanged

(* The fetcher answers the fetch of the retry loop (or the single fetch    *)
(* when refresh is off): a satisfactory snapshot is classified at once.    *)
FetchReturn(k) ==
    /\ pc[k] = "fetching"
    /\ LET lo == IF task[k].minCtx = None THEN 0 ELSE task[k].minCtx
           exhausted == task[k].count >= FetchRetries
       IN \/ /\ "fetch" \in Faults \/ FetchableSlots(lo) = {}
             /\ IF ~AllowRefresh \/ exhausted
                   THEN FinishNoDump(k, Failed("AccountFetcherError"), FALSE)
                   ELSE Suspend(k, "sleeping", task[k])
          \/ \E s \in FetchableSlots(lo) :
                IF ~AllowRefresh \/ SatisfactorySlot(k, s)
                   THEN Classify(k, SnapshotAt(k, s))
                ELSE IF exhausted
                   THEN FinishNoDump(k, Failed("FailedToFetchSatisfactorySlot"), FALSE)
                ELSE Suspend(k, "sleeping", task[k])
    /\ UNCHANGED monitored
    /\ envUnchanged

(* The 200 ms sleep ends; the loop reads first_subscribed_slot and fetches. *)
Wake(k) ==
    /\ pc[k] = "sleeping"
    /\ Suspend(k, "fetching", [task[k] EXCEPT !.count = @ + 1, !.minCtx = firstSub[k]])
    /\ UNCHANGED monitored
    /\ envUnchanged

(* do_clone_program_accounts, upgradeable loader: the program data fetch,  *)
(* then the anchor IDL and the shank IDL fetches, then dump_program_accounts. *)
ProgramDataFetched(k) ==
    /\ pc[k] = "programData"
    /\ \/ /\ "fetch" \in Faults
          /\ FinishNoDump(k, Failed("AccountFetcherError"), FALSE)
       \/ /\ "programData" \in Faults
          /\ FinishNoDump(k, Failed("ProgramDataDoesNotExist"), FALSE)
       \/ Suspend(k, "idlAnchor", task[k])
    /\ UNCHANGED monitored
    /\ envUnchanged

IdlAnchorFetched(k) ==
    /\ pc[k] = "idlAnchor"
    /\ \/ /\ "fetch" \in Faults
          /\ FinishNoDump(k, Failed("AccountFetcherError"), FALSE)
       \/ Dump(k, task[k].snap)                   \* anchor IDL found
       \/ Suspend(k, "idlShank", task[k])         \* no anchor IDL
    /\ UNCHANGED monitored
    /\ envUnchanged

IdlShankFetched(k) ==
    /\ pc[k] = "idlShank"
    /\ \/ /\ "fetch" \in Faults
          /\ FinishNoDump(k, Failed("AccountFetcherError"), FALSE)
       \/ Dump(k, task[k].snap)                   \* with or without shank IDL
    /\ UNCHANGED monitored
    /\ envUnchanged

-----------------------------------------------------------------------------
(* The request loop and hydration *)

(* recv_many takes up to BatchLimit queued keys; join_all then polls a     *)
(* task per key.  The next batch is taken when every task has returned.    *)
ReceiveBatch ==
    /\ phase = "running" /\ ~stopped
    /\ \A k \in batch : pc[k] = "idle"
    /\ channel # <<>>
    /\ \E n \in 1 .. Min({Len(channel), BatchLimit}) :
          LET ks == ToSet(SubSeq(channel, 1, n)) IN
          /\ batch' = ks
          /\ channel' = SubSeq(channel, n + 1, Len(channel))
          /\ pc' = [k \in Keys |-> IF k \in ks THEN "start" ELSE pc[k]]
    /\ UNCHANGED <<chainVars, cache, listeners, task, phase, hydrateQueue, bank, waiting, got,
                   cancelled, stopped>>

(* process_clone_request up to its first await: do_clone_or_use_cache.     *)
ProcessCloneRequest(k) ==
    /\ pc[k] = "start"
    /\ LET d == CacheDecision(k) IN
          IF d = Refresh THEN DoCloneStart(k, Running)
          ELSE FinishNoDump(k, d, FALSE) /\ UNCHANGED monitored
    /\ envUnchanged

(* hydrate: the accounts of the bank, less blacklisted ones, sentinel      *)
(* balances and program data accounts, each with its local owner.          *)
HydrateKeys ==
    {k \in Keys : /\ bank[k].kind # "None"
                  /\ k \notin Blacklist
                  /\ ~bank[k].huge
                  /\ bank[k].kind # "ProgramData"}

HydrateStart ==
    /\ phase = "startup"
    /\ IF ~CanClone
          THEN /\ phase' = "running"
               /\ UNCHANGED hydrateQueue
          ELSE /\ phase' = "hydrating"
               /\ hydrateQueue' = {<<k, bank[k].kind = "Delegated">> : k \in HydrateKeys}
    /\ UNCHANGED <<chainVars, cache, listeners, channel, batch, pc, task, bank, waiting, got,
                   cancelled, stopped>>

(* One iteration of the hydrate loop, up to the first await of            *)
(* do_clone_and_update_cache; errors are logged and the loop goes on.      *)
HydrateAccount ==
    /\ phase = "hydrating"
    /\ \A k \in Keys : pc[k] = "idle"
    /\ \E e \in hydrateQueue :
          /\ hydrateQueue' = hydrateQueue \ {e}
          /\ DoCloneStart(e[1], Hydrating(e[2]))
    /\ UNCHANGED <<slot, history, firstSub, pending, lastUpdate, channel, batch, phase,
                   cancelled, stopped>>

HydrateDone ==
    /\ phase = "hydrating"
    /\ hydrateQueue = {}
    /\ \A k \in Keys : pc[k] = "idle"
    /\ phase' = "running"
    /\ UNCHANGED <<chainVars, cache, listeners, channel, batch, pc, task, hydrateQueue,
                   bank, waiting, got, cancelled, stopped>>

(* Faulty variant: cancellation races the whole batch, so the futures of  *)
(* join_all are dropped with their listeners still registered.            *)
StopLoopDroppingBatch ==
    /\ phase = "running" /\ cancelled /\ ~stopped
    /\ stopped' = TRUE
    /\ pc' = [k \in Keys |-> IF k \in batch THEN "idle" ELSE pc[k]]
    /\ task' = [k \in Keys |-> IF k \in batch THEN IdleTask ELSE task[k]]
    /\ UNCHANGED <<chainVars, cache, listeners, channel, batch, phase, hydrateQueue,
                   bank, waiting, got, cancelled>>

(* The cancelled branch of the select!: it is only polled between batches, *)
(* since join_all runs inside the recv_many branch, and it returns from    *)
(* the loop, leaving queued keys in the channel.                           *)
StopLoop ==
    /\ phase = "running" /\ cancelled /\ ~stopped
    /\ \A k \in batch : pc[k] = "idle"
    /\ stopped' = TRUE
    /\ UNCHANGED <<chainVars, cache, listeners, channel, batch, pc, task, phase,
                   hydrateQueue, bank, waiting, got, cancelled>>

-----------------------------------------------------------------------------
(* Callers and the bank *)

(* The validator shuts down: cancellation_token.cancel().                  *)
Cancel ==
    /\ Cancellable /\ ~cancelled
    /\ cancelled' = TRUE
    /\ UNCHANGED <<chainVars, cache, listeners, channel, batch, pc, task, phase,
                   hydrateQueue, bank, waiting, got, stopped>>

(* The clone client: register a listener, and push the key only when the   *)
(* listener list was empty (spec.md 4.5).                                  *)
RequestClone(c, k) ==
    /\ waiting[c] = None
    /\ waiting' = [waiting EXCEPT ![c] = k]
    /\ listeners' = [listeners EXCEPT ![k] = @ \cup {c}]
    /\ channel' = IF listeners[k] = {} THEN Append(channel, k) ELSE channel
    /\ UNCHANGED <<chainVars, cache, batch, pc, task, phase, hydrateQueue, bank, got,
                   cancelled, stopped>>

(* A transaction writes to a delegated copy once the validator runs.       *)
LocalWrite(k) ==
    /\ phase = "running"
    /\ bank[k].kind = "Delegated"
    /\ ~bank[k].modified
    /\ bank' = [bank EXCEPT ![k].modified = TRUE]
    /\ UNCHANGED <<chainVars, workerVars, waiting, got>>

-----------------------------------------------------------------------------
(* Specification *)

(* A local copy written in an earlier run that is still delegated to us    *)
(* at the same slot was delegated to this validator, not to another one.   *)
ConsistentStartup(k) ==
    LET st == history[k][1].st IN
    (bank[k].kind = "Delegated" /\ bank[k].modified
       /\ st.kind = "Delegated" /\ st.dslot = bank[k].dslot)
       => st.auth # OtherValidator

Init ==
    /\ ChainInit
    /\ bank \in [Keys -> InitialBank]
    /\ \A k \in Keys : ConsistentStartup(k)
    /\ cache = [k \in Keys |-> None]
    /\ listeners = [k \in Keys |-> {}]
    /\ channel = <<>>
    /\ batch = {}
    /\ pc = [k \in Keys |-> "idle"]
    /\ task = [k \in Keys |-> IdleTask]
    /\ phase = "startup"
    /\ hydrateQueue = {}
    /\ waiting = [c \in Clients |-> None]
    /\ got = [c \in Clients |-> None]
    /\ cancelled = FALSE
    /\ stopped = FALSE

TaskStep(k) ==
    \/ ProcessCloneRequest(k)
    \/ FetchReturn(k)
    \/ Wake(k)
    \/ ProgramDataFetched(k)
    \/ IdlAnchorFetched(k)
    \/ IdlShankFetched(k)

WorkerNext ==
    \/ HydrateStart
    \/ HydrateAccount
    \/ HydrateDone
    \/ ReceiveBatch
    \/ StopLoop
    \/ \E k \in Keys : TaskStep(k)

EnvNext ==
    \/ ChainNext /\ UNCHANGED <<workerVars, bank, waiting, got>>
    \/ \E c \in Clients, k \in Keys : RequestClone(c, k)
    \/ \E k \in Keys : LocalWrite(k)
    \/ Cancel

Next == WorkerNext \/ EnvNext

(* The worker's steps are weakly fair: the tokio runtime keeps polling the *)
(* loop and its tasks, and every fetch, sleep and dump returns.  Nothing   *)
(* is assumed of the chain, the notifier or the callers.                   *)
Fairness ==
    /\ WF_vars(HydrateStart) /\ WF_vars(HydrateAccount) /\ WF_vars(HydrateDone)
    /\ WF_vars(ReceiveBatch) /\ WF_vars(StopLoop)
    /\ \A k \in Keys : WF_vars(TaskStep(k))

Spec == Init /\ [][Next]_vars /\ Fairness

-----------------------------------------------------------------------------
(* Properties *)

TypeOK ==
    /\ ChainTypeOK
    /\ cache \in [Keys -> Outputs \cup {None}]
    /\ listeners \in [Keys -> SUBSET Clients]
    /\ channel \in Seq(Keys)
    /\ batch \subseteq Keys
    /\ pc \in [Keys -> {"idle", "start", "fetching", "sleeping",
                        "programData", "idlAnchor", "idlShank"}]
    /\ \A k \in Keys :
          /\ task[k].stage \in {Running} \cup {Hydrating(b) : b \in BOOLEAN}
          /\ task[k].count \in 0 .. FetchRetries
          /\ task[k].minCtx \in Slots \cup {None}
          /\ task[k].snap \in Snapshots \cup {None}
    /\ phase \in {"startup", "hydrating", "running"}
    /\ hydrateQueue \subseteq Keys \X BOOLEAN
    /\ bank \in [Keys -> BankAccounts]
    /\ waiting \in [Clients -> Keys \cup {None}]
    /\ got \in [Clients -> Results \cup {None}]
    /\ cancelled \in BOOLEAN /\ stopped \in BOOLEAN

(* Slot until which a cached output is authoritative (Forever excluded).   *)
ValidUntil(o) == IF o.type = "Cloned" THEN o.snap.at ELSE o.until

(* Cache coherence of do_clone_or_use_cache with the fetch loop: when the  *)
(* chain changes k in a confirmed slot after the slot of its cached        *)
(* output, the notifier has been or will be told, so last_known_update_   *)
(* slot will pass the cached slot and the next request refreshes.  This is *)
(* what the satisfactory-slot test against first_subscribed_slot buys.     *)
StalenessDetectable ==
    AllowRefresh =>
      \A k \in Keys :
        cache[k] # None /\ ValidUntil(cache[k]) < Forever =>
          \A i \in DOMAIN history[k] :
             LET m == history[k][i].at IN
             (ValidUntil(cache[k]) < m /\ m < slot)
               => (m \in pending[k] \/ (lastUpdate[k] # None /\ lastUpdate[k] >= m))

(* Callers see the updates the worker knows of (spec.md 3, coherence as   *)
(* seen from do_clone_or_use_cache's callers): an answer that is not an   *)
(* error is valid at or after last_known_update_slot of its key when it   *)
(* is given, whether it is the cached output, a fresh clone, or the       *)
(* outcome of a request another caller started before the update came.    *)
AnswersReflectKnownUpdates ==
    [][\A c \in Clients :
         (waiting[c] # None /\ waiting'[c] = None /\ got'[c].type # "Err")
           => ValidUntil(got'[c]) >= LastKnownUpdateSlot(waiting[c])]_vars

(* Single flight (spec.md 3, invariant 4 and 5): a key is queued at most   *)
(* once and never while its request is being served, its listener entry   *)
(* is non-empty exactly while it is queued or served, and each waiting     *)
(* caller sits in the entry of the key it waits for.                       *)
RequestsSingleFlight ==
    \A k \in Keys :
       LET queued == {i \in DOMAIN channel : channel[i] = k}
           serving == k \in batch /\ pc[k] # "idle"
       IN /\ Cardinality(queued) + (IF serving THEN 1 ELSE 0) <= 1
          /\ (listeners[k] # {}) <=> (queued # {} \/ serving)
          /\ \A c \in Clients : c \in listeners[k] <=> waiting[c] = k

(* The delegation-slot reuse rule and the hydration stage check: a copy    *)
(* this validator wrote to while the chain still holds the same delegation *)
(* is never overwritten by a dump.                                         *)
NoLostLocalWrites ==
    [][\A k \in Keys :
         (/\ bank[k].kind = "Delegated" /\ bank[k].modified
          /\ Current(k).kind = "Delegated" /\ Current(k).dslot = bank[k].dslot)
           => bank'[k] = bank[k]]_bank

(* The newer delegation wins (spec.md 7, delegation-slot reuse): once the *)
(* validator runs, a cached clone of a delegated account describes the     *)
(* local copy, a delegated copy from the same delegation slot.  The reuse *)
(* rule of do_clone_delegated_account trusts exactly this when it skips    *)
(* the dump.                                                               *)
CachedDelegationInBank ==
    \A k \in Keys :
       (/\ phase = "running" /\ cache[k] # None /\ cache[k].type = "Cloned"
        /\ cache[k].snap.st.kind = "Delegated")
         => bank[k].kind = "Delegated" /\ bank[k].dslot = cache[k].snap.st.dslot

CloneCacheAbs == INSTANCE CloneCache WITH open <- (phase = "running")

ImplementsCloneCache == CloneCacheAbs!Spec

(* Every caller that registered a listener eventually gets an outcome, or  *)
(* the request loop has returned on cancellation (spec.md 5: requests      *)
(* arriving after cancellation are dropped).                               *)
EveryRequestAnswered ==
    \A c \in Clients : waiting[c] # None ~> (waiting[c] = None \/ stopped)

(* Cancellation of start_clone_request_processing never strands a batch:  *)
(* a caller whose key recv_many already took, including one that joined    *)
(* the listener list while the key was being served, is answered even    *)
(* when the token is cancelled meanwhile (spec.md 5: in-flight tasks are   *)
(* awaited to completion).                                                 *)
ServedDespiteCancel ==
    \A c \in Clients :
       (waiting[c] # None /\ waiting[c] \in batch /\ pc[waiting[c]] # "idle")
          ~> waiting[c] = None
=============================================================================
