--------------------------- MODULE AccountModData ---------------------------
(***************************************************************************)
(* The account-mod-data registry of the magicblock program                 *)
(* (programs/magicblock/src/mutate_accounts/account_mod_data.rs): large   *)
(* data for a mutate-accounts transaction is registered in memory under a  *)
(* fresh id (DATA_MOD_ID) before the transaction runs; the transaction     *)
(* resolves it by id and persists it, so that a ledger replay after a      *)
(* restart can load it from storage, checking that replayed ids come in    *)
(* sequence and bringing DATA_MOD_ID back to where it was.                 *)
(*                                                                         *)
(* The mutate-accounts processor that calls resolve and persist, the       *)
(* persister and the ledger are not under src/: a transaction resolves,    *)
(* persists only data that came from memory (is_from_memory), applies the  *)
(* data to the account and is recorded in the ledger, all in one step.     *)
(* A panic of the replay check stops the validator.                        *)
(***************************************************************************)
EXTENDS Naturals, Sequences, FiniteSets

CONSTANTS
    Datas,          \* payloads a mutation may carry
    MaxMutations,   \* bound on set_account_mod_data calls over the whole run
    MaxRestarts,    \* bound on validator restarts
    AllowDrops,     \* a registered mutation may never land (dropped or failed)
    PersistFails,   \* the persister may fail to store a mutation's data
    None

ASSUME MaxMutations \in Nat \ {0} /\ MaxRestarts \in Nat

Ids == 0 .. (MaxMutations - 1)

VARIABLES
    counter,     \* DATA_MOD_ID
    mods,        \* DATA_MODS: id -> data, or None
    persisted,   \* the persister's store: id -> data, or None (durable)
    ledger,      \* executed mutations: id, and the account data after it (durable)
    inflight,    \* ids registered whose transaction has not run yet
    starting,    \* validator::is_starting_up()
    replayed,    \* ledger entries replayed by this instance
    account,     \* the data of the mutated account in the bank
    panicked,    \* "Data mod id sequence is broken"
    issued,      \* set_account_mod_data calls so far (bound)
    restarts     \* restarts so far (bound)

vars == <<counter, mods, persisted, ledger, inflight, starting, replayed,
          account, panicked, issued, restarts>>

-----------------------------------------------------------------------------
(* Faulty variant: the id is the incremented counter.                      *)
NextIdAfterAdd == counter + 1

(* get_account_mod_data_id: fetch_add(1) returns the counter before it.    *)
NextId == counter

(* Faulty variant: the id is read without incrementing the counter.        *)
CounterAfterLoad == counter

(* DATA_MOD_ID after get_account_mod_data_id.                              *)
CounterAfterAlloc == counter + 1

(* set_data_mod_id_checking_sequence(id): id 0 only asserts the counter is *)
(* 0; any other id does fetch_add(1) and asserts the old value is id - 1.  *)
SequenceCheck(id) ==
    IF id = 0 THEN [ok |-> counter = 0, next |-> counter]
    ELSE [ok |-> counter + 1 = id, next |-> counter + 1]

(* resolve_account_mod_data(id) after get_data removed the memory entry:  *)
(* memory first, then storage while starting up, else an error.           *)
Resolve(id) ==
    IF mods[id] # None THEN [from |-> "Memory", data |-> mods[id]]
    ELSE IF ~starting THEN [from |-> "MissingFromMemory", data |-> None]
    ELSE IF persisted[id] # None THEN [from |-> "Storage", data |-> persisted[id]]
    ELSE [from |-> "NotFound", data |-> None]

(* persist_data(id, data): TRUE when the persister stored the data; it    *)
(* fails when no persister was set or its store returns an error.         *)
PersistData == IF PersistFails THEN BOOLEAN ELSE {TRUE}

-----------------------------------------------------------------------------
Init ==
    /\ counter = 0
    /\ mods = [i \in Ids |-> None]
    /\ persisted = [i \in Ids |-> None]
    /\ ledger = <<>>
    /\ inflight = {}
    /\ starting = FALSE
    /\ replayed = 0
    /\ account = None
    /\ panicked = FALSE
    /\ issued = 0
    /\ restarts = 0

(* set_account_mod_data(data): take an id and register the data under it. *)
SetAccountModData(d) ==
    /\ ~starting /\ ~panicked
    /\ issued < MaxMutations
    /\ counter < MaxMutations
    /\ mods' = [mods EXCEPT ![NextId] = d]
    /\ inflight' = inflight \cup {NextId}
    /\ counter' = CounterAfterAlloc
    /\ issued' = issued + 1
    /\ UNCHANGED <<persisted, ledger, starting, replayed, account, panicked,
                   restarts>>

(* The mutate-accounts transaction of a registered id runs after start-up: *)
(* get_data takes the data out of memory, persist stores it and the data  *)
(* is written to the account.  When persist_data fails, the instruction   *)
(* returns FailedToPersistAccountModData: the data is gone from memory,   *)
(* the account is unchanged and the failed transaction is in the ledger.  *)
(* The dumper executes the transactions it built synchronously and in     *)
(* order, so the oldest registered id runs.                               *)
ExecuteMutation(id) ==
    /\ ~starting /\ ~panicked
    /\ id \in inflight
    /\ \A j \in inflight : id <= j
    /\ LET r == Resolve(id) IN
          /\ r.from = "Memory"
          /\ mods' = [mods EXCEPT ![id] = None]
          /\ \E stored \in PersistData :
                IF stored THEN /\ persisted' = [persisted EXCEPT ![id] = r.data]
                               /\ account' = r.data
                ELSE UNCHANGED <<persisted, account>>
          /\ ledger' = Append(ledger, [id |-> id, data |-> account'])
    /\ inflight' = inflight \ {id}
    /\ UNCHANGED <<counter, starting, replayed, panicked, issued, restarts>>

(* A registered mutation never lands: its transaction failed, or an       *)
(* earlier one of the same execute_transactions batch did and collect()    *)
(* stopped there.  Its data stays in DATA_MODS.                            *)
DropMutation(id) ==
    /\ AllowDrops
    /\ ~starting /\ ~panicked
    /\ id \in inflight
    /\ \A j \in inflight : id <= j
    /\ inflight' = inflight \ {id}
    /\ UNCHANGED <<counter, mods, persisted, ledger, starting, replayed, account,
                   panicked, issued, restarts>>

(* The process stops and starts again: memory, DATA_MOD_ID and the bank   *)
(* are lost, the persister and the ledger are kept, and replay begins.     *)
Restart ==
    /\ restarts < MaxRestarts
    /\ counter' = 0
    /\ mods' = [i \in Ids |-> None]
    /\ inflight' = {}
    /\ starting' = TRUE
    /\ replayed' = 0
    /\ account' = None
    /\ panicked' = FALSE
    /\ restarts' = restarts + 1
    /\ UNCHANGED <<persisted, ledger, issued>>

(* The next ledger transaction is replayed: its data is loaded from        *)
(* storage and its id checked against the sequence; a broken sequence      *)
(* panics.  Data that is not found makes the transaction fail.             *)
ReplayMutation ==
    /\ starting /\ ~panicked
    /\ replayed < Len(ledger)
    /\ LET id == ledger[replayed + 1].id
           r == Resolve(id)
           chk == SequenceCheck(id)
       IN \/ /\ r.from = "Storage"
             /\ IF chk.ok
                   THEN /\ counter' = chk.next
                        /\ account' = r.data
                        /\ UNCHANGED panicked
                   ELSE /\ panicked' = TRUE
                        /\ UNCHANGED <<counter, account>>
          \/ /\ r.from = "NotFound"
             /\ UNCHANGED <<counter, account, panicked>>
    /\ replayed' = replayed + 1
    /\ UNCHANGED <<mods, persisted, ledger, inflight, starting, issued, restarts>>

(* The ledger is replayed to its end: the validator leaves start-up.       *)
FinishStartup ==
    /\ starting /\ ~panicked
    /\ replayed = Len(ledger)
    /\ starting' = FALSE
    /\ UNCHANGED <<counter, mods, persisted, ledger, inflight, replayed, account,
                   panicked, issued, restarts>>

Next ==
    \/ \E d \in Datas : SetAccountModData(d)
    \/ \E id \in Ids : ExecuteMutation(id) \/ DropMutation(id)
    \/ Restart
    \/ ReplayMutation
    \/ FinishStartup

Spec == Init /\ [][Next]_vars

-----------------------------------------------------------------------------
(* Properties *)

TypeOK ==
    /\ counter \in 0 .. MaxMutations
    /\ mods \in [Ids -> Datas \cup {None}]
    /\ persisted \in [Ids -> Datas \cup {None}]
    /\ ledger \in Seq([id : Ids, data : Datas \cup {None}])
    /\ inflight \subseteq Ids
    /\ starting \in BOOLEAN /\ panicked \in BOOLEAN
    /\ replayed \in 0 .. Len(ledger)
    /\ account \in Datas \cup {None}

(* Ledger replay applies the logged data (the replay branch of            *)
(* resolve_account_mod_data and load_data): after each replayed            *)
(* transaction the account holds the data that transaction wrote when it   *)
(* first ran (unchanged when it failed), or replay has stopped on a panic. *)
ReplayAppliesLoggedData ==
    (starting /\ replayed > 0 /\ ~panicked) => account = ledger[replayed].data

(* Replay of a ledger the validator wrote itself never trips the sequence  *)
(* check of set_data_mod_id_checking_sequence, whose comment says a broken *)
(* sequence means an invalid ledger.                                       *)
ReplayNeverPanics == ~panicked
=============================================================================
