----------------------------- MODULE RemoteChain -----------------------------
(***************************************************************************)
(* The base chain the cloner reads from, and the AccountUpdates notifier   *)
(* that watches it.  Neither is under src/: the chain's behaviour and the  *)
(* notifier's contract are taken from spec.md sections 3, 4.3 and 6.       *)
(*                                                                         *)
(*  - slot is the slot the chain is producing; slots below it are          *)
(*    confirmed.  An account changes at most once per slot (several        *)
(*    changes inside one slot are one change at this abstraction).         *)
(*  - history[k] lists the changes of account k as [at, st] records, the   *)
(*    first one at slot 0.  A snapshot at slot s shows the last change at  *)
(*    or below s.                                                          *)
(*  - monitored[k] is set by ensure_account_monitoring; the subscription   *)
(*    confirms later, asynchronously, and first_subscribed_slot is the     *)
(*    last confirmed slot at that moment.  Every change in a slot above    *)
(*    it is reported when its slot is confirmed; the report is delivered   *)
(*    later, in any order, and last_known_update_slot keeps the highest.   *)
(***************************************************************************)
EXTENDS Naturals, Sequences, SequencesExt

CONSTANTS
    Keys,               \* account pubkeys
    MaxSlot,            \* last slot the chain produces in a run (bound)
    ValidatorIdentity,  \* our validator's identity
    OtherValidator,     \* some other validator's identity
    DefaultPubkey,      \* Pubkey::default(), a delegation record without authority
    InitialStates,      \* chain states an account may have at slot 0
    None                \* Option::None

ASSUME MaxSlot \in Nat \ {0}

VARIABLES
    slot,        \* the slot being produced
    history,     \* history[k]: sequence of [at |-> slot, st |-> chain state]
    monitored,   \* ensure_account_monitoring was called for k
    firstSub,    \* first_subscribed_slot(k), or None
    pending,     \* slots of reported changes not yet delivered to the notifier
    lastUpdate   \* last_known_update_slot(k), or None

chainVars == <<slot, history, monitored, firstSub, pending, lastUpdate>>

Slots == 0 .. MaxSlot
Authorities == {ValidatorIdentity, OtherValidator, DefaultPubkey}
Loaders == {"upgradeable", "legacy", "deprecated"}

(* AccountChainState, with the account and delegation record reduced to    *)
(* what the cloner branches on: executable flag and loader of a program,   *)
(* delegation slot and authority of a delegation record.                   *)
ChainState ==
         [kind : {"FeePayer", "Undelegated"}]
    \cup [kind : {"Program"}, loader : Loaders]
    \cup [kind : {"Delegated"}, dslot : Slots, auth : Authorities]

Undelegated == [kind |-> "Undelegated"]

ASSUME InitialStates \subseteq ChainState

(* State of k in the snapshot the chain serves at slot s.                  *)
StateAt(k, s) == SelectLastInSeq(history[k], LAMBDA e : e.at <= s)

SnapshotAt(k, s) == [at |-> s, st |-> history[k][StateAt(k, s)].st]

Current(k) == Last(history[k]).st

(* The ways an account can change on chain: a data write keeps its kind,   *)
(* an undelegated account may be delegated (the delegation slot is the     *)
(* current slot) and a delegated one may be committed to or undelegated.   *)
Successors(st) ==
    CASE st.kind = "Undelegated" ->
            {st} \cup {[kind |-> "Delegated", dslot |-> slot, auth |-> a] : a \in Authorities}
      [] st.kind = "Delegated" -> {st, Undelegated}
      [] OTHER -> {st}

ChainInit ==
    /\ slot = 1
    /\ history \in [Keys -> {<<[at |-> 0, st |-> s]>> : s \in InitialStates}]
    /\ monitored = [k \in Keys |-> FALSE]
    /\ firstSub = [k \in Keys |-> None]
    /\ pending = [k \in Keys |-> {}]
    /\ lastUpdate = [k \in Keys |-> None]

ChainModify(k) ==
    /\ Last(history[k]).at < slot
    /\ \E st \in Successors(Current(k)) :
          history' = [history EXCEPT ![k] = Append(@, [at |-> slot, st |-> st])]
    /\ UNCHANGED <<slot, monitored, firstSub, pending, lastUpdate>>

(* The slot is confirmed; changes made in it are reported to subscribers.  *)
ConfirmSlot ==
    /\ slot < MaxSlot
    /\ pending' = [k \in Keys |->
                     IF firstSub[k] # None /\ Last(history[k]).at = slot
                        THEN pending[k] \cup {slot} ELSE pending[k]]
    /\ slot' = slot + 1
    /\ UNCHANGED <<history, monitored, firstSub, lastUpdate>>

SubscriptionConfirmed(k) ==
    /\ monitored[k]
    /\ firstSub[k] = None
    /\ firstSub' = [firstSub EXCEPT ![k] = slot - 1]
    /\ UNCHANGED <<slot, history, monitored, pending, lastUpdate>>

UpdateDelivered(k) ==
    /\ \E s \in pending[k] :
          /\ pending' = [pending EXCEPT ![k] = @ \ {s}]
          /\ lastUpdate' = [lastUpdate EXCEPT ![k] =
                               IF @ = None \/ @ < s THEN s ELSE @]
    /\ UNCHANGED <<slot, history, monitored, firstSub>>

ChainNext ==
    \/ ConfirmSlot
    \/ \E k \in Keys :
          ChainModify(k) \/ SubscriptionConfirmed(k) \/ UpdateDelivered(k)

ChainTypeOK ==
    /\ slot \in 1 .. MaxSlot
    /\ \A k \in Keys : history[k] \in Seq([at : Slots, st : ChainState])
    /\ monitored \in [Keys -> BOOLEAN]
    /\ firstSub \in [Keys -> Slots \cup {None}]
    /\ pending \in [Keys -> SUBSET Slots]
    /\ lastUpdate \in [Keys -> Slots \cup {None}]
=============================================================================
