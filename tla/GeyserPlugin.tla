---------------------------- MODULE GeyserPlugin ----------------------------
(***************************************************************************)
(* GrpcGeyserPlugin (sleipnir-geyser-plugin/src/plugin.rs): the validator *)
(* threads call update_account, notify_transaction and update_slot_status; *)
(* account and transaction messages are first inserted into a stretto      *)
(* cache the RPC service reads, and every message is then sent on the      *)
(* gRPC channel and on the RPC channel.                                    *)
(*                                                                         *)
(* A stretto insert is not applied by the caller: it goes into the        *)
(* cache's insert buffer and the cache's processing thread applies it     *)
(* later, when it may also refuse it (admission policy, cost budget).      *)
(* cache.wait() puts a marker into the same buffer and blocks until the    *)
(* processor reaches it.  Each cache has its own buffer and processor;    *)
(* a buffer is a FIFO, so wait() returns once every insert queued into    *)
(* that cache before it has been applied or refused.                      *)
(***************************************************************************)
EXTENDS Naturals, Sequences, FiniteSets

CONSTANTS
    Threads,      \* validator threads calling into the plugin
    Pubkeys,      \* accounts whose updates are notified
    Signatures,   \* transactions notified (each once)
    SlotNumbers,  \* slots whose status is notified
    MaxCalls,     \* bound on plugin calls per thread
    None

ASSUME MaxCalls \in Nat \ {0}

Caches == {"accounts", "transactions"}

(* Message::Account, Message::Transaction and Message::Slot, reduced to   *)
(* the key the caches and subscriptions use; the is_startup flag of an    *)
(* account message is always false, startup updates being dropped.        *)
Messages == [type : {"Account"}, key : Pubkeys]
            \cup [type : {"Transaction"}, key : Signatures]
            \cup [type : {"Slot"}, key : SlotNumbers]

(* The cache a message is inserted into: accounts_cache by pubkey,        *)
(* transactions_cache by signature.                                       *)
CacheOf(m) == IF m.type = "Account" THEN "accounts" ELSE "transactions"

Insert(m) == [op |-> "insert", msg |-> m]
WaitMarker(t) == [op |-> "wait", thread |-> t]

VARIABLES
    inner,     \* self.inner is Some
    pc,        \* pc[t]: "idle", "waiting" (in cache.wait()), "sendGrpc", "sendRpc"
    msg,       \* msg[t]: the message thread t is notifying, or None
    buffer,    \* buffer[c]: stretto insert buffer of cache c: inserts and wait markers
    cached,    \* cached[c]: keys present in cache c
    grpc,      \* messages sent on grpc_channel
    rpc,       \* messages sent on rpc_channel
    calls,     \* calls[t]: plugin calls made by thread t (bound)
    notified   \* signatures notified so far (a signature is notified once)

vars == <<inner, pc, msg, buffer, cached, grpc, rpc, calls, notified>>

-----------------------------------------------------------------------------
Init ==
    /\ inner = TRUE
    /\ pc = [t \in Threads |-> "idle"]
    /\ msg = [t \in Threads |-> None]
    /\ buffer = [c \in Caches |-> <<>>]
    /\ cached = [c \in Caches |-> {}]
    /\ grpc = <<>>
    /\ rpc = <<>>
    /\ calls = [t \in Threads |-> 0]
    /\ notified = {}

(* The account locks of the bank serialise the stores, hence the          *)
(* notifications, of one account: no other thread is notifying key k.    *)
KeyFree(m) == \A u \in {v \in Threads : msg[v] # None} : msg[u].key # m.key

CallStart(t) ==
    /\ inner                          \* with_inner: "PluginInner is not initialized"
    /\ pc[t] = "idle"
    /\ calls[t] < MaxCalls
    /\ calls' = [calls EXCEPT ![t] = @ + 1]

(* update_account with is_startup: returns Ok before touching anything.   *)
UpdateAccountAtStartup(t) ==
    /\ CallStart(t)
    /\ UNCHANGED <<inner, pc, msg, buffer, cached, grpc, rpc, notified>>

(* Faulty variant: the cache insert is not waited for.                    *)
CacheInsertNoWait(t, m) ==
    /\ buffer' = [buffer EXCEPT ![CacheOf(m)] = Append(@, Insert(m))]
    /\ pc' = [pc EXCEPT ![t] = "sendGrpc"]
    /\ msg' = [msg EXCEPT ![t] = m]

(* insert_with_ttl(key, message) followed by cache.wait(), on the cache   *)
(* of the message.                                                        *)
CacheInsert(t, m) ==
    /\ buffer' = [buffer EXCEPT ![CacheOf(m)] = @ \o <<Insert(m), WaitMarker(t)>>]
    /\ pc' = [pc EXCEPT ![t] = "waiting"]
    /\ msg' = [msg EXCEPT ![t] = m]

(* update_account, not at startup: cache the message, then send it.       *)
UpdateAccount(t, p) ==
    LET m == [type |-> "Account", key |-> p] IN
    /\ CallStart(t)
    /\ KeyFree(m)
    /\ CacheInsert(t, m)
    /\ UNCHANGED <<inner, cached, grpc, rpc, notified>>

(* notify_transaction: cache the message, then send it.                    *)
NotifyTransaction(t, s) ==
    LET m == [type |-> "Transaction", key |-> s] IN
    /\ CallStart(t)
    /\ s \notin notified
    /\ notified' = notified \cup {s}
    /\ CacheInsert(t, m)
    /\ UNCHANGED <<inner, cached, grpc, rpc>>

(* update_slot_status: the message is sent without caching.               *)
UpdateSlotStatus(t, n) ==
    /\ CallStart(t)
    /\ pc' = [pc EXCEPT ![t] = "sendGrpc"]
    /\ msg' = [msg EXCEPT ![t] = [type |-> "Slot", key |-> n]]
    /\ UNCHANGED <<inner, buffer, cached, grpc, rpc, notified>>

(* send_message: the gRPC channel first, then the RPC channel; the        *)
(* unbounded sends never block and their errors are ignored.              *)
SendGrpc(t) ==
    /\ pc[t] = "sendGrpc"
    /\ grpc' = Append(grpc, msg[t])
    /\ pc' = [pc EXCEPT ![t] = "sendRpc"]
    /\ UNCHANGED <<inner, msg, buffer, cached, rpc, calls, notified>>

SendRpc(t) ==
    /\ pc[t] = "sendRpc"
    /\ rpc' = Append(rpc, msg[t])
    /\ pc' = [pc EXCEPT ![t] = "idle"]
    /\ msg' = [msg EXCEPT ![t] = None]
    /\ UNCHANGED <<inner, buffer, cached, grpc, calls, notified>>

(* The processing thread of cache c takes the oldest entry of its buffer: *)
(* an insert is admitted or refused, a wait marker releases its waiter.   *)
ProcessBuffer(c) ==
    /\ buffer[c] # <<>>
    /\ buffer' = [buffer EXCEPT ![c] = Tail(@)]
    /\ LET e == Head(buffer[c]) IN
       IF e.op = "insert"
          THEN /\ \E admitted \in BOOLEAN :
                    cached' = [cached EXCEPT ![c] =
                                 IF admitted THEN @ \cup {e.msg.key} ELSE @]
               /\ UNCHANGED pc
          ELSE /\ pc' = [pc EXCEPT ![e.thread] = "sendGrpc"]
               /\ UNCHANGED cached
    /\ UNCHANGED <<inner, msg, grpc, rpc, calls, notified>>

(* An entry reaches its TTL, or is evicted for a newer one.               *)
Evict(c, k) ==
    /\ k \in cached[c]
    /\ cached' = [cached EXCEPT ![c] = @ \ {k}]
    /\ UNCHANGED <<inner, pc, msg, buffer, grpc, rpc, calls, notified>>

(* on_unload: take inner, notify both shutdowns and drop the senders.  The *)
(* plugin manager unloads with no call in progress and calls no more.     *)
OnUnload ==
    /\ inner
    /\ \A t \in Threads : pc[t] = "idle"
    /\ inner' = FALSE
    /\ UNCHANGED <<pc, msg, buffer, cached, grpc, rpc, calls, notified>>

Next ==
    \/ \E t \in Threads :
          \/ UpdateAccountAtStartup(t)
          \/ \E p \in Pubkeys : UpdateAccount(t, p)
          \/ \E s \in Signatures : NotifyTransaction(t, s)
          \/ \E n \in SlotNumbers : UpdateSlotStatus(t, n)
          \/ SendGrpc(t) \/ SendRpc(t)
    \/ \E c \in Caches : ProcessBuffer(c)
    \/ \E c \in Caches, k \in Pubkeys \cup Signatures : Evict(c, k)
    \/ OnUnload

Spec == Init /\ [][Next]_vars

-----------------------------------------------------------------------------
(* Properties *)

(* The race the comment of notify_transaction describes: a message is     *)
(* never sent on either channel while the cache insert of that message is *)
(* still in stretto's buffer, so a subscription that comes in after the    *)
(* notification and looks the key up finds what the insert left, whatever *)
(* the other threads have queued meanwhile.                               *)
SentAfterCacheApplied ==
    [][\A t \in Threads :
         (pc[t] \in {"sendGrpc", "sendRpc"} /\ pc'[t] # pc[t])
           => \A c \in Caches : \A i \in DOMAIN buffer[c] : buffer[c][i] # Insert(msg[t])]_vars
====
