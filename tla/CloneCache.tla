----------------------------- MODULE CloneCache -----------------------------
(***************************************************************************)
(* What the account cloner promises its callers (spec.md 1 and 3), with   *)
(* no fetching, classification, dumping or request channel: callers wait  *)
(* for a key; all callers waiting for a key get one and the same outcome  *)
(* at once; the outcome is the cached one, or it replaces the cached one,  *)
(* or it is an outcome the cache never records (an error, an override, or *)
(* cloning disabled).  Before the validator opens to requests, start-up   *)
(* hydration may fill the cache with no caller involved.                   *)
(* The outcomes are not enumerated: an action reads the outcome from the   *)
(* next state, so the specification is for checking the cloner against    *)
(* (as a property), not for running on its own.                            *)
(***************************************************************************)
CONSTANTS Keys, Clients, None

VARIABLES
    cache,    \* last outcome recorded for k, or None
    waiting,  \* key a caller waits for, or None
    got,      \* last outcome a caller received, or None
    open      \* start-up is over and requests are served

vars == <<cache, waiting, got, open>>

(* Outcomes that are answered but never recorded in the cache.            *)
NotRecorded(res) ==
    \/ res.type = "Err"
    \/ res.type = "Unclonable" /\ res.reason \in {"AlreadyLocallyOverriden", "NoCloningAllowed"}

Init ==
    /\ cache = [k \in Keys |-> None]
    /\ waiting = [c \in Clients |-> None]
    /\ got = [c \in Clients |-> None]
    /\ open = FALSE

Request(c, k) ==
    /\ waiting[c] = None
    /\ waiting' = [waiting EXCEPT ![c] = k]
    /\ UNCHANGED <<cache, got, open>>

(* Every caller waiting for k gets the same outcome res in one step.       *)
Answer(k) ==
    LET W == {c \in Clients : waiting[c] = k} IN
    /\ open
    /\ W # {}
    /\ \E c0 \in W :
          LET res == got'[c0] IN
          /\ got' = [c \in Clients |-> IF c \in W THEN res ELSE got[c]]
          /\ waiting' = [c \in Clients |-> IF c \in W THEN None ELSE waiting[c]]
          /\ \/ cache' = [cache EXCEPT ![k] = res]
             \/ cache' = cache /\ (res = cache[k] \/ NotRecorded(res))
    /\ UNCHANGED open

(* Start-up hydration records an outcome for k.                           *)
Hydrate(k) ==
    /\ ~open
    /\ cache' = [cache EXCEPT ![k] = cache'[k]]
    /\ UNCHANGED <<waiting, got, open>>

Open ==
    /\ ~open
    /\ open' = TRUE
    /\ UNCHANGED <<cache, waiting, got>>

Next ==
    \/ \E c \in Clients, k \in Keys : Request(c, k)
    \/ \E k \in Keys : Answer(k) \/ Hydrate(k)
    \/ Open

Spec == Init /\ [][Next]_vars
=============================================================================
