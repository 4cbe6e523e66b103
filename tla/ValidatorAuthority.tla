------------------------- MODULE ValidatorAuthority -------------------------
(***************************************************************************)
(* The process-wide validator authority of the sleipnir program            *)
(* (programs/sleipnir/src/validator.rs): set once at start-up, read by     *)
(* everyone after.  set_validator_authority checks under the read lock     *)
(* that nothing was set, releases it, and replaces the value under the    *)
(* write lock; each of the two lock sections is one step.                  *)
(***************************************************************************)
EXTENDS Naturals, FiniteSets

CONSTANTS
    Setters,     \* threads calling set_validator_authority, each with its own keypair
    Readers,     \* threads calling validator_authority_id
    Concurrent,  \* several set_validator_authority calls may overlap
    None

VARIABLES
    authority,   \* VALIDATOR_AUTHORITY: the keypair of a setter, or None
    pc,          \* pc[t]: "idle", "checked", "done" or "panicked"
    seen         \* seen[r]: the pubkey r read, "panicked", or None before reading

vars == <<authority, pc, seen>>

Init ==
    /\ authority = None
    /\ pc = [t \in Setters |-> "idle"]
    /\ seen = [r \in Readers |-> None]

InCall(t) == pc[t] = "checked"

(* Faulty variant: the read-lock check is left out.                        *)
CheckUnsetNoTest(t) ==
    /\ pc[t] = "idle"
    /\ Concurrent \/ \A u \in Setters : ~InCall(u)
    /\ pc' = [pc EXCEPT ![t] = "checked"]
    /\ UNCHANGED <<authority, seen>>

(* The read-lock section: panic when an authority was set before.          *)
CheckUnset(t) ==
    /\ pc[t] = "idle"
    /\ Concurrent \/ \A u \in Setters : ~InCall(u)
    /\ pc' = [pc EXCEPT ![t] = IF authority # None THEN "panicked" ELSE "checked"]
    /\ UNCHANGED <<authority, seen>>

(* The write-lock section: replace(keypair).                               *)
Replace(t) ==
    /\ pc[t] = "checked"
    /\ authority' = t
    /\ pc' = [pc EXCEPT ![t] = "done"]
    /\ UNCHANGED seen

(* validator_authority_id, and validator_authority which reads the same   *)
(* lock: expect("Validator authority needs to be set on startup").         *)
ReadAuthority(r) ==
    /\ seen[r] = None
    /\ seen' = [seen EXCEPT ![r] = IF authority = None THEN "panicked" ELSE authority]
    /\ UNCHANGED <<authority, pc>>

Next ==
    \/ \E t \in Setters : CheckUnset(t) \/ Replace(t)
    \/ \E r \in Readers : ReadAuthority(r)

Spec == Init /\ [][Next]_vars

(* The panic message of set_validator_authority: the authority can only be *)
(* set once, so once set it never changes.                                 *)
SetOnce == [][authority # None => authority' = authority]_authority
=============================================================================
