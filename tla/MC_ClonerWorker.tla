--------------------------- MODULE MC_ClonerWorker ---------------------------
(* Instances of ClonerWorker for TLC: initial chain states and local       *)
(* copies, and the symmetry of the callers.                                *)
EXTENDS ClonerWorker, TLC

DelegatedAt0(a) == [kind |-> "Delegated", dslot |-> 0, auth |-> a]
LocalDelegated(modified) ==
    [kind |-> "Delegated", dslot |-> 0, modified |-> modified, huge |-> FALSE]

\* An undelegated account, or one delegated at slot 0 to us or without authority.
StatesDelegation == {Undelegated, DelegatedAt0(ValidatorIdentity), DelegatedAt0(DefaultPubkey)}

\* The delegation states and an upgradeable program, whose clone awaits the
\* program data and IDL fetches.
StatesLiveness == StatesDelegation \cup {[kind |-> "Program", loader |-> "upgradeable"]}

\* Every kind of account the cloner branches on.
StatesAllKinds ==
    {[kind |-> "FeePayer"], Undelegated, DelegatedAt0(OtherValidator)}
    \cup {[kind |-> "Program", loader |-> l] : l \in Loaders}

\* One account of each kind a permission can refuse.
StatesRefusable ==
    {[kind |-> "FeePayer"], Undelegated, DelegatedAt0(OtherValidator),
     [kind |-> "Program", loader |-> "legacy"]}

\* No local copy, or a copy delegated at slot 0 that a previous run wrote to.
BankFresh == {NoAccount}
BankRestart == {NoAccount, LocalDelegated(TRUE)}
\* Copies the hydrate filter drops, next to ordinary ones.
BankFiltered == {NoAccount, LocalDelegated(FALSE),
                 [kind |-> "ProgramData", dslot |-> 0, modified |-> FALSE, huge |-> FALSE],
                 [kind |-> "Undelegated", dslot |-> 0, modified |-> FALSE, huge |-> TRUE]}

ClientSymmetry == Permutations(Clients)
=============================================================================
