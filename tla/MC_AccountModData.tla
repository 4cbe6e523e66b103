-------------------------- MODULE MC_AccountModData --------------------------
(* Instances of AccountModData for TLC: two payloads, so that data         *)
(* written under a reused id can be told apart from the original.          *)
EXTENDS AccountModData, TLC

PayloadSymmetry == Permutations(Datas)
=============================================================================
