--------------------------- MODULE MC_GeyserPlugin ---------------------------
(* Instances of GeyserPlugin for TLC: threads are interchangeable.         *)
EXTENDS GeyserPlugin, TLC

ThreadSymmetry == Permutations(Threads)
=============================================================================
