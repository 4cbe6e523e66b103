----------------------- MODULE MC_ValidatorAuthority -----------------------
(* Instance of ValidatorAuthority for TLC: the threads are model values    *)
(* given in the configurations.                                            *)
EXTENDS ValidatorAuthority, TLC
=============================================================================
