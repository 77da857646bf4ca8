---------------------------- MODULE MCLeaderLock ----------------------------
(* Instances of LeaderLock for TLC.                                        *)
EXTENDS LeaderLock, TLC

Symmetry == Permutations(Proc)
=============================================================================
