------------------------- MODULE MCMissionTransfer --------------------------
(* MissionTransfer on small instances: two missions of different length.   *)
EXTENDS MissionTransfer, TLC

CONSTANTS short, long

MCSize == short :> 1 @@ long :> 2
MCSymmetry == Permutations(Workers)
=============================================================================
