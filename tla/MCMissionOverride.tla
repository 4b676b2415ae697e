------------------------- MODULE MCMissionOverride --------------------------
(* MissionOverride with two clients that serve a choice of requests. *)
EXTENDS MissionOverride

CONSTANTS w1, w2
=============================================================================
