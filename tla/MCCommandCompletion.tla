------------------------ MODULE MCCommandCompletion -------------------------
(* CommandCompletion with requests whose tools share commands.             *)
EXTENDS CommandCompletion, TLC

CONSTANTS r1, r2, r3, id1, id2, id3

\* Each request its own step id, or (the default of request_id_from_headers)
\* the same for all.
MCOwnIds == r1 :> id1 @@ r2 :> id2 @@ r3 :> id3
MCOneId == [r \in Requests |-> id1]

\* Two tools that await the same command, one of which sends another before it,
\* and a tool that sends none.
MCModes == r1 :> "waypoint_inject" @@ r2 :> "goto_location" @@ r3 :> "retry_streams"
\* Two requests with different commands.
MCOther == r1 :> "takeoff" @@ r2 :> "land"
=============================================================================
