------------------------------ MODULE MCIngest ------------------------------
(* Model-checking instance of Ingest: folder A has three frames and a      *)
(* valid timing.json, folder B two frames and a malformed one, so that B   *)
(* after A must remove frame 2 and A's timing; folder C has no timing.json *)
(* and a gap in its frame names.                                           *)
EXTENDS Ingest

MCFolderFiles ==
    [f \in Folders |-> CASE f = "A" -> <<0, 1, 2>>
                         [] f = "B" -> <<0, 1>>
                         [] f = "C" -> <<0, 2>>]
MCFolderTiming ==
    [f \in Folders |-> CASE f = "A" -> "valid"
                         [] f = "B" -> "malformed"
                         [] f = "C" -> "none"]
=============================================================================
