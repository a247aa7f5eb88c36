--------------------------- MODULE MCReplayPlayer ---------------------------
(* Model-checking instance of ReplayPlayer: three frames, a full timing     *)
(* index and a short one with a duplicate timestamp.                       *)
EXTENDS ReplayPlayer

MCTimingChoices == {<<0, 50, 120>>, <<0, 0>>}
=============================================================================
