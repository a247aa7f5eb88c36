---------------------------- MODULE MCPlayerPage ----------------------------
(* Model-checking instance of PlayerPage: three frames, timing arrays that  *)
(* cover a full index and a short one with a duplicate timestamp.         *)
EXTENDS PlayerPage

MCTimingChoices == {<<0, 50, 120>>, <<0, 0>>}

(* The recording starts at the default 1920x1080, switches to 1024x768    *)
(* for frames 1 and 2 and back; its pointer appears at frame 1, stays the  *)
(* same at frame 2 and becomes zero-sized at frame 3.                      *)
MCDesktopAt == [f \in 0..3 |-> IF f \in {1, 2} THEN "1024x768" ELSE "1920x1080"]
MCPointerAt == [f \in 0..3 |-> CASE f \in {1, 2} -> "arrow"
                                [] f = 3 -> ZeroSize
                                [] OTHER -> EmptyBitmap]
=============================================================================
