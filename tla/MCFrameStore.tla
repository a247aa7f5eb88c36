---------------------------- MODULE MCFrameStore ----------------------------
(* Model-checking instance of FrameStore.                                   *)
EXTENDS FrameStore
=============================================================================
