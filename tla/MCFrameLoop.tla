----------------------------- MODULE MCFrameLoop -----------------------------
(* Small instances of FrameLoop: the constants come from the configurations. *)
EXTENDS FrameLoop
=============================================================================
