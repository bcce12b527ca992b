---------------------------- MODULE MCLifecycle ----------------------------
(* Small instances of Lifecycle: the constants come from the configurations. *)
EXTENDS Lifecycle
=============================================================================
