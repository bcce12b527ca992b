------------------------------- MODULE MCGame -------------------------------
(* A small instance of Game: the constants come from the configurations.    *)
EXTENDS Game
=============================================================================
