----------------------------- MODULE MCGameSteps -----------------------------
(* A small instance of GameSteps: the constants come from the               *)
(* configurations.                                                          *)
EXTENDS GameSteps
=============================================================================
