------------------------------- MODULE MCBot -------------------------------
(* A small instance of Bot: the constants come from the configuration.      *)
EXTENDS Bot
=============================================================================
