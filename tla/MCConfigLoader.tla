--------------------------- MODULE MCConfigLoader ---------------------------
(* A small instance of ConfigLoader: a number setting, the boolean one, a   *)
(* key the loader does not know, and texts that are numbers, "true", and    *)
(* neither.                                                                 *)
EXTENDS ConfigLoader

MCTexts == {"gridWidth", "enablePostProcessing", "gameBannerHeight", "50", "0", "true", "wide"}

MCNumber(text) == IF text = "50" THEN 50 ELSE 0
=============================================================================
