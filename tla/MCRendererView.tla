--------------------------- MODULE MCRendererView ---------------------------
(* A small instance of RendererView: the constants come from the            *)
(* configuration.                                                           *)
EXTENDS RendererView
=============================================================================
