--------------------------- MODULE MCContextGraph ---------------------------
(* The instance of ContextGraph for TLC: ContextGraph.cfg gives it contexts.  *)
EXTENDS ContextGraph
=============================================================================
