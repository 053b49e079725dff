------------------------- MODULE MCAssistantGraphs -------------------------
(* An instance of AssistantGraphs for TLC. *)
EXTENDS AssistantGraphs
=============================================================================
