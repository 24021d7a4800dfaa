--------------------------- MODULE MCAgentProcess ---------------------------
(***************************************************************************)
(* The plugins of a collection that share state, and one that does not       *)
(* (ketall stands for the six of them), two overlapping collections.         *)
(***************************************************************************)
EXTENDS AgentProcess

MCCollection == <<"preUpgrade", "ketall", "rakkess">>
MCScheduled == {"preUpgrade", "ketall"}
MCMode == {"cron", "gocron"}
MCSlots == {"tick1", "tick2"}
=============================================================================
