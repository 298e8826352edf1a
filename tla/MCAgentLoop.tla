---------------------------- MODULE MCAgentLoop -----------------------------
(* Small instances of AgentLoop for TLC: one tool of each kind. *)
EXTENDS AgentLoop

CONSTANTS read, write, out1
=============================================================================
