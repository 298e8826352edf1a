---------------------------- MODULE MCMcpServers -----------------------------
(* A small instance of McpServers: registration and two calls of a tool. *)
EXTENDS McpServers

CONSTANTS boot, call1, call2

BootAndTwo == {boot, call1, call2}

\* The HTTP server calls its tool read-only, and is not trusted.
Hinting == {[trusted |-> FALSE, hinted |-> TRUE, listed |-> FALSE]}
=============================================================================
