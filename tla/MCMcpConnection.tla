--------------------------- MODULE MCMcpConnection ---------------------------
(* A small instance of McpConnection: registration and two tool calls. *)
EXTENDS McpConnection

CONSTANTS boot, call1, call2

BootAndTwo == {boot, call1, call2}
=============================================================================
