--------------------------- MODULE MCBridgeService ---------------------------
(* An instance of BridgeService for TLC: one session with one room, and two  *)
(* calls of the MCP server's operations at a time.                           *)
EXTENDS BridgeService

CONSTANTS d1, r1, c1, c2

OneRoom == [d \in Dirs |-> r1]
=============================================================================
