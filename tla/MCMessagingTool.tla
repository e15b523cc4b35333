--------------------------- MODULE MCMessagingTool ---------------------------
(* An instance of MessagingTool for TLC: a private room the administrator may *)
(* be asked to admit somebody to, one sending identity, and two calls of it;  *)
(* a Claude Code session gets no identity.                                    *)
EXTENDS MessagingTool

CONSTANTS u1, b, d1, r1, c1, c2

Names      == [d \in Dirs |-> "project"]
Sessions   == [p \in {"project"} |-> u1]
NoSessions == [p \in {"project"} |-> None]
=============================================================================
