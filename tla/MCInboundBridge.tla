-------------------------- MODULE MCInboundBridge --------------------------
(* Four messages, one urgent, two normal, one of low priority. *)
EXTENDS InboundBridge

CONSTANTS urgent, first, second, low

MCPriority == [m \in Messages |-> CASE m = urgent -> 0 [] m = low -> 2 [] OTHER -> 1]
=============================================================================
