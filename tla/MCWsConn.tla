------------------------------ MODULE MCWsConn ------------------------------
(* What the server sends in the checked instances of WsConn.                *)
EXTENDS WsConn

F(op, fin, small) == [op |-> op, fin |-> fin, small |-> small]

\* For the send side: pings to answer, and the close handshake.
MCControlFrames == {F("ping", TRUE, FALSE), F("close", TRUE, FALSE)}

\* For the read side: whole and fragmented messages, control frames between them.
MCDataFrames ==
  {F(op, fin, FALSE) : op \in {"text", "cont"}, fin \in BOOLEAN}
    \cup {F("binary", FALSE, FALSE), F("ping", TRUE, TRUE), F("pong", TRUE, FALSE),
          F("malformed", TRUE, FALSE)}

\* For the flood score: bursts and trickles, with and without messages.
MCPaces ==
  {F("pong", TRUE, small) : small \in BOOLEAN} \cup {F("text", TRUE, small) : small \in BOOLEAN}

MCStreams == MCDataFrames \cup MCPaces

MCPongs == {F("pong", TRUE, FALSE), F("text", TRUE, FALSE)}
=============================================================================
