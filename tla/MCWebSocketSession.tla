------------------------- MODULE MCWebSocketSession -------------------------
(* Model-checking instances of WebSocketSession. *)
EXTENDS WebSocketSession
=============================================================================
