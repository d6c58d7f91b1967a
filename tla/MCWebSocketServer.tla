-------------------------- MODULE MCWebSocketServer --------------------------
(* Model of WebSocketServer: two starts and two connections, whose ids can *)
(* be the same.                                                            *)
EXTENDS WebSocketServer
=============================================================================
