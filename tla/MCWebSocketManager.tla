--------------------------- MODULE MCWebSocketManager ---------------------------
(* Constant values for checking WebSocketManager with TLC. *)
EXTENDS WebSocketManager

AnyMessage == [etype : {"None", "UploadMsg"}, cmd : BOOLEAN]
===============================================================================
