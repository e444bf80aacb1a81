------------------------- MODULE WebSocketManagerMC -------------------------
(***************************************************************************)
(* WebSocketManager on small instances.                                    *)
(***************************************************************************)
EXTENDS WebSocketManager
=============================================================================
