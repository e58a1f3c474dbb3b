--------------------------- MODULE MCBridgeTransfer ---------------------------
(* An instance of BridgeTransfer for TLC; the bounds are in the configurations. *)
EXTENDS BridgeTransfer, TLC
=============================================================================
