-------------------------- MODULE MCGatewayStatus --------------------------
(* GatewayStatus with a few changes of the connections after start-up.     *)
EXTENDS GatewayStatus
=============================================================================
