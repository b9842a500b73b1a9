------------------------- MODULE MCGatewayFirmware -------------------------
(* GatewayFirmware for TLC: three tasks, the three relays of the board. *)
EXTENDS GatewayFirmware
=============================================================================
